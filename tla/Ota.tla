---------------------------------- MODULE Ota ----------------------------------
(***************************************************************************)
(* A panel update campaign over the relay: PanelFlasher driving            *)
(* RelayBootloaderClient on the controller, and on every panel either the  *)
(* application or the resident RelayBootloader.                            *)
(*                                                                         *)
(* Panels are numbered as discovery numbered them, so a panel's parent has *)
(* a smaller number.  A frame for a panel is relayed by its ancestors, and *)
(* only by those that run their application and know their place in the    *)
(* tree: one that was updated has rebooted and relays nothing.             *)
(***************************************************************************)
EXTENDS Integers, Sequences, FiniteSets

CONSTANTS
    PanelCount,
    Parent,         \* Parent[p]: the panel p hangs from, 0 = the controller
    Pages,          \* totalPages of an image
    Images,         \* the images that may be rolled out
    ConnectTries,   \* connects that fit in WAIT_TIMEOUT_MS
    WriteAttempts,  \* WRITE_ATTEMPTS
    IdleLimit,      \* IDLE_TIMEOUT_TICKS, in a coarser unit
    MaxCampaigns,   \* bound: campaigns started
    Faults,         \* the kinds of fault (FaultKind) that may happen
    MaxFaults       \* bound: how many of them

Panels == 1 .. PanelCount
Page   == 0 .. Pages - 1
Chunk  == 0 .. 1              \* PAGE_SIZE / BOOTLOADER_CHUNK_SIZE
Address == Page \X Chunk      \* what a chunk's address says
NoPage == Pages               \* pageStart 0xFFFF: no page loaded

\* What 64 bytes of flash or page buffer can hold.
Old   == "old"                \* the application the panel came with
Blank == "blank"              \* erased, 0xFF
Torn  == "torn"               \* the page write was cut short

\* A frame lost, by its type (ANSWER: a PONG or a WRITE_ACK); a chunk or an answer
\* damaged in its payload; an answer that outlasts its wait; the controller
\* restarting, which also power-cycles the panels; its loop held up past the
\* bootloader's idle limit (SerialFirmwareReceiver::receiveBlocking waits 30 s).
FaultKind == {"ENTER", "PING", "CHUNK", "START", "ANSWER", "DAMAGE", "LATE", "RESTART", "STALL"}

ASSUME TreeAssumption ==
    /\ PanelCount \in Nat
    /\ Parent \in [Panels -> 0 .. PanelCount]
    /\ \A p \in Panels : Parent[p] < p
ASSUME ImagesAssumption == Pages \in Nat \ {0} /\ Images \cap {Old, Blank, Torn} = {}
ASSUME RetryAssumption ==
    /\ ConnectTries \in Nat \ {0} /\ WriteAttempts \in Nat \ {0} /\ IdleLimit \in Nat \ {0}
    /\ MaxCampaigns \in Nat /\ MaxFaults \in Nat
    /\ Faults \subseteq FaultKind

VARIABLES
    \* PanelFlasher and RelayBootloaderClient
    state,        \* status.state
    listed,       \* init->getPanels(): the panels the last discovery found
    panelIdx,     \* status.panelIdx
    image,        \* what the firmware file holds
    currentPage,  \* currentPage
    chunk,        \* c of writePage()
    tries,        \* connects made, or attempt of writeChunk()
    awaiting,     \* requestReply() is waiting
    \* the relay
    down,         \* frames on their way to a panel, oldest first
    up,           \* answers on their way to the controller
    \* the panels
    mode,         \* mode[p]: "app" or "boot" (resident in the bootloader)
    joined,       \* joined[p]: the application knows its parent and index
    flash,        \* flash[p][a]: the chunk at address a
    pageStart, pageBuf, pageDirty, idleTicks,
    \* bookkeeping of the model
    campaigns, faults,
    cut           \* panels whose update was cut short

flasherVars == <<state, listed, panelIdx, image, currentPage, chunk, tries, awaiting>>
bootVars    == <<pageStart, pageBuf, pageDirty, idleTicks>>
panelVars   == <<mode, joined, flash, bootVars>>
vars == <<flasherVars, down, up, panelVars, campaigns, faults, cut>>

Active == state \in {"ENTER_BL", "WAIT_BL", "FLASHING", "NEXT_PANEL"}

\* Mutated form: in discovery order, root first.
RootFirst(i) == listed[i + 1]
\* currentPanelAddress(): leaves first, so from the back of the list.
FlashOrder(i) == listed[Len(listed) - i]
Target == FlashOrder(panelIdx)

\* Faults the retries make good; the others may cost a panel or a campaign.
Mild == {"PING", "CHUNK", "START", "ANSWER", "DAMAGE", "LATE"}
Happens(kind) ==
    /\ kind \in Faults /\ faults.count < MaxFaults
    /\ faults' = [count |-> faults.count + 1, mild |-> faults.mild /\ kind \in Mild]

-----------------------------------------------------------------------------
(* The relay.                                                               *)

\* p's proper ancestors: the least set with the parent of p and of each of its own.
Ancestors(p) ==
    {a \in Panels : \A S \in SUBSET Panels :
        (\A q \in S \cup {p} : Parent[q] # 0 => Parent[q] \in S) => a \in S}

Relaying(p) == \A a \in Ancestors(p) : mode[a] = "app" /\ joined[a]

Frame(type, p, a, data) == [type |-> type, panel |-> p, addr |-> a, data |-> data, ok |-> TRUE]
NoAddr == <<0, 0>>

\* flushStrayBytes, then the frame goes out.  The flush drops what has arrived;
\* what has not arrived yet is still to come.
Request(f) ==
    /\ \E k \in 0 .. Len(up) : up' = SubSeq(up, k + 1, Len(up))
    /\ down' = IF Relaying(f.panel) THEN Append(down, f) ELSE down

-----------------------------------------------------------------------------
(* The controller.                                                          *)

\* startFlashing(), for a file that opens and has an allowed size.  The caller
\* checks isActive().
StartFlashing ==
    /\ ~Active
    /\ campaigns < MaxCampaigns
    /\ campaigns' = campaigns + 1
    /\ image' \in Images
    /\ panelIdx' = 0
    /\ state' = IF listed = <<>> THEN "ERROR" ELSE "ENTER_BL"
    /\ UNCHANGED <<listed, currentPage, chunk, tries, awaiting, down, up, panelVars, faults, cut>>

\* One ENTER_BOOTLOADER, hop-acknowledged but not repeated end to end.
EnterBootloader ==
    /\ state = "ENTER_BL"
    /\ state' = "WAIT_BL" /\ tries' = 0
    /\ Request(Frame("ENTER", Target, NoAddr, Old))
    /\ UNCHANGED <<listed, panelIdx, image, currentPage, chunk, awaiting, panelVars,
                   campaigns, faults, cut>>

\* connect(addr, 1, 0).  By the first, ENTER_BL_SETTLE_MS has left the wires quiet and
\* whatever was still to come has come, for the flush to drop.
Connect ==
    /\ state = "WAIT_BL" /\ ~awaiting
    /\ tries = 0 => down = <<>> /\ up' = <<>>
    /\ awaiting' = TRUE
    /\ Request(Frame("PING", Target, NoAddr, Old))
    /\ UNCHANGED <<state, listed, panelIdx, image, currentPage, chunk, tries, panelVars,
                   campaigns, faults, cut>>

\* One attempt of writeChunk().
SendChunk ==
    /\ state = "FLASHING" /\ ~awaiting
    /\ awaiting' = TRUE
    /\ Request(Frame("CHUNK", Target, <<currentPage, chunk>>, image))
    /\ UNCHANGED <<state, listed, panelIdx, image, currentPage, chunk, tries, panelVars,
                   campaigns, faults, cut>>

Attempts == IF state = "WAIT_BL" THEN ConnectTries ELSE WriteAttempts
\* Mutated form: one attempt short.
ExhaustedEarly == tries + 2 >= Attempts
Exhausted == tries + 1 >= Attempts

\* Mutated forms: the panel is skipped; the attempt is not counted.
AttemptFailsSkips ==
    /\ tries' = tries + 1 /\ state' = (IF Exhausted THEN "NEXT_PANEL" ELSE state) /\ UNCHANGED cut
AttemptFailsUncounted == UNCHANGED <<tries, state, cut>>
\* The attempt, or the connect, came to nothing; the last one ends the campaign.
AttemptFails ==
    /\ tries' = tries + 1
    /\ state' = IF Exhausted THEN "ERROR" ELSE state
    /\ cut' = IF Exhausted /\ state = "FLASHING" THEN cut \cup {Target} ELSE cut

\* connect() saw a PONG of the right version: open the file, start at page 0.
Connected ==
    /\ state = "WAIT_BL"
    /\ state' = "FLASHING"
    /\ currentPage' = 0 /\ chunk' = 0 /\ tries' = 0
    /\ UNCHANGED <<down, cut>>

\* Is f the undamaged WRITE_OK for the chunk just sent?
AcceptsAck(f) == f.ok /\ f.addr = <<currentPage, chunk>>

\* Mutated forms: the campaign moves on one chunk early, or a page late.
LastChunkTooEarly == currentPage = Pages - 1
\* currentPage >= totalPages after this chunk.
LastChunk == currentPage = Pages - 1 /\ chunk = 1

\* Next chunk, next page, or START_APP (fire and forget) and the next panel.
ChunkWritten ==
    /\ tries' = 0
    /\ IF LastChunk
       THEN /\ state' = "NEXT_PANEL" /\ currentPage' = currentPage + 1
            /\ down' = IF Relaying(Target)
                       THEN Append(down, Frame("START", Target, NoAddr, Old)) ELSE down
            /\ UNCHANGED chunk
       ELSE /\ chunk' = 1 - chunk
            /\ currentPage' = currentPage + chunk
            /\ UNCHANGED <<state, down>>
    /\ UNCHANGED cut

\* awaitFrame(): the oldest answer; one of another type is passed over.
Receive ==
    /\ awaiting /\ up # <<>>
    /\ up' = Tail(up)
    /\ LET f == Head(up) IN
        \/ /\ f.type # (IF state = "WAIT_BL" THEN "PONG" ELSE "ACK")
           /\ UNCHANGED <<state, currentPage, chunk, tries, awaiting, down, cut>>
        \/ /\ state = "WAIT_BL" /\ f.type = "PONG"
           /\ awaiting' = FALSE
           /\ IF f.ok THEN Connected
              ELSE AttemptFails /\ UNCHANGED <<currentPage, chunk, down>>
        \/ /\ state = "FLASHING" /\ f.type = "ACK"
           /\ awaiting' = FALSE
           /\ IF AcceptsAck(f) THEN ChunkWritten
              ELSE AttemptFails /\ UNCHANGED <<currentPage, chunk, down>>
    /\ UNCHANGED <<listed, panelIdx, image, panelVars, campaigns, faults>>

\* ACK_TIMEOUT_MS is far longer than a healthy answer takes.
ReplyTimeout ==
    /\ awaiting
    /\ \/ down = <<>> /\ up = <<>> /\ UNCHANGED faults
       \/ (down # <<>> \/ up # <<>>) /\ Happens("LATE")
    /\ awaiting' = FALSE
    /\ AttemptFails
    /\ UNCHANGED <<listed, panelIdx, image, currentPage, chunk, down, up, panelVars, campaigns>>

\* advancePanel().
NextPanel ==
    /\ state = "NEXT_PANEL"
    /\ panelIdx' = panelIdx + 1
    /\ state' = IF panelIdx + 1 >= Len(listed) THEN "DONE" ELSE "ENTER_BL"
    /\ UNCHANGED <<listed, image, currentPage, chunk, tries, awaiting, down, up, panelVars,
                   campaigns, faults, cut>>

-----------------------------------------------------------------------------
(* The panels.                                                              *)

\* flash[p] once the loaded page is committed: both chunks of it, if dirty.
Committed(p) ==
    [a \in Address |-> IF pageDirty[p] /\ a[1] = pageStart[p] THEN pageBuf[p][a[2]] ELSE flash[p][a]]

BlankPage == [c \in Chunk |-> Blank]

\* handleEnterBootloader and BootloaderBridge: hand over to a bootloader with no page
\* loaded.  It knows its index and edge, so it answers; the relay stack is gone.
EntersBootloader(p) ==
    /\ mode' = [mode EXCEPT ![p] = "boot"]
    /\ joined' = [joined EXCEPT ![p] = FALSE]
    /\ pageStart' = [pageStart EXCEPT ![p] = NoPage]
    /\ pageDirty' = [pageDirty EXCEPT ![p] = FALSE]
    /\ pageBuf' = [pageBuf EXCEPT ![p] = BlankPage]
    /\ idleTicks' = [idleTicks EXCEPT ![p] = 0]

\* commitPage() and the jump to the application, which knows no parent until a
\* discovery finds it.
LeavesBootloader(p) ==
    /\ flash' = [flash EXCEPT ![p] = Committed(p)]
    /\ mode' = [mode EXCEPT ![p] = "app"]
    /\ pageDirty' = [pageDirty EXCEPT ![p] = FALSE]
    /\ idleTicks' = [idleTicks EXCEPT ![p] = 0]
    /\ UNCHANGED <<joined, pageStart, pageBuf>>

\* loadPage(): the buffer a chunk of the page is copied into.
LoadPage(p, page) == IF pageStart[p] = page THEN pageBuf[p] ELSE BlankPage

\* loadPage(): the flash after it; a dirty page that is replaced is committed.
FlashAfterLoad(p, page) == IF pageStart[p] = page THEN flash[p] ELSE Committed(p)

\* handleWriteChunk(): load the page, copy the chunk, commit a complete page.
WritesChunk(p, f) ==
    LET page   == f.addr[1]
        c      == f.addr[2]
        buf    == [LoadPage(p, page) EXCEPT ![c] = f.data]
        loaded == FlashAfterLoad(p, page)
    IN  /\ pageStart' = [pageStart EXCEPT ![p] = page]
        /\ pageBuf' = [pageBuf EXCEPT ![p] = buf]
        /\ pageDirty' = [pageDirty EXCEPT ![p] = c # 1]
        /\ flash' = [flash EXCEPT ![p] = [a \in Address |->
                        IF c = 1 /\ a[1] = page THEN buf[a[2]] ELSE loaded[a]]]

Answer(type, p, f, ok) ==
    up' = IF Relaying(p) THEN Append(up, [Frame(type, p, f.addr, Old) EXCEPT !.ok = ok]) ELSE up

\* The application's dispatch of a unicast: ENTER_BOOTLOADER is the one it acts on.
AppReceives(p, f) ==
    /\ mode[p] = "app"
    /\ IF joined[p] /\ f.type = "ENTER" THEN EntersBootloader(p)
       ELSE UNCHANGED <<mode, joined, bootVars>>
    /\ UNCHANGED <<up, flash>>

\* main()'s loop; every byte restarts the idle count.
BootReceives(p, f) ==
    /\ mode[p] = "boot"
    /\ \/ /\ f.type = "PING"
          /\ Answer("PONG", p, f, TRUE)
          /\ idleTicks' = [idleTicks EXCEPT ![p] = 0]
          /\ UNCHANGED <<mode, joined, flash, pageStart, pageBuf, pageDirty>>
       \/ /\ f.type = "CHUNK" /\ f.ok
          /\ WritesChunk(p, f)
          /\ Answer("ACK", p, f, TRUE)
          /\ idleTicks' = [idleTicks EXCEPT ![p] = 0]
          /\ UNCHANGED <<mode, joined>>
       \/ /\ f.type = "CHUNK" /\ ~f.ok
          /\ Answer("ACK", p, f, FALSE)
          /\ idleTicks' = [idleTicks EXCEPT ![p] = 0]
          /\ UNCHANGED <<mode, joined, flash, pageStart, pageBuf, pageDirty>>
       \/ /\ f.type = "START"
          /\ LeavesBootloader(p)
          /\ UNCHANGED up
       \/ /\ f.type = "ENTER"
          /\ idleTicks' = [idleTicks EXCEPT ![p] = 0]
          /\ UNCHANGED <<up, mode, joined, flash, pageStart, pageBuf, pageDirty>>

PanelReceive ==
    /\ down # <<>>
    /\ down' = Tail(down)
    /\ LET f == Head(down) IN AppReceives(f.panel, f) \/ BootReceives(f.panel, f)
    /\ UNCHANGED <<flasherVars, campaigns, faults, cut>>

\* A frame for another panel, or the ordinary traffic that resumes after a campaign,
\* reaches a resident bootloader: ignored, but its bytes count as activity.
Traffic(p) ==
    /\ mode[p] = "boot" /\ Relaying(p) /\ idleTicks[p] > 0
    /\ idleTicks' = [idleTicks EXCEPT ![p] = 0]
    /\ UNCHANGED <<flasherVars, down, up, mode, joined, flash, pageStart, pageBuf, pageDirty,
                   campaigns, faults, cut>>

\* The target of a campaign hears from the controller well within the idle limit.
Attended(p) == Active /\ state # "NEXT_PANEL" /\ p = Target

\* Time passes for a resident panel; at the limit it gives up and boots the application.
IdleTick(p) ==
    /\ mode[p] = "boot" /\ ~Attended(p)
    /\ IF idleTicks[p] + 1 < IdleLimit
       THEN /\ idleTicks' = [idleTicks EXCEPT ![p] = @ + 1]
            /\ UNCHANGED <<mode, joined, flash, pageStart, pageBuf, pageDirty>>
       ELSE LeavesBootloader(p)
    /\ UNCHANGED <<flasherVars, down, up, campaigns, faults, cut>>

-----------------------------------------------------------------------------
(* Faults.                                                                  *)

LoseRequest ==
    /\ down # <<>> /\ Happens(Head(down).type)
    /\ down' = Tail(down)
    /\ UNCHANGED <<flasherVars, up, panelVars, campaigns, cut>>

LoseAnswer ==
    /\ up # <<>> /\ Happens("ANSWER")
    /\ up' = Tail(up)
    /\ UNCHANGED <<flasherVars, down, panelVars, campaigns, cut>>

\* headerCrc does not cover a chunk's or an answer's payload; their own CRC does.
Damage ==
    /\ Happens("DAMAGE")
    /\ \/ /\ down # <<>> /\ Head(down).type = "CHUNK"
          /\ down' = <<[Head(down) EXCEPT !.ok = FALSE]>> \o Tail(down)
          /\ UNCHANGED up
       \/ /\ up # <<>>
          /\ up' = <<[Head(up) EXCEPT !.ok = FALSE]>> \o Tail(up)
          /\ UNCHANGED down
    /\ UNCHANGED <<flasherVars, panelVars, campaigns, cut>>

\* Between two pages receiveBlocking() holds the loop past the target's idle limit.
Stall ==
    /\ state \in {"WAIT_BL", "FLASHING"} /\ ~awaiting /\ chunk = 0
    /\ down = <<>> /\ up = <<>>
    /\ mode[Target] = "boot"
    /\ Happens("STALL")
    /\ LeavesBootloader(Target)
    /\ cut' = IF state = "FLASHING" THEN cut \cup {Target} ELSE cut
    /\ UNCHANGED <<flasherVars, down, up, campaigns>>

\* A panel whose flash mixes two images, or holds an unfinished page, has no
\* application that can be counted on: it relays nothing and enters no bootloader.
Sound(p) == \E i \in {Old} \cup Images : \A a \in Address : flash[p][a] = i

\* What a cut of power leaves of the page being written: nothing of it was done, or
\* the erase was and the rest was not.
FlashAfterPowerCut ==
    {flash} \cup
    {[flash EXCEPT ![f.panel] = [a \in Address |->
            IF a[1] = f.addr[1] THEN Torn ELSE flash[f.panel][a]]] :
        f \in {g \in {down[1] : n \in {1} \cap DOMAIN down} :
                  mode[g.panel] = "boot" /\ g.type = "CHUNK" /\ g.ok /\ g.addr[2] = 1}}

\* The order panels are numbered in.
InDiscoveryOrder(s) == \A i, j \in DOMAIN s : i < j => s[i] < s[j]

\* The controller restarts: setup() cycles the panels' power, every panel boots its
\* application, and discovery finds those it can reach, in the same order.
Restart ==
    /\ Happens("RESTART")
    /\ flash' \in FlashAfterPowerCut
    /\ mode' = [p \in Panels |-> "app"]
    /\ LET found == {p \in Panels : \A q \in Ancestors(p) \cup {p} : Sound(q)'}
       IN  /\ joined' = [p \in Panels |-> p \in found]
           /\ listed' \in {s \in [1 .. Cardinality(found) -> found] : InDiscoveryOrder(s)}
    /\ cut' = cut \cup {p \in Panels : flash'[p] # flash[p]}
                  \cup {p \in Panels : state = "FLASHING" /\ p = Target}
    /\ state' = "IDLE" /\ panelIdx' = 0 /\ awaiting' = FALSE
    /\ down' = <<>> /\ up' = <<>>
    /\ pageDirty' = [p \in Panels |-> FALSE]
    /\ idleTicks' = [p \in Panels |-> 0]
    /\ UNCHANGED <<image, currentPage, chunk, tries, pageStart, pageBuf, campaigns>>

Fault == LoseRequest \/ LoseAnswer \/ Damage \/ Stall \/ Restart

-----------------------------------------------------------------------------
Init ==
    /\ state = "IDLE" /\ listed = [i \in Panels |-> i] /\ panelIdx = 0
    /\ image \in Images /\ currentPage = 0 /\ chunk = 0 /\ tries = 0 /\ awaiting = FALSE
    /\ down = <<>> /\ up = <<>>
    /\ mode = [p \in Panels |-> "app"] /\ joined = [p \in Panels |-> TRUE]
    /\ flash = [p \in Panels |-> [a \in Address |-> Old]]
    /\ pageStart = [p \in Panels |-> NoPage]
    /\ pageBuf = [p \in Panels |-> BlankPage]
    /\ pageDirty = [p \in Panels |-> FALSE] /\ idleTicks = [p \in Panels |-> 0]
    /\ campaigns = 0 /\ faults = [count |-> 0, mild |-> TRUE] /\ cut = {}

Flasher == EnterBootloader \/ Connect \/ SendChunk \/ Receive \/ ReplyTimeout \/ NextPanel

Next ==
    \/ StartFlashing \/ Flasher
    \/ PanelReceive
    \/ \E p \in Panels : Traffic(p) \/ IdleTick(p)
    \/ Fault

\* The controller's loop and the wires keep going, and so does a panel's clock;
\* campaigns and ordinary traffic need not come.
Fairness ==
    /\ WF_vars(Flasher) /\ WF_vars(PanelReceive)
    /\ \A p \in Panels : WF_vars(IdleTick(p))

Spec == Init /\ [][Next]_vars /\ Fairness

-----------------------------------------------------------------------------
(* Properties.                                                              *)

\* The panels this campaign is done with.
Finished ==
    IF Active \/ state = "DONE"
    THEN {FlashOrder(i) : i \in 0 .. panelIdx - (IF state = "NEXT_PANEL" THEN 0 ELSE 1)}
    ELSE {}

\* A panel the campaign has moved on from holds the whole image, every chunk of it,
\* whatever was lost, repeated, damaged or answered late on the way (PanelFlasher has
\* no read-back: the chunk CRCs and the addresses in the answers must be enough).
FinishedHoldImage == \A p \in Finished : \A a \in Address : flash[p][a] = image

\* A panel is left with a half-written application only by an update that was cut short:
\* by the last attempt of a chunk, a restart or a stall.  At most one panel each.
SoundUnlessCut ==
    /\ \A p \in Panels : Sound(p) \/ p \in cut \/ (state = "FLASHING" /\ p = Target)
    /\ Cardinality(cut) <= campaigns

\* The panels this campaign has not come to.
Untouched == IF Active THEN {FlashOrder(i) : i \in panelIdx + 1 .. Len(listed) - 1} ELSE {}

\* PanelFlasher's order: a controller that restarts in the middle of a campaign finds
\* every panel the campaign had not come to, if no campaign before it was cut short or
\* has a frame for one of them still in flight.
UntouchedSurviveRestart ==
    [][Restart /\ cut = {} /\ (\A i \in DOMAIN down : down[i].panel \notin Untouched)
        => Untouched \subseteq {listed'[i] : i \in DOMAIN listed'}]_vars

\* run() always leaves the campaign, in DONE or ERROR.
CampaignEnds == Active ~> ~Active

\* With fewer faults than attempts, a first campaign updates every panel: no loss,
\* damage or delay after ENTER_BOOTLOADER costs more than the retries of writeChunk()
\* and of WAIT_BL restore, START_APP's loss included, though nothing repeats it.
CampaignSucceeds == Active /\ campaigns = 1 ~> state = "DONE" \/ ~faults.mild

=============================================================================
