------------------------------ MODULE Ota_proofs ------------------------------
(***************************************************************************)
(* Theorems about Ota, for every tree of panels, length of image, set of   *)
(* images, number of attempts, of campaigns and of faults: a panel that a  *)
(* campaign has moved on from holds the whole image (FinishedHold), only   *)
(* an update that was cut short leaves a panel half written (SoundUnless), *)
(* and a restart finds the panels a campaign had not come to               *)
(* (UntouchedSurvive).                                                     *)
(***************************************************************************)
EXTENDS Ota, FiniteSetTheorems, TLAPS

Data == Images \cup {Old, Blank, Torn}
States == {"IDLE", "ENTER_BL", "WAIT_BL", "FLASHING", "NEXT_PANEL", "DONE", "ERROR"}
Requests == [type : {"ENTER", "PING", "CHUNK", "START"}, panel : Panels, addr : Address,
             data : Data, ok : BOOLEAN]
Answers  == [type : {"PONG", "ACK"}, panel : Panels, addr : Address, data : Data, ok : BOOLEAN]

FlasherType ==
    /\ state \in States /\ panelIdx \in Nat /\ image \in Images
    /\ listed \in Seq(Panels) /\ InDiscoveryOrder(listed)
    /\ currentPage \in 0 .. Pages /\ chunk \in Chunk /\ tries \in Nat /\ awaiting \in BOOLEAN
    /\ Active => panelIdx < Len(listed)
    /\ state = "DONE" => panelIdx = Len(listed)
    /\ state = "FLASHING" => currentPage < Pages
    /\ awaiting => state \in {"WAIT_BL", "FLASHING"}
WireType == down \in Seq(Requests) /\ up \in Seq(Answers)
PanelType ==
    /\ mode \in [Panels -> {"app", "boot"}] /\ joined \in [Panels -> BOOLEAN]
    /\ flash \in [Panels -> [Address -> Data]]
    /\ pageStart \in [Panels -> 0 .. Pages] /\ pageBuf \in [Panels -> [Chunk -> Data]]
    /\ pageDirty \in [Panels -> BOOLEAN] /\ idleTicks \in [Panels -> Nat]
    /\ \A p \in Panels : mode[p] = "boot" => ~joined[p]
TypeInv ==
    /\ FlasherType /\ WireType /\ PanelType
    /\ campaigns \in Nat /\ faults \in [count : Nat, mild : BOOLEAN] /\ cut \in SUBSET Panels

-----------------------------------------------------------------------------
(* The session with one panel: from its first connect, which starts on      *)
(* quiet wires, to the answer to its last chunk.                            *)

Session == state = "FLASHING" \/ (state = "WAIT_BL" /\ (awaiting \/ tries > 0))

\* Chunks in the order they are written.
At(a) == 2 * a[1] + a[2]
Now   == 2 * currentPage + chunk
Last  == <<Pages - 1, 1>>
\* The last chunk the bootloader of p took.
Reached(p) == 2 * pageStart[p] + (IF pageDirty[p] THEN 0 ELSE 1)

\* What is on its way to a panel was sent in the session, chunks in order.
SessionDown ==
    /\ \A i \in DOMAIN down :
          /\ down[i].panel = Target
          /\ \/ down[i].type = "PING"
             \/ /\ down[i].type = "CHUNK" /\ state = "FLASHING"
                /\ down[i].data = image /\ At(down[i].addr) <= Now
    /\ \A i, j \in DOMAIN down :
          i < j /\ down[i].type = "CHUNK" /\ down[j].type = "CHUNK"
            => At(down[i].addr) <= At(down[j].addr)

Accepted(f) == f.type = "ACK" /\ f.ok

\* The panel was found in its bootloader.
Waits ==
    /\ \A i \in DOMAIN up : up[i].type = "PONG"
    /\ up # <<>> => mode[Target] = "boot"

\* It has taken no chunk yet.
Fresh == mode[Target] = "boot" /\ Now = 0 /\ \A i \in DOMAIN up : ~Accepted(up[i])

\* It has all chunks up to the last one it took, which is the one being sent or the one
\* before; what it was sent since is no older, what it has answered is no younger.
Going ==
    /\ mode[Target] = "boot" /\ pageStart[Target] < Pages
    /\ Now - 1 <= Reached(Target) /\ Reached(Target) <= Now
    /\ pageBuf[Target][0] = image /\ (~pageDirty[Target] => pageBuf[Target][1] = image)
    /\ \A a \in Address : a[1] < pageStart[Target] \/ (a[1] = pageStart[Target] /\ ~pageDirty[Target])
          => flash[Target][a] = image
    /\ \A i \in DOMAIN down : down[i].type = "CHUNK" => Reached(Target) <= At(down[i].addr)
    /\ \A i \in DOMAIN up : Accepted(up[i]) => At(up[i].addr) <= Reached(Target)

\* It has given up: no chunk is answered any more.
Stalled == mode[Target] = "app" /\ \A i \in DOMAIN up : ~Accepted(up[i])

SessionInv ==
    Session =>
        /\ SessionDown
        /\ state = "WAIT_BL" => Waits
        /\ state = "FLASHING" => ~joined[Target] /\ (Fresh \/ Going \/ Stalled)

-----------------------------------------------------------------------------
(* Between sessions.                                                        *)

\* A chunk that comes again after the panel was done changes nothing.
Repeats(f) ==
    LET p == f.panel IN
    /\ f.addr = Last /\ ~joined[p] /\ ~pageDirty[p]
    /\ \A a \in Address : flash[p][a] = f.data
    /\ mode[p] = "boot" => pageStart[p] = Pages - 1 /\ pageBuf[p] = [c \in Chunk |-> f.data]

LeftOver ==
    ~Session => \A i \in DOMAIN down :
        down[i].type = "CHUNK" =>
            Repeats(down[i]) \/ (down[i].panel \in cut /\ down[i].panel \notin Finished)

\* A panel that is done has nothing left to commit.
Settled == \A p \in Finished : ~pageDirty[p]

UnderWay(p) == p \in cut \/ (state = "FLASHING" /\ p = Target)
SoundInv == \A p \in Panels : UnderWay(p) \/ (Sound(p) /\ ~pageDirty[p])

\* A campaign cuts short one update at most, and is then over or about to be.
CutInv ==
    \/ Cardinality(cut) < campaigns
    \/ /\ Cardinality(cut) <= campaigns
       /\ \/ /\ state \in {"IDLE", "ERROR"}
             /\ \A i \in DOMAIN down : down[i].type = "CHUNK" => down[i].panel \in cut
          \/ state = "FLASHING" /\ Stalled /\ Target \in cut

OtaInv ==
    TypeInv /\ SessionInv /\ LeftOver /\ Settled /\ FinishedHoldImage /\ SoundInv /\ CutInv

-----------------------------------------------------------------------------
(* Wires and addresses.                                                     *)

\* The oldest frame and the rest.
LEMMA Oldest ==
    ASSUME NEW S, NEW s \in Seq(S), s # <<>>
    PROVE  /\ Head(s) \in S /\ Head(s) = s[1] /\ 1 \in DOMAIN s
           /\ Tail(s) \in Seq(S) /\ DOMAIN Tail(s) = 1 .. Len(s) - 1
           /\ \A i \in DOMAIN Tail(s) : i + 1 \in DOMAIN s /\ Tail(s)[i] = s[i + 1]
  OBVIOUS

LEMMA Sent ==
    ASSUME NEW S, NEW s \in Seq(S), NEW x \in S
    PROVE  /\ Append(s, x) \in Seq(S) /\ DOMAIN Append(s, x) = 1 .. Len(s) + 1
           /\ Append(s, x)[Len(s) + 1] = x /\ DOMAIN s = 1 .. Len(s) /\ Len(s) \in Nat
           /\ \A i \in DOMAIN s : Append(s, x)[i] = s[i]
  OBVIOUS

\* flushStrayBytes() drops the oldest answers.
LEMMA Flushed ==
    ASSUME NEW S, NEW s \in Seq(S), NEW k \in 0 .. Len(s)
    PROVE  LET t == SubSeq(s, k + 1, Len(s)) IN
           /\ t \in Seq(S) /\ DOMAIN t = 1 .. Len(s) - k
           /\ \A i \in DOMAIN t : i + k \in DOMAIN s /\ t[i] = s[i + k]
<1> DEFINE t == SubSeq(s, k + 1, Len(s))
<1>1. Len(s) \in Nat /\ DOMAIN s = 1 .. Len(s)
  OBVIOUS
<1>2. t = [i \in 1 .. Len(s) - k |-> s[i + k]]
  BY <1>1
<1>3. \A i \in 1 .. Len(s) - k : i + k \in DOMAIN s
  BY <1>1
<1>4. \A i \in 1 .. Len(s) - k : s[i + k] \in S
  BY <1>3
<1>5. t \in Seq(S) /\ DOMAIN t = 1 .. Len(s) - k
  BY <1>1, <1>2, <1>4
<1> QED
  BY <1>2, <1>3, <1>5

LEMMA Addresses ==
    ASSUME NEW a \in Address
    PROVE  /\ a[1] \in 0 .. Pages - 1 /\ a[2] \in {0, 1} /\ a = <<a[1], a[2]>>
           /\ At(a) \in Nat /\ At(a) <= 2 * Pages - 1
           /\ At(a) = 2 * Pages - 1 => a = Last
<1>1. a[1] \in 0 .. Pages - 1 /\ a[2] \in {0, 1} /\ a = <<a[1], a[2]>>
  BY DEF Address, Page, Chunk
<1>2. Pages \in Nat \ {0}
  BY ImagesAssumption
<1>3. At(a) = 2 * a[1] + a[2]
  BY DEF At
<1>4. At(a) \in Nat /\ At(a) <= 2 * Pages - 1
  BY <1>1, <1>2, <1>3
<1>5. At(a) = 2 * Pages - 1 => a[1] = Pages - 1 /\ a[2] = 1
  BY <1>1, <1>2, <1>3
<1> QED
  BY <1>1, <1>4, <1>5 DEF Last

\* The addresses that are sent.
LEMMA Addressed ==
    /\ Pages \in Nat \ {0} /\ NoAddr \in Address /\ Last \in Address
    /\ \A pg \in 0 .. Pages : \A c \in Chunk : pg < Pages => <<pg, c>> \in Address
<1>1. Pages \in Nat \ {0}
  BY ImagesAssumption
<1>2. 0 \in Page /\ Pages - 1 \in Page /\ 0 \in Chunk /\ 1 \in Chunk
  BY <1>1 DEF Page, Chunk
<1>3. \A pg \in 0 .. Pages : pg < Pages => pg \in Page
  BY <1>1 DEF Page
<1> QED
  BY <1>1, <1>2, <1>3 DEF NoAddr, Last, Address

LEMMA Framed ==
    ASSUME NEW type \in {"ENTER", "PING", "CHUNK", "START"}, NEW p \in Panels, NEW a \in Address,
           NEW data \in Data
    PROVE  Frame(type, p, a, data) \in Requests
  BY DEF Frame, Requests

\* Panels are flashed from the back of the list, each at most once.
LEMMA Ordered ==
    ASSUME FlasherType, NEW i \in Nat, i < Len(listed)
    PROVE  /\ FlashOrder(i) \in Panels /\ Len(listed) - i \in DOMAIN listed
           /\ \A j \in Nat : j < i => FlashOrder(j) # FlashOrder(i)
<1>1. Len(listed) \in Nat /\ DOMAIN listed = 1 .. Len(listed) /\ Len(listed) - i \in DOMAIN listed
  BY DEF FlasherType
<1> DEFINE k == Len(listed) - i
<1>4. k \in DOMAIN listed /\ listed \in Seq(Panels)
  BY <1>1 DEF FlasherType
<1>5. listed[k] \in Panels
  <2> HIDE DEF k
  <2> QED
    BY <1>4
<1>2. FlashOrder(i) \in Panels
  BY <1>5 DEF FlashOrder
<1>3. ASSUME NEW j \in Nat, j < i PROVE FlashOrder(j) # FlashOrder(i)
  <2>1. Len(listed) - j \in DOMAIN listed /\ Len(listed) - i < Len(listed) - j
    BY <1>1, <1>3
  <2>2. listed[Len(listed) - i] < listed[Len(listed) - j]
    BY <1>1, <2>1 DEF FlasherType, InDiscoveryOrder
  <2>3. listed[Len(listed) - i] \in Int
    BY <1>5, TreeAssumption DEF Panels
  <2> QED
    BY <2>2, <2>3 DEF FlashOrder
<1> QED
  BY <1>1, <1>2, <1>3

\* The panel a campaign is at is none it is done with.
LEMMA AtTarget ==
    ASSUME FlasherType, Active
    PROVE  /\ Target \in Panels /\ Len(listed) > 0
           /\ state # "NEXT_PANEL" => Target \notin Finished
           /\ state = "NEXT_PANEL" => Target \in Finished
<1>1. panelIdx \in Nat /\ panelIdx < Len(listed) /\ Len(listed) \in Nat
  BY DEF FlasherType
<1>2. /\ FlashOrder(panelIdx) \in Panels
      /\ \A j \in Nat : j < panelIdx => FlashOrder(j) # FlashOrder(panelIdx)
  BY <1>1, Ordered
<1>3. CASE state # "NEXT_PANEL"
  <2>1. Finished = {FlashOrder(i) : i \in 0 .. panelIdx - 1}
    BY <1>3 DEF Finished
  <2> QED
    BY <1>1, <1>2, <1>3, <2>1 DEF Target
<1>4. CASE state = "NEXT_PANEL"
  <2>1. Finished = {FlashOrder(i) : i \in 0 .. panelIdx - 0}
    BY <1>4 DEF Finished
  <2>2. panelIdx \in 0 .. panelIdx - 0
    BY <1>1
  <2> QED
    BY <1>1, <1>2, <1>4, <2>1, <2>2 DEF Target
<1> QED
  BY <1>3, <1>4

LEMMA FinishedPanels ==
    ASSUME FlasherType
    PROVE  Finished \in SUBSET Panels
<1>1. CASE Active \/ state = "DONE"
  <2> DEFINE n == IF state = "NEXT_PANEL" THEN 0 ELSE 1
  <2>1. panelIdx \in Nat /\ Len(listed) \in Nat /\ panelIdx <= Len(listed)
        /\ (state = "NEXT_PANEL" => panelIdx < Len(listed))
    BY <1>1 DEF FlasherType, Active
  <2>2. \A i \in 0 .. panelIdx - n : i \in Nat /\ i < Len(listed)
    BY <2>1
  <2>3. Finished = {FlashOrder(i) : i \in 0 .. panelIdx - n}
    BY <1>1 DEF Finished
  <2> HIDE DEF n
  <2> QED
    BY <2>2, <2>3, Ordered
<1>2. CASE ~(Active \/ state = "DONE")
  BY <1>2 DEF Finished
<1> QED
  BY <1>1, <1>2

-----------------------------------------------------------------------------
(* What the panels' handlers do to a panel.                                 *)

LEMMA Commits ==
    ASSUME PanelType, NEW p \in Panels
    PROVE  /\ Committed(p) \in [Address -> Data]
           /\ \A a \in Address : ~pageDirty[p] => Committed(p)[a] = flash[p][a]
<1>1. ASSUME NEW a \in Address PROVE pageBuf[p][a[2]] \in Data /\ flash[p][a] \in Data
  BY Addresses DEF PanelType, Chunk
<1> QED
  BY <1>1 DEF Committed

\* A panel that boots its application: nothing but that panel changes, and its flash only
\* if a page was not committed yet.
LEMMA Leaves ==
    ASSUME PanelType, NEW p \in Panels, LeavesBootloader(p)
    PROVE  /\ PanelType' /\ mode'[p] = "app" /\ ~pageDirty'[p]
           /\ ~pageDirty[p] => flash'[p] = flash[p]
           /\ \A q \in Panels \ {p} : /\ mode'[q] = mode[q] /\ flash'[q] = flash[q]
                                      /\ pageDirty'[q] = pageDirty[q]
           /\ UNCHANGED <<joined, pageStart, pageBuf>>
<1>1. Committed(p) \in [Address -> Data]
  BY Commits
<1>2. PanelType'
  BY <1>1 DEF PanelType, LeavesBootloader
<1>3. ASSUME ~pageDirty[p] PROVE Committed(p) = flash[p]
  <2>1. flash[p] \in [Address -> Data]
    BY DEF PanelType
  <2> QED
    BY <1>1, <1>3, <2>1, Commits
<1>4. flash'[p] = Committed(p) /\ mode'[p] = "app" /\ pageDirty'[p] = FALSE
  BY DEF PanelType, LeavesBootloader
<1>5. \A q \in Panels \ {p} : /\ mode'[q] = mode[q] /\ flash'[q] = flash[q]
                              /\ pageDirty'[q] = pageDirty[q]
  BY DEF PanelType, LeavesBootloader
<1> QED
  BY <1>2, <1>3, <1>4, <1>5 DEF LeavesBootloader

LEMMA Enters ==
    ASSUME PanelType, NEW p \in Panels, EntersBootloader(p), UNCHANGED flash
    PROVE  /\ PanelType' /\ ~pageDirty'[p]
           /\ \A q \in Panels \ {p} :
                 /\ mode'[q] = mode[q] /\ pageDirty'[q] = pageDirty[q] /\ joined'[q] = joined[q]
                 /\ pageStart'[q] = pageStart[q] /\ pageBuf'[q] = pageBuf[q]
<1>1. Pages \in 0 .. Pages /\ BlankPage \in [Chunk -> Data]
  BY ImagesAssumption DEF BlankPage, Data
<1>2. pageStart' \in [Panels -> 0 .. Pages] /\ pageBuf' \in [Panels -> [Chunk -> Data]]
  BY <1>1 DEF PanelType, EntersBootloader, NoPage
<1> QED
  BY <1>2 DEF PanelType, EntersBootloader

\* A chunk that is written: what it does to the page buffer and to the flash.
LEMMA Writes ==
    ASSUME PanelType, NEW p \in Panels, NEW f \in Requests, WritesChunk(p, f),
           UNCHANGED <<mode, joined>>, idleTicks' \in [Panels -> Nat]
    PROVE  LET page == f.addr[1]  c == f.addr[2] IN
           /\ PanelType'
           /\ pageStart'[p] = page /\ pageDirty'[p] = (c # 1) /\ pageBuf'[p][c] = f.data
           /\ \A d \in Chunk : d # c /\ pageStart[p] = page => pageBuf'[p][d] = pageBuf[p][d]
           /\ \A a \in Address : c = 1 /\ a[1] = page => flash'[p][a] = pageBuf'[p][a[2]]
           /\ \A a \in Address : ~(c = 1 /\ a[1] = page) /\ (pageStart[p] = page \/ ~pageDirty[p]
                                                              \/ a[1] # pageStart[p])
                 => flash'[p][a] = flash[p][a]
           /\ \A q \in Panels \ {p} :
                 /\ flash'[q] = flash[q] /\ pageDirty'[q] = pageDirty[q]
                 /\ pageStart'[q] = pageStart[q] /\ pageBuf'[q] = pageBuf[q]
<1> DEFINE page == f.addr[1]
           c == f.addr[2]
           buf == [LoadPage(p, page) EXCEPT ![c] = f.data]
           loaded == FlashAfterLoad(p, page)
           written == [a \in Address |-> IF c = 1 /\ a[1] = page THEN buf[a[2]] ELSE loaded[a]]
<1>1. f.addr \in Address /\ f.data \in Data /\ page \in 0 .. Pages - 1 /\ c \in Chunk
  BY Addresses DEF Requests, Chunk
<1>2. BlankPage \in [Chunk -> Data] /\ pageBuf[p] \in [Chunk -> Data]
  BY DEF BlankPage, Data, PanelType
<1>3. LoadPage(p, page) \in [Chunk -> Data]
  BY <1>2 DEF LoadPage
<1>4. /\ buf \in [Chunk -> Data] /\ buf[c] = f.data
      /\ \A d \in Chunk : d # c => buf[d] = LoadPage(p, page)[d]
  BY <1>1, <1>3
<1>5. loaded \in [Address -> Data]
  BY Commits DEF FlashAfterLoad, PanelType
<1>6. ASSUME NEW a \in Address PROVE buf[a[2]] \in Data /\ loaded[a] \in Data
  BY <1>4, <1>5, Addresses DEF Chunk
<1>7. written \in [Address -> Data]
  BY <1>6
<1>8. /\ pageStart' = [pageStart EXCEPT ![p] = page] /\ pageBuf' = [pageBuf EXCEPT ![p] = buf]
      /\ pageDirty' = [pageDirty EXCEPT ![p] = c # 1] /\ flash' = [flash EXCEPT ![p] = written]
  BY DEF WritesChunk
<1>9. ASSUME NEW a \in Address, pageStart[p] = page \/ ~pageDirty[p] \/ a[1] # pageStart[p]
      PROVE  loaded[a] = flash[p][a]
  BY <1>9 DEF FlashAfterLoad, Committed
<1>10. page \in 0 .. Pages
  BY <1>1, ImagesAssumption
<1> HIDE DEF page, c, buf, loaded, written
<1>11. PanelType'
  <2>1. pageDirty' \in [Panels -> BOOLEAN]
    <3>1. (c # 1) \in BOOLEAN
      OBVIOUS
    <3> QED
      BY <1>8, <3>1 DEF PanelType
  <2> QED
    BY <1>4, <1>7, <1>8, <1>10, <2>1 DEF PanelType
<1>12. pageStart'[p] = page /\ pageDirty'[p] = (c # 1) /\ pageBuf'[p] = buf /\ flash'[p] = written
  BY <1>8 DEF PanelType
<1>13. \A a \in Address : written[a] = IF c = 1 /\ a[1] = page THEN buf[a[2]] ELSE loaded[a]
  BY DEF written
<1>14. \A d \in Chunk : d # c /\ pageStart[p] = page => buf[d] = pageBuf[p][d]
  BY <1>4 DEF LoadPage
<1>15. \A q \in Panels \ {p} :
          /\ flash'[q] = flash[q] /\ pageDirty'[q] = pageDirty[q]
          /\ pageStart'[q] = pageStart[q] /\ pageBuf'[q] = pageBuf[q]
  BY <1>8 DEF PanelType
<1>16. \A a \in Address : c = 1 /\ a[1] = page => flash'[p][a] = pageBuf'[p][a[2]]
  BY <1>12, <1>13
<1>17. \A a \in Address : ~(c = 1 /\ a[1] = page) /\ (pageStart[p] = page \/ ~pageDirty[p]
                                                       \/ a[1] # pageStart[p])
          => flash'[p][a] = flash[p][a]
  BY <1>9, <1>12, <1>13
<1> QED
  BY <1>4, <1>11, <1>12, <1>14, <1>15, <1>16, <1>17 DEF page, c

-----------------------------------------------------------------------------
(* Every action keeps the types.                                            *)

\* What faults or a receiver leave of the frames on a wire: none is new, their order is as
\* it was, and none is undamaged that was not.
Fewer(t, s) ==
    \E k \in Nat : \A i \in DOMAIN t :
        /\ i + k \in DOMAIN s
        /\ t[i].type = s[i + k].type /\ t[i].panel = s[i + k].panel
        /\ t[i].addr = s[i + k].addr /\ t[i].data = s[i + k].data
        /\ t[i].ok => s[i + k].ok

LEMMA Kept == ASSUME NEW S, NEW s \in Seq(S) PROVE Fewer(s, s)
<1>1. \A i \in DOMAIN s : i + 0 = i
  OBVIOUS
<1> QED
  BY <1>1 DEF Fewer

LEMMA Shorter == ASSUME NEW S, NEW s \in Seq(S), s # <<>> PROVE Fewer(Tail(s), s)
  BY Oldest DEF Fewer

\* flushStrayBytes() and the frame: what is on the wires then.
LEMMA Requested ==
    ASSUME WireType, NEW f \in Requests, Request(f)
    PROVE  /\ WireType' /\ (down' = down \/ down' = Append(down, f))
           /\ Fewer(up', up)
<1>1. down' = down \/ down' = Append(down, f)
  BY DEF Request
<1>2. down' \in Seq(Requests)
  BY <1>1 DEF WireType
<1>3. PICK k \in 0 .. Len(up) : up' = SubSeq(up, k + 1, Len(up))
  BY DEF Request
<1>4. /\ up' \in Seq(Answers) /\ k \in Nat
      /\ \A i \in DOMAIN up' : i + k \in DOMAIN up /\ up'[i] = up[i + k]
  BY <1>3, Flushed DEF WireType
<1>5. Fewer(up', up)
  BY <1>4 DEF Fewer
<1> QED
  BY <1>1, <1>2, <1>4, <1>5 DEF WireType

LEMMA Happened == ASSUME NEW kind, Happens(kind), faults \in [count : Nat, mild : BOOLEAN]
                  PROVE  faults' \in [count : Nat, mild : BOOLEAN]
<1>1. (faults.mild /\ kind \in Mild) \in BOOLEAN /\ faults.count + 1 \in Nat
  OBVIOUS
<1> QED
  BY <1>1 DEF Happens

LEMMA StartFlashingType == TypeInv /\ StartFlashing => TypeInv'
<1> SUFFICES ASSUME TypeInv, StartFlashing PROVE TypeInv'
  OBVIOUS
<1>1. Len(listed) \in Nat /\ (listed # <<>> => 0 < Len(listed))
  BY DEF TypeInv, FlasherType
<1>2. state' \in States /\ (Active' => listed # <<>>) /\ state' # "DONE" /\ state' # "FLASHING"
  BY DEF StartFlashing, Active, States
<1>3. FlasherType'
  BY <1>1, <1>2 DEF TypeInv, FlasherType, StartFlashing, Active, InDiscoveryOrder
<1> QED
  BY <1>3 DEF TypeInv, WireType, PanelType, StartFlashing, panelVars, bootVars

LEMMA EnterBootloaderType == TypeInv /\ EnterBootloader => TypeInv'
<1> SUFFICES ASSUME TypeInv, EnterBootloader PROVE TypeInv'
  OBVIOUS
<1>1. Active /\ FlasherType
  BY DEF EnterBootloader, Active, TypeInv
<1>2. Frame("ENTER", Target, NoAddr, Old) \in Requests
  BY <1>1, AtTarget, Addressed, Framed DEF Data
<1>3. WireType'
  BY <1>2, Requested DEF EnterBootloader, TypeInv
<1>4. FlasherType'
  BY DEF TypeInv, FlasherType, EnterBootloader, Active, States, InDiscoveryOrder
<1> QED
  BY <1>3, <1>4 DEF TypeInv, PanelType, EnterBootloader, panelVars, bootVars

LEMMA ConnectType == TypeInv /\ Connect => TypeInv'
<1> SUFFICES ASSUME TypeInv, Connect PROVE TypeInv'
  OBVIOUS
<1>1. Active /\ FlasherType
  BY DEF Connect, Active, TypeInv
<1>2. Frame("PING", Target, NoAddr, Old) \in Requests
  BY <1>1, AtTarget, Addressed, Framed DEF Data
<1>3. WireType'
  BY <1>2, Requested DEF Connect, TypeInv
<1>4. FlasherType'
  BY DEF TypeInv, FlasherType, Connect, Active, InDiscoveryOrder
<1> QED
  BY <1>3, <1>4 DEF TypeInv, PanelType, Connect, panelVars, bootVars

LEMMA SendChunkType == TypeInv /\ SendChunk => TypeInv'
<1> SUFFICES ASSUME TypeInv, SendChunk PROVE TypeInv'
  OBVIOUS
<1>1. Active /\ FlasherType
  BY DEF SendChunk, Active, TypeInv
<1>2. <<currentPage, chunk>> \in Address /\ image \in Data
  BY Addressed DEF SendChunk, TypeInv, FlasherType, Data
<1>3. Frame("CHUNK", Target, <<currentPage, chunk>>, image) \in Requests
  BY <1>1, <1>2, AtTarget, Framed
<1>4. WireType'
  BY <1>3, Requested DEF SendChunk, TypeInv
<1>5. FlasherType'
  BY DEF TypeInv, FlasherType, SendChunk, Active, InDiscoveryOrder
<1> QED
  BY <1>4, <1>5 DEF TypeInv, PanelType, SendChunk, panelVars, bootVars

LEMMA AttemptFailsType ==
    ASSUME TypeInv, state \in {"WAIT_BL", "FLASHING"}, AttemptFails, awaiting' = FALSE,
           UNCHANGED <<listed, panelIdx, image, currentPage, chunk>>
    PROVE  FlasherType' /\ cut' \in SUBSET Panels
<1>1. Active /\ FlasherType
  BY DEF Active, TypeInv
<1>2. cut' \in SUBSET Panels
  BY <1>1, AtTarget DEF AttemptFails, TypeInv
<1>3. state' \in States /\ (state' = state \/ state' = "ERROR")
  BY DEF AttemptFails, TypeInv, FlasherType, States
<1>4. tries' \in Nat /\ panelIdx < Len(listed) /\ (state = "FLASHING" => currentPage < Pages)
  BY <1>1 DEF FlasherType, AttemptFails
<1>5. state' # "DONE"
  BY <1>3
<1>6. InDiscoveryOrder(listed)' /\ listed' \in Seq(Panels)
  BY <1>1 DEF FlasherType, InDiscoveryOrder
<1>7. FlasherType'
  BY <1>1, <1>3, <1>4, <1>5, <1>6 DEF FlasherType
<1> QED
  BY <1>2, <1>7

LEMMA ChunkWrittenType ==
    ASSUME TypeInv, state = "FLASHING", ChunkWritten, awaiting' = FALSE,
           UNCHANGED <<listed, panelIdx, image>>
    PROVE  FlasherType' /\ down' \in Seq(Requests)
<1>1. Active /\ FlasherType /\ Target \in Panels
  BY AtTarget DEF Active, TypeInv
<1>2. currentPage \in 0 .. Pages /\ currentPage < Pages /\ chunk \in {0, 1} /\ Pages \in Nat \ {0}
  BY Addressed DEF TypeInv, FlasherType, Chunk
<1>3. CASE LastChunk
  <2>1. Frame("START", Target, NoAddr, Old) \in Requests
    BY <1>1, Addressed, Framed DEF Data
  <2>2. down' \in Seq(Requests)
    <3>1. down' = down \/ down' = Append(down, Frame("START", Target, NoAddr, Old))
      BY <1>3 DEF ChunkWritten
    <3> QED
      BY <2>1, <3>1, Sent, SMTT(30) DEF TypeInv, WireType
  <2>3. currentPage' \in 0 .. Pages /\ state' = "NEXT_PANEL" /\ chunk' \in Chunk
    BY <1>2, <1>3 DEF ChunkWritten, Chunk
  <2>4. FlasherType'
    BY <1>1, <1>3, <2>3 DEF FlasherType, ChunkWritten, Active, States, InDiscoveryOrder
  <2> QED
    BY <2>2, <2>4
<1>4. CASE ~LastChunk
  <2>1. currentPage' = currentPage + chunk /\ chunk' = 1 - chunk
    BY <1>4 DEF ChunkWritten
  <2>2. currentPage' \in 0 .. Pages /\ currentPage' < Pages /\ chunk' \in {0, 1}
    BY <1>2, <1>4, <2>1 DEF LastChunk
  <2>3. state' = "FLASHING" /\ tries' = 0 /\ panelIdx < Len(listed)
    BY <1>1, <1>4 DEF ChunkWritten, FlasherType
  <2>4. InDiscoveryOrder(listed)' /\ listed' \in Seq(Panels)
    BY <1>1 DEF FlasherType, InDiscoveryOrder
  <2>5. chunk' \in Chunk
    BY <2>2 DEF Chunk
  <2>6. FlasherType'
    BY <1>1, <2>2, <2>3, <2>4, <2>5 DEF FlasherType, States
  <2> QED
    BY <1>4, <2>6 DEF ChunkWritten, TypeInv, WireType
<1> QED
  BY <1>3, <1>4

LEMMA ReceiveType == TypeInv /\ Receive => TypeInv'
<1> SUFFICES ASSUME TypeInv, Receive PROVE TypeInv'
  OBVIOUS
<1>1. up' \in Seq(Answers)
  BY Oldest DEF Receive, TypeInv, WireType
<1>2. FlasherType' /\ down' \in Seq(Requests) /\ cut' \in SUBSET Panels
  <2>1. CASE UNCHANGED <<state, currentPage, chunk, tries, awaiting, down, cut>>
    BY <2>1 DEF Receive, TypeInv, FlasherType, WireType, Active, InDiscoveryOrder
  <2>2. CASE state = "WAIT_BL" /\ awaiting' = FALSE /\ Connected
    <3>1. 0 \in 0 .. Pages /\ 0 \in Chunk /\ 0 < Pages
      BY Addressed DEF Chunk
    <3> QED
      BY <2>2, <3>1 DEF Receive, Connected, TypeInv, FlasherType, WireType, Active, States,
                        InDiscoveryOrder
  <2>3. CASE /\ state \in {"WAIT_BL", "FLASHING"} /\ awaiting' = FALSE
             /\ AttemptFails /\ UNCHANGED <<currentPage, chunk, down>>
    BY <2>3, AttemptFailsType DEF Receive, TypeInv, WireType
  <2>4. CASE state = "FLASHING" /\ awaiting' = FALSE /\ ChunkWritten
    BY <2>4, ChunkWrittenType DEF Receive, ChunkWritten, TypeInv
  <2> QED
    BY <2>1, <2>2, <2>3, <2>4 DEF Receive
<1> QED
  BY <1>1, <1>2 DEF Receive, TypeInv, WireType, PanelType, panelVars, bootVars

LEMMA ReplyTimeoutType == TypeInv /\ ReplyTimeout => TypeInv'
<1> SUFFICES ASSUME TypeInv, ReplyTimeout PROVE TypeInv'
  OBVIOUS
<1>1. FlasherType' /\ cut' \in SUBSET Panels
  BY AttemptFailsType DEF ReplyTimeout, TypeInv, FlasherType
<1>2. faults' \in [count : Nat, mild : BOOLEAN]
  BY Happened DEF ReplyTimeout, TypeInv
<1> QED
  BY <1>1, <1>2 DEF ReplyTimeout, TypeInv, WireType, PanelType, panelVars, bootVars

LEMMA NextPanelType == TypeInv /\ NextPanel => TypeInv'
<1> SUFFICES ASSUME TypeInv, NextPanel PROVE TypeInv'
  OBVIOUS
<1>1. panelIdx < Len(listed) /\ panelIdx \in Nat /\ Len(listed) \in Nat
  BY DEF NextPanel, TypeInv, FlasherType, Active
<1>2. /\ state' \in {"DONE", "ENTER_BL"} /\ panelIdx' \in Nat
      /\ state' = "ENTER_BL" => panelIdx' < Len(listed)
      /\ state' = "DONE" => panelIdx' = Len(listed)
  BY <1>1 DEF NextPanel
<1>3. FlasherType'
  BY <1>2 DEF NextPanel, TypeInv, FlasherType, Active, States, InDiscoveryOrder
<1> QED
  BY <1>3 DEF NextPanel, TypeInv, WireType, PanelType, panelVars, bootVars

\* Whatever a panel answers.
LEMMA Answered ==
    ASSUME WireType, NEW type \in {"PONG", "ACK"}, NEW p \in Panels, NEW f \in Requests,
           NEW ok \in BOOLEAN, Answer(type, p, f, ok)
    PROVE  /\ up' \in Seq(Answers)
           /\ \A i \in DOMAIN up' :
                 \/ i \in DOMAIN up /\ up'[i] = up[i]
                 \/ up'[i].type = type /\ up'[i].ok = ok /\ up'[i].addr = f.addr
<1> DEFINE a == [Frame(type, p, f.addr, Old) EXCEPT !.ok = ok]
<1>1. a = [type |-> type, panel |-> p, addr |-> f.addr, data |-> Old, ok |-> ok]
  BY DEF Frame
<1>2. a \in Answers
  BY <1>1 DEF Requests, Answers, Data
<1>3. up' = up \/ up' = Append(up, a)
  BY DEF Answer
<1>4. up \in Seq(Answers)
  BY DEF WireType
<1> HIDE DEF a
<1>5. ASSUME up' = Append(up, a), NEW i \in DOMAIN up'
      PROVE  (i \in DOMAIN up /\ up'[i] = up[i]) \/ up'[i] = a
  BY <1>2, <1>4, <1>5, Sent
<1>6. \A i \in DOMAIN up' : (i \in DOMAIN up /\ up'[i] = up[i]) \/ up'[i] = a
  BY <1>3, <1>5
<1>7. up' \in Seq(Answers)
  BY <1>2, <1>3, <1>4, Sent
<1> QED
  BY <1>1, <1>6, <1>7

\* The idle count is none of the other fields' business.
LEMMA Counts ==
    ASSUME PanelType, NEW p \in Panels, NEW n \in Nat, idleTicks' = [idleTicks EXCEPT ![p] = n],
           UNCHANGED <<mode, joined, flash, pageStart, pageBuf, pageDirty>>
    PROVE  PanelType'
  BY DEF PanelType

LEMMA PanelReceiveType == TypeInv /\ PanelReceive => TypeInv'
<1> SUFFICES ASSUME TypeInv, PanelReceive PROVE TypeInv'
  OBVIOUS
<1> DEFINE f == Head(down)
           p == f.panel
<1>1. f \in Requests /\ p \in Panels /\ down' \in Seq(Requests)
  <2>1. f \in Requests /\ down' \in Seq(Requests)
    BY Oldest DEF PanelReceive, TypeInv, WireType
  <2> QED
    BY <2>1 DEF Requests
<1>2. FlasherType'
  BY DEF PanelReceive, flasherVars, TypeInv, FlasherType, Active, InDiscoveryOrder
<1>3. AppReceives(p, f) \/ BootReceives(p, f)
  BY DEF PanelReceive
<1> HIDE DEF f, p
<1>4. PanelType /\ WireType
  BY DEF TypeInv
<1>5. PanelType' /\ up' \in Seq(Answers)
  <2>1. CASE AppReceives(p, f)
    <3>1. CASE EntersBootloader(p)
      BY <1>1, <1>4, <2>1, <3>1, Enters DEF AppReceives, WireType
    <3>2. CASE UNCHANGED <<mode, joined, bootVars>>
      BY <1>4, <2>1, <3>2 DEF AppReceives, WireType, PanelType, bootVars
    <3> QED
      BY <2>1, <3>1, <3>2 DEF AppReceives
  <2>2. CASE BootReceives(p, f) /\ f.type = "PING"
    <3>1. Answer("PONG", p, f, TRUE) /\ idleTicks' = [idleTicks EXCEPT ![p] = 0]
          /\ UNCHANGED <<mode, joined, flash, pageStart, pageBuf, pageDirty>>
      BY <2>2 DEF BootReceives
    <3> QED
      BY <1>1, <1>4, <3>1, Answered, Counts
  <2>3. CASE BootReceives(p, f) /\ f.type = "CHUNK" /\ f.ok
    <3>1. idleTicks' \in [Panels -> Nat]
      BY <1>4, <2>3 DEF BootReceives, PanelType
    <3> QED
      BY <1>1, <1>4, <2>3, <3>1, Answered, Writes DEF BootReceives
  <2>4. CASE BootReceives(p, f) /\ f.type = "CHUNK" /\ ~f.ok
    <3>1. Answer("ACK", p, f, FALSE) /\ idleTicks' = [idleTicks EXCEPT ![p] = 0]
          /\ UNCHANGED <<mode, joined, flash, pageStart, pageBuf, pageDirty>>
      BY <2>4 DEF BootReceives
    <3> QED
      BY <1>1, <1>4, <3>1, Answered, Counts
  <2>5. CASE BootReceives(p, f) /\ f.type = "START"
    BY <1>1, <1>4, <2>5, Leaves DEF BootReceives, WireType
  <2>6. CASE BootReceives(p, f) /\ f.type = "ENTER"
    <3>1. /\ up' = up /\ idleTicks' = [idleTicks EXCEPT ![p] = 0]
          /\ UNCHANGED <<mode, joined, flash, pageStart, pageBuf, pageDirty>>
      BY <2>6 DEF BootReceives
    <3> QED
      BY <1>1, <1>4, <3>1, Counts DEF WireType
  <2> QED
    BY <1>3, <2>1, <2>2, <2>3, <2>4, <2>5, <2>6 DEF BootReceives
<1> QED
  BY <1>1, <1>2, <1>5 DEF PanelReceive, TypeInv, WireType

LEMMA ClockType == ASSUME TypeInv, NEW p \in Panels, Traffic(p) \/ IdleTick(p) PROVE TypeInv'
<1>1. FlasherType' /\ WireType'
  BY DEF Traffic, IdleTick, flasherVars, TypeInv, FlasherType, WireType, Active, InDiscoveryOrder
<1>2. PanelType'
  <2>1. CASE LeavesBootloader(p)
    BY <2>1, Leaves DEF TypeInv
  <2>2. CASE ~LeavesBootloader(p)
    <3>1. PICK n \in Nat : idleTicks' = [idleTicks EXCEPT ![p] = n]
      BY <2>2 DEF Traffic, IdleTick, TypeInv, PanelType
    <3>2. UNCHANGED <<mode, joined, flash, pageStart, pageBuf, pageDirty>>
      BY <2>2 DEF Traffic, IdleTick
    <3> QED
      BY <3>1, <3>2, Counts DEF TypeInv
  <2> QED
    BY <2>1, <2>2
<1> QED
  BY <1>1, <1>2 DEF Traffic, IdleTick, TypeInv

LEMMA Damaged ==
    ASSUME NEW S, NEW s \in Seq(S), s # <<>>, NEW x \in S, x.type = s[1].type, x.panel = s[1].panel,
           x.addr = s[1].addr, x.data = s[1].data, ~x.ok
    PROVE  <<x>> \o Tail(s) \in Seq(S) /\ Fewer(<<x>> \o Tail(s), s)
<1> DEFINE t == <<x>> \o Tail(s)
<1>1. t \in Seq(S) /\ DOMAIN t = DOMAIN s /\ t[1] = x
  OBVIOUS
<1>2. \A i \in DOMAIN s : i + 0 = i /\ (i # 1 => t[i] = s[i])
  OBVIOUS
<1> HIDE DEF t
<1>3. ASSUME NEW i \in DOMAIN t
      PROVE  /\ i + 0 \in DOMAIN s
             /\ t[i].type = s[i + 0].type /\ t[i].panel = s[i + 0].panel
             /\ t[i].addr = s[i + 0].addr /\ t[i].data = s[i + 0].data
             /\ t[i].ok => s[i + 0].ok
  <2>1. i \in DOMAIN s /\ i + 0 = i
    BY <1>1, <1>2
  <2>2. CASE i = 1
    BY <1>1, <2>1, <2>2
  <2>3. CASE i # 1
    BY <1>2, <2>1, <2>3
  <2> QED
    BY <2>2, <2>3
<1>4. Fewer(t, s)
  <2>1. 0 \in Nat
    OBVIOUS
  <2> QED
    BY <1>3, <2>1 DEF Fewer
<1> QED
  BY <1>1, <1>4 DEF t

LEMMA Faulted ==
    ASSUME TypeInv, LoseRequest \/ LoseAnswer \/ Damage
    PROVE  TypeInv' /\ Fewer(down', down) /\ Fewer(up', up)
<1>1. down \in Seq(Requests) /\ up \in Seq(Answers)
  BY DEF TypeInv, WireType
<1>2. Fewer(down, down) /\ Fewer(up, up)
  BY <1>1, Kept
<1>3. ASSUME down # <<>>
      PROVE  LET x == [Head(down) EXCEPT !.ok = FALSE] IN
             <<x>> \o Tail(down) \in Seq(Requests) /\ Fewer(<<x>> \o Tail(down), down)
  <2> DEFINE x == [Head(down) EXCEPT !.ok = FALSE]
  <2>1. Head(down) \in Requests /\ Head(down) = down[1]
    BY <1>1, <1>3, Oldest
  <2>2. /\ x \in Requests /\ x.type = down[1].type /\ x.panel = down[1].panel
        /\ x.addr = down[1].addr /\ x.data = down[1].data /\ ~x.ok
    BY <2>1 DEF Requests
  <2> HIDE DEF x
  <2>3. <<x>> \o Tail(down) \in Seq(Requests) /\ Fewer(<<x>> \o Tail(down), down)
    BY <1>1, <1>3, <2>2, Damaged
  <2> QED
    BY <2>3 DEF x
<1>4. ASSUME up # <<>>
      PROVE  LET x == [Head(up) EXCEPT !.ok = FALSE] IN
             <<x>> \o Tail(up) \in Seq(Answers) /\ Fewer(<<x>> \o Tail(up), up)
  <2> DEFINE x == [Head(up) EXCEPT !.ok = FALSE]
  <2>1. Head(up) \in Answers /\ Head(up) = up[1]
    BY <1>1, <1>4, Oldest
  <2>2. /\ x \in Answers /\ x.type = up[1].type /\ x.panel = up[1].panel
        /\ x.addr = up[1].addr /\ x.data = up[1].data /\ ~x.ok
    BY <2>1 DEF Answers
  <2> HIDE DEF x
  <2>3. <<x>> \o Tail(up) \in Seq(Answers) /\ Fewer(<<x>> \o Tail(up), up)
    BY <1>1, <1>4, <2>2, Damaged
  <2> QED
    BY <2>3 DEF x
<1>5. WireType' /\ Fewer(down', down) /\ Fewer(up', up)
  <2>1. CASE LoseRequest
    BY <1>1, <1>2, <2>1, Shorter, Oldest DEF LoseRequest, WireType
  <2>2. CASE LoseAnswer
    BY <1>1, <1>2, <2>2, Shorter, Oldest DEF LoseAnswer, WireType
  <2>3. CASE Damage
    BY <1>1, <1>2, <1>3, <1>4, <2>3 DEF Damage, WireType
  <2> QED
    BY <2>1, <2>2, <2>3
<1>6. faults' \in [count : Nat, mild : BOOLEAN]
  BY Happened DEF LoseRequest, LoseAnswer, Damage, TypeInv
<1>7. UNCHANGED <<flasherVars, panelVars, campaigns, cut>>
  BY DEF LoseRequest, LoseAnswer, Damage
<1>8. FlasherType' /\ PanelType'
  BY <1>7 DEF flasherVars, panelVars, bootVars, TypeInv, FlasherType, PanelType, Active,
              InDiscoveryOrder
<1> QED
  BY <1>5, <1>6, <1>7, <1>8 DEF TypeInv

LEMMA StallType == TypeInv /\ Stall => TypeInv'
<1> SUFFICES ASSUME TypeInv, Stall PROVE TypeInv'
  OBVIOUS
<1>1. Active /\ Target \in Panels
  BY AtTarget DEF Stall, Active, TypeInv
<1>2. PanelType'
  BY <1>1, Leaves DEF Stall, TypeInv
<1>3. FlasherType' /\ WireType'
  BY DEF Stall, flasherVars, TypeInv, FlasherType, WireType, Active, InDiscoveryOrder
<1>4. faults' \in [count : Nat, mild : BOOLEAN]
  BY Happened DEF Stall, TypeInv
<1> QED
  BY <1>1, <1>2, <1>3, <1>4 DEF Stall, TypeInv

\* A cut of power tears at most the page the oldest frame on the wire completes.
LEMMA PowerCut ==
    ASSUME TypeInv, flash' \in FlashAfterPowerCut
    PROVE  /\ flash' \in [Panels -> [Address -> Data]]
           /\ \/ flash' = flash
              \/ /\ down # <<>> /\ down[1].type = "CHUNK"
                 /\ \A p \in Panels : p # down[1].panel => flash'[p] = flash[p]
<1>1. CASE flash' = flash
  BY <1>1 DEF TypeInv, PanelType
<1>2. CASE flash' # flash
  <2>1. PICK f \in {g \in {down[1] : n \in {1} \cap DOMAIN down} :
                  mode[g.panel] = "boot" /\ g.type = "CHUNK" /\ g.ok /\ g.addr[2] = 1} :
          flash' = [flash EXCEPT ![f.panel] = [a \in Address |->
                      IF a[1] = f.addr[1] THEN Torn ELSE flash[f.panel][a]]]
    BY <1>2 DEF FlashAfterPowerCut
  <2>2. f = down[1] /\ 1 \in DOMAIN down /\ f.type = "CHUNK"
    OBVIOUS
  <2>3. f \in Requests /\ f.panel \in Panels /\ down # <<>>
    <3>1. f \in Requests
      BY <2>2 DEF TypeInv, WireType
    <3> QED
      BY <2>2, <3>1 DEF Requests
  <2> DEFINE torn == [a \in Address |-> IF a[1] = f.addr[1] THEN Torn ELSE flash[f.panel][a]]
  <2>4. torn \in [Address -> Data]
    BY <2>3 DEF Data, TypeInv, PanelType
  <2> HIDE DEF torn
  <2>5. flash' = [flash EXCEPT ![f.panel] = torn]
    BY <2>1 DEF torn
  <2> QED
    BY <2>2, <2>3, <2>4, <2>5 DEF TypeInv, PanelType
<1> QED
  BY <1>1, <1>2

LEMMA RestartType == TypeInv /\ Restart => TypeInv'
<1> SUFFICES ASSUME TypeInv, Restart PROVE TypeInv'
  OBVIOUS
<1> DEFINE found == {p \in Panels : \A q \in Ancestors(p) \cup {p} : Sound(q)'}
<1>1. IsFiniteSet(Panels)
  BY TreeAssumption, FS_Interval DEF Panels
<1>2. found \subseteq Panels /\ Cardinality(found) \in Nat
  BY <1>1, FS_Subset, FS_CardinalityType
<1>3. listed' \in [1 .. Cardinality(found) -> found] /\ InDiscoveryOrder(listed')
  BY DEF Restart
<1>4. joined' = [p \in Panels |-> p \in found]
  BY DEF Restart
<1> HIDE DEF found
<1>5. listed' \in Seq(Panels)
  BY <1>2, <1>3
<1>6. joined' \in [Panels -> BOOLEAN]
  <2>1. \A p \in Panels : (p \in found) \in BOOLEAN
    OBVIOUS
  <2> QED
    BY <1>4, <2>1
<1>7. FlasherType'
  BY <1>3, <1>5 DEF Restart, TypeInv, FlasherType, Active, States, InDiscoveryOrder
<1>8. PanelType'
  BY <1>6, PowerCut DEF Restart, TypeInv, PanelType
<1>9. WireType' /\ faults' \in [count : Nat, mild : BOOLEAN] /\ cut' \in SUBSET Panels
      /\ campaigns' \in Nat
  BY Happened DEF Restart, TypeInv, WireType
<1> QED
  BY <1>7, <1>8, <1>9 DEF TypeInv

-----------------------------------------------------------------------------
(* What an action keeps when it only takes frames off the wires.            *)

\* The target of a session is left alone.
SameTarget ==
    /\ UNCHANGED <<state, listed, panelIdx, image, currentPage, chunk>>
    /\ mode'[Target] = mode[Target] /\ joined'[Target] = joined[Target]
    /\ pageStart'[Target] = pageStart[Target] /\ pageBuf'[Target] = pageBuf[Target]
    /\ pageDirty'[Target] = pageDirty[Target] /\ flash'[Target] = flash[Target]

LEMMA KeepsDown ==
    ASSUME TypeInv, SessionDown, Fewer(down', down), TypeInv',
           UNCHANGED <<state, listed, panelIdx, image, currentPage, chunk>>
    PROVE  SessionDown'
<1>1. PICK k \in Nat : \A i \in DOMAIN down' :
        /\ i + k \in DOMAIN down
        /\ down'[i].type = down[i + k].type /\ down'[i].panel = down[i + k].panel
        /\ down'[i].addr = down[i + k].addr /\ down'[i].data = down[i + k].data
  BY DEF Fewer
<1>2. \A i \in DOMAIN down :
          /\ down[i].panel = Target
          /\ \/ down[i].type = "PING"
             \/ /\ down[i].type = "CHUNK" /\ state = "FLASHING"
                /\ down[i].data = image /\ At(down[i].addr) <= Now
  BY DEF SessionDown
<1>3. UNCHANGED <<Target, Now>>
  BY DEF Target, FlashOrder, Now
<1>4. \A i \in DOMAIN down' :
          /\ down'[i].panel = Target'
          /\ \/ down'[i].type = "PING"
             \/ /\ down'[i].type = "CHUNK" /\ state' = "FLASHING"
                /\ down'[i].data = image' /\ At(down'[i].addr) <= Now'
  BY <1>1, <1>2, <1>3
<1>5. ASSUME NEW i \in DOMAIN down', NEW j \in DOMAIN down', i < j,
             down'[i].type = "CHUNK", down'[j].type = "CHUNK"
      PROVE  At(down'[i].addr) <= At(down'[j].addr)
  <2>1. i \in Nat /\ j \in Nat
    BY DEF TypeInv, WireType
  <2>2. i + k < j + k
    BY <1>5, <2>1
  <2>3. At(down[i + k].addr) <= At(down[j + k].addr)
    BY <1>1, <1>5, <2>2 DEF SessionDown
  <2> QED
    BY <1>1, <2>3
<1> QED
  BY <1>4, <1>5 DEF SessionDown, At

\* Every chunk that is said to be taken was said to be before.
NoNewAck ==
    \A i \in DOMAIN up' : Accepted(up'[i]) =>
        \E j \in DOMAIN up : Accepted(up[j]) /\ up'[i].addr = up[j].addr

LEMMA FewerAnswers == Fewer(up', up) => NoNewAck
  BY DEF Fewer, NoNewAck, Accepted

LEMMA KeepsUp ==
    ASSUME NoNewAck
    PROVE  /\ (\A i \in DOMAIN up : ~Accepted(up[i])) => \A i \in DOMAIN up' : ~Accepted(up'[i])
           /\ \A r : (\A i \in DOMAIN up : Accepted(up[i]) => At(up[i].addr) <= r)
                        => \A i \in DOMAIN up' : Accepted(up'[i]) => At(up'[i].addr) <= r
  BY DEF NoNewAck, At

LEMMA KeepsWaiting ==
    ASSUME TypeInv', Waits, Fewer(up', up), mode'[Target] = mode[Target], Target' = Target
    PROVE  Waits'
<1>1. up' # <<>> => up # <<>>
  <2>1. up' # <<>> => 1 \in DOMAIN up'
    BY DEF TypeInv, WireType
  <2>2. up = <<>> => DOMAIN up = {}
    OBVIOUS
  <2> QED
    BY <2>1, <2>2 DEF Fewer
<1>2. \A i \in DOMAIN up' : up'[i].type = "PONG"
  BY DEF Fewer, Waits
<1> QED
  BY <1>1, <1>2 DEF Waits

LEMMA KeepsSession ==
    ASSUME TypeInv, SessionInv, Session, TypeInv', SameTarget, Fewer(down', down), NoNewAck
    PROVE  /\ SessionDown'
           /\ state = "FLASHING" => ~joined'[Target] /\ (Fresh' \/ Going' \/ Stalled')
           /\ Stalled => Stalled'
<1>1. SessionDown'
  BY KeepsDown DEF SessionInv, SameTarget
<1>2. UNCHANGED <<Target, Now>> /\ Reached(Target)' = Reached(Target)
  BY DEF SameTarget, Target, FlashOrder, Now, Reached
<1>4. Stalled => Stalled'
  BY <1>2, KeepsUp DEF Stalled, SameTarget
<1>5. Fresh => Fresh'
  BY <1>2, KeepsUp DEF Fresh, SameTarget
<1>6. ASSUME Going PROVE Going'
  <2>1. \A i \in DOMAIN down' : down'[i].type = "CHUNK" => Reached(Target) <= At(down'[i].addr)
    BY <1>6 DEF Going, Fewer
  <2>2. \A i \in DOMAIN up' : Accepted(up'[i]) => At(up'[i].addr) <= Reached(Target)
    BY <1>6, KeepsUp DEF Going
  <2> HIDE DEF Reached, Now, Target, At, Accepted
  <2> QED
    BY <1>2, <1>6, <2>1, <2>2 DEF Going, SameTarget
<1> QED
  BY <1>1, <1>2, <1>4, <1>5, <1>6 DEF SessionInv, SameTarget

\* Every chunk on its way was on its way before.
NoNewChunk ==
    \A i \in DOMAIN down' : down'[i].type = "CHUNK" =>
        \E j \in DOMAIN down : /\ down[j].type = "CHUNK" /\ down'[i].panel = down[j].panel
                               /\ down'[i].addr = down[j].addr /\ down'[i].data = down[j].data

LEMMA FewerChunks == Fewer(down', down) => NoNewChunk
  BY DEF Fewer, NoNewChunk

LEMMA OtherFrame ==
    ASSUME WireType, NEW f \in Requests, f.type # "CHUNK", down' = down \/ down' = Append(down, f)
    PROVE  NoNewChunk
<1>1. CASE down' = down
  BY <1>1 DEF NoNewChunk
<1>2. CASE down' = Append(down, f)
  <2>1. \A i \in DOMAIN down' : down'[i].type = "CHUNK" => i \in DOMAIN down /\ down'[i] = down[i]
    BY <1>2, Sent DEF WireType
  <2> QED
    BY <2>1 DEF NoNewChunk
<1> QED
  BY <1>1, <1>2

LEMMA KeepsLeftOver ==
    ASSUME LeftOver, ~Session, NoNewChunk, cut \subseteq cut', Finished' \subseteq Finished,
           UNCHANGED <<mode, joined, flash, pageStart, pageBuf, pageDirty>>
    PROVE  LeftOver'
<1> SUFFICES ASSUME NEW i \in DOMAIN down', down'[i].type = "CHUNK"
             PROVE  Repeats(down[i])' \/ (down'[i].panel \in cut' /\ down'[i].panel \notin Finished')
  BY DEF LeftOver
<1>1. PICK j \in DOMAIN down : /\ down[j].type = "CHUNK" /\ down'[i].panel = down[j].panel
                               /\ down'[i].addr = down[j].addr /\ down'[i].data = down[j].data
  BY DEF NoNewChunk
<1>2. Repeats(down[j]) \/ (down[j].panel \in cut /\ down[j].panel \notin Finished)
  BY <1>1 DEF LeftOver
<1>3. Repeats(down[j]) => Repeats(down[i])'
  BY <1>1 DEF Repeats
<1> QED
  BY <1>1, <1>2, <1>3

LEMMA KeepsPanels ==
    ASSUME Settled, FinishedHoldImage, SoundInv, UNCHANGED <<flash, pageDirty>>, cut \subseteq cut',
           Finished' \subseteq Finished, image' = image \/ Finished' = {},
           state = "FLASHING" => Target \in cut' \/ (state' = "FLASHING" /\ Target' = Target)
    PROVE  Settled' /\ FinishedHoldImage' /\ SoundInv'
<1>1. Settled' /\ FinishedHoldImage'
  BY DEF Settled, FinishedHoldImage
<1>2. \A p \in Panels : UnderWay(p) => UnderWay(p)'
  BY DEF UnderWay
<1>3. \A p \in Panels : Sound(p) => Sound(p)'
  BY DEF Sound
<1> QED
  BY <1>1, <1>2, <1>3 DEF SoundInv

\* A panel's flash is as it was, with nothing new to commit.
KeptFlash(p) == flash'[p] = flash[p] /\ (pageDirty'[p] => pageDirty[p])

LEMMA KeepsOthers ==
    ASSUME Settled, FinishedHoldImage, SoundInv, UNCHANGED <<state, listed, panelIdx, image, cut>>,
           FlasherType,
           \A p \in Panels : KeptFlash(p) \/ (UnderWay(p) /\ p \notin Finished)
    PROVE  Settled' /\ FinishedHoldImage' /\ SoundInv'
<1>1. Finished' = Finished /\ Finished \in SUBSET Panels
  BY FinishedPanels DEF Finished, Active, FlashOrder
<1>2. \A p \in Finished : KeptFlash(p)
  BY <1>1
<1>3. Settled' /\ FinishedHoldImage'
  BY <1>1, <1>2 DEF Settled, FinishedHoldImage, KeptFlash
<1>4. \A p \in Panels : UnderWay(p)' = UnderWay(p)
  BY DEF UnderWay, Target, FlashOrder
<1>5. \A p \in Panels : KeptFlash(p) /\ Sound(p) => Sound(p)'
  BY DEF Sound, KeptFlash
<1> QED
  BY <1>3, <1>4, <1>5 DEF SoundInv, KeptFlash

LEMMA CutCount ==
    ASSUME TypeInv
    PROVE  /\ Cardinality(cut) \in Nat /\ campaigns \in Nat
           /\ \A p \in Panels : Cardinality(cut \cup {p}) \in Nat
                                /\ Cardinality(cut \cup {p}) <= Cardinality(cut) + 1
           /\ \A p \in cut : cut \cup {p} = cut
<1>1. IsFiniteSet(Panels)
  BY TreeAssumption, FS_Interval DEF Panels
<1>2. IsFiniteSet(cut) /\ Cardinality(cut) \in Nat
  BY <1>1, FS_Subset, FS_CardinalityType DEF TypeInv
<1>3. ASSUME NEW p \in Panels
      PROVE  Cardinality(cut \cup {p}) \in Nat /\ Cardinality(cut \cup {p}) <= Cardinality(cut) + 1
  <2>1. Cardinality(cut \cup {p}) = IF p \in cut THEN Cardinality(cut) ELSE Cardinality(cut) + 1
    BY <1>2, FS_AddElement
  <2> QED
    BY <1>2, <2>1
<1> QED
  BY <1>2, <1>3 DEF TypeInv

Rest == SessionInv /\ LeftOver /\ Settled /\ FinishedHoldImage /\ SoundInv /\ CutInv

-----------------------------------------------------------------------------
(* The campaign.                                                            *)

LEMMA StartFlashingKeeps == OtaInv /\ StartFlashing => Rest'
<1> SUFFICES ASSUME OtaInv, StartFlashing PROVE Rest'
  OBVIOUS
<1>1. ~Session /\ ~Session' /\ state # "FLASHING"
  BY DEF StartFlashing, Active, Session
<1>2. Finished' = {}
  <2>1. CASE state' = "ENTER_BL"
    <3>1. Finished' = {FlashOrder(i)' : i \in 0 .. panelIdx' - 1} /\ panelIdx' = 0
      BY <2>1 DEF StartFlashing, Finished, Active
    <3>2. 0 .. panelIdx' - 1 = {}
      BY <3>1
    <3> QED
      BY <3>1, <3>2
  <2>2. CASE state' = "ERROR"
    BY <2>2 DEF Finished, Active
  <2> QED
    BY <2>1, <2>2 DEF StartFlashing
<1>3. NoNewChunk /\ UNCHANGED <<mode, joined, flash, pageStart, pageBuf, pageDirty, cut>>
  BY DEF StartFlashing, panelVars, bootVars, NoNewChunk
<1>4. LeftOver'
  BY <1>1, <1>2, <1>3, KeepsLeftOver DEF OtaInv
<1>5. Settled' /\ FinishedHoldImage' /\ SoundInv'
  BY <1>1, <1>2, <1>3, KeepsPanels DEF OtaInv
<1>6. Cardinality(cut') < campaigns'
  <2>1. Cardinality(cut) <= campaigns /\ campaigns' = campaigns + 1
    BY CutCount DEF OtaInv, CutInv, StartFlashing
  <2> QED
    BY <1>3, <2>1, CutCount DEF OtaInv
<1> QED
  BY <1>1, <1>4, <1>5, <1>6 DEF Rest, SessionInv, CutInv

LEMMA EnterBootloaderKeeps == OtaInv /\ EnterBootloader => Rest'
<1> SUFFICES ASSUME OtaInv, EnterBootloader PROVE Rest'
  OBVIOUS
<1>1. ~Session /\ ~Session' /\ state # "FLASHING"
  BY DEF EnterBootloader, Session, OtaInv, TypeInv, FlasherType
<1>2. Finished' = Finished /\ image' = image
  BY DEF EnterBootloader, Finished, Active, FlashOrder
<1>3. UNCHANGED <<mode, joined, flash, pageStart, pageBuf, pageDirty, cut, campaigns>>
  BY DEF EnterBootloader, panelVars, bootVars
<1>4. NoNewChunk
  <2> DEFINE f == Frame("ENTER", Target, NoAddr, Old)
  <2>1. f \in Requests
    BY AtTarget, Addressed, Framed DEF EnterBootloader, Active, OtaInv, TypeInv, Data
  <2>2. f.type # "CHUNK" /\ Request(f)
    BY DEF Frame, EnterBootloader
  <2> HIDE DEF f
  <2> QED
    BY <2>1, <2>2, Requested, OtherFrame DEF OtaInv, TypeInv
<1>5. LeftOver'
  BY <1>1, <1>2, <1>3, <1>4, KeepsLeftOver DEF OtaInv
<1>6. Settled' /\ FinishedHoldImage' /\ SoundInv'
  BY <1>1, <1>2, <1>3, KeepsPanels DEF OtaInv
<1>7. Cardinality(cut') < campaigns'
  BY <1>3 DEF OtaInv, CutInv, EnterBootloader
<1> QED
  BY <1>1, <1>5, <1>6, <1>7 DEF Rest, SessionInv, CutInv

LEMMA NextPanelKeeps == OtaInv /\ NextPanel => Rest'
<1> SUFFICES ASSUME OtaInv, NextPanel PROVE Rest'
  OBVIOUS
<1>1. ~Session /\ ~Session' /\ state # "FLASHING"
  BY DEF NextPanel, Session
<1>2. Finished' = Finished /\ image' = image
  <2>1. Finished = {FlashOrder(i) : i \in 0 .. panelIdx - 0}
    BY DEF NextPanel, Finished, Active
  <2>2. Finished' = {FlashOrder(i)' : i \in 0 .. panelIdx + 1 - 1}
    <3>1. state' \in {"DONE", "ENTER_BL"} /\ panelIdx' = panelIdx + 1
      BY DEF NextPanel
    <3> DEFINE m == panelIdx' - (IF state' = "NEXT_PANEL" THEN 0 ELSE 1)
    <3>2. Finished' = {FlashOrder(i)' : i \in 0 .. m}
      BY <3>1 DEF Finished, Active
    <3>3. m = panelIdx + 1 - 1
      <4>1. state' # "NEXT_PANEL" /\ panelIdx \in Nat
        BY <3>1 DEF OtaInv, TypeInv, FlasherType
      <4> QED
        BY <3>1, <4>1
    <3> HIDE DEF m
    <3> QED
      BY <3>2, <3>3
  <2>3. panelIdx + 1 - 1 = panelIdx - 0
    BY DEF OtaInv, TypeInv, FlasherType
  <2>4. \A i : FlashOrder(i)' = FlashOrder(i)
    BY DEF NextPanel, FlashOrder
  <2> QED
    BY <2>1, <2>2, <2>3, <2>4 DEF NextPanel
<1>3. NoNewChunk /\ UNCHANGED <<mode, joined, flash, pageStart, pageBuf, pageDirty, cut, campaigns>>
  BY DEF NextPanel, panelVars, bootVars, NoNewChunk
<1>4. LeftOver'
  BY <1>1, <1>2, <1>3, KeepsLeftOver DEF OtaInv
<1>5. Settled' /\ FinishedHoldImage' /\ SoundInv'
  BY <1>1, <1>2, <1>3, KeepsPanels DEF OtaInv
<1>6. Cardinality(cut') < campaigns'
  BY <1>3 DEF OtaInv, CutInv, NextPanel
<1> QED
  BY <1>1, <1>4, <1>5, <1>6 DEF Rest, SessionInv, CutInv

\* A frame of the session joins those on the wire.
LEMMA JoinsDown ==
    ASSUME TypeInv, SessionDown, NEW f \in Requests, down' = down \/ down' = Append(down, f),
           UNCHANGED <<state, listed, panelIdx, image, currentPage, chunk>>, f.panel = Target,
           \/ f.type = "PING"
           \/ f.type = "CHUNK" /\ state = "FLASHING" /\ f.data = image /\ At(f.addr) = Now
    PROVE  SessionDown'
<1>1. UNCHANGED <<Target, Now>>
  BY DEF Target, FlashOrder, Now
<1>2. CASE down' = down
  BY <1>1, <1>2 DEF SessionDown, At
<1>3. CASE down' = Append(down, f)
  <2>1. \A i \in DOMAIN down' : (i \in DOMAIN down /\ down'[i] = down[i])
                                \/ (i = Len(down) + 1 /\ down'[i] = f)
    BY <1>3, Sent DEF TypeInv, WireType
  <2>2. Now \in Nat /\ At(f.addr) \in Nat
    <3>1. f.addr \in Address
      BY DEF Requests
    <3>2. currentPage \in Nat /\ chunk \in Nat
      BY Addressed DEF TypeInv, FlasherType, Chunk
    <3> QED
      BY <3>1, <3>2, Addresses DEF Now
  <2>3. ASSUME NEW i \in DOMAIN down'
        PROVE  /\ down'[i].panel = Target
               /\ \/ down'[i].type = "PING"
                  \/ /\ down'[i].type = "CHUNK" /\ state = "FLASHING"
                     /\ down'[i].data = image /\ At(down'[i].addr) <= Now
    <3>1. CASE i \in DOMAIN down /\ down'[i] = down[i]
      BY <3>1 DEF SessionDown
    <3>2. CASE down'[i] = f
      BY <2>2, <3>2
    <3> QED
      BY <2>1, <3>1, <3>2
  <2>4. ASSUME NEW i \in DOMAIN down', NEW j \in DOMAIN down', i < j,
               down'[i].type = "CHUNK", down'[j].type = "CHUNK"
        PROVE  At(down'[i].addr) <= At(down'[j].addr)
    <3>1. i \in Nat /\ j \in Nat /\ Len(down) \in Nat /\ DOMAIN down' = 1 .. Len(down) + 1
      BY <1>3, Sent DEF TypeInv, WireType
    <3>2. i # Len(down) + 1
      BY <2>4, <3>1
    <3>3. i \in DOMAIN down /\ down'[i] = down[i]
      BY <2>1, <3>2
    <3>4. CASE j \in DOMAIN down /\ down'[j] = down[j]
      BY <2>4, <3>3, <3>4 DEF SessionDown
    <3>5. CASE down'[j] = f
      BY <2>3, <2>4, <3>5
    <3> QED
      BY <2>1, <3>4, <3>5
  <2> QED
    BY <1>1, <2>3, <2>4 DEF SessionDown, At
<1> QED
  BY <1>2, <1>3

LEMMA ConnectKeeps == OtaInv /\ Connect /\ TypeInv' => Rest'
<1> SUFFICES ASSUME OtaInv, Connect, TypeInv' PROVE Rest'
  OBVIOUS
<1> DEFINE f == Frame("PING", Target, NoAddr, Old)
<1>1. f \in Requests /\ f.panel = Target /\ f.type = "PING"
  BY AtTarget, Addressed, Framed DEF Connect, Active, OtaInv, TypeInv, Data, Frame
<1>2. Request(f)
  BY DEF Connect
<1> HIDE DEF f
<1>3. (down' = down \/ down' = Append(down, f)) /\ Fewer(up', up)
  BY <1>1, <1>2, Requested DEF OtaInv, TypeInv
<1>4. /\ UNCHANGED <<state, listed, panelIdx, image, currentPage, chunk, tries, campaigns, cut>>
      /\ UNCHANGED <<mode, joined, flash, pageStart, pageBuf, pageDirty>>
      /\ state = "WAIT_BL" /\ Session' /\ Target' = Target
  BY DEF Connect, panelVars, bootVars, Session, Target, FlashOrder
<1>5. SessionDown
  <2>1. CASE tries = 0
    <3>1. down = <<>>
      BY <2>1 DEF Connect
    <3> QED
      BY <3>1 DEF SessionDown
  <2>2. CASE tries # 0
    <3>1. Session
      BY <2>2 DEF Connect, Session, OtaInv, TypeInv, FlasherType
    <3> QED
      BY <3>1 DEF OtaInv, SessionInv
  <2> QED
    BY <2>1, <2>2
<1>6. SessionDown'
  BY <1>1, <1>3, <1>4, <1>5, JoinsDown DEF OtaInv
<1>7. Waits'
  <2>1. CASE tries = 0
    <3>1. up' = <<>>
      BY <2>1 DEF Connect
    <3> QED
      BY <3>1 DEF Waits
  <2>2. CASE tries # 0
    <3>1. Waits
      BY <2>2 DEF Connect, Session, OtaInv, TypeInv, FlasherType, SessionInv
    <3> QED
      BY <1>3, <1>4, <3>1, KeepsWaiting
  <2> QED
    BY <2>1, <2>2
<1>8. SessionInv' /\ LeftOver'
  BY <1>4, <1>6, <1>7 DEF SessionInv, LeftOver
<1>9. Finished' = Finished
  BY <1>4 DEF Finished, Active, FlashOrder
<1>10. Settled' /\ FinishedHoldImage' /\ SoundInv'
  BY <1>4, <1>9, KeepsPanels DEF OtaInv
<1>11. CutInv'
  BY <1>4 DEF OtaInv, CutInv
<1> QED
  BY <1>8, <1>10, <1>11 DEF Rest

LEMMA SendChunkKeeps == OtaInv /\ SendChunk /\ TypeInv' => Rest'
<1> SUFFICES ASSUME OtaInv, SendChunk, TypeInv' PROVE Rest'
  OBVIOUS
<1> DEFINE f == Frame("CHUNK", Target, <<currentPage, chunk>>, image)
<1>1. <<currentPage, chunk>> \in Address /\ image \in Data /\ Target \in Panels
  BY Addressed, AtTarget DEF SendChunk, Active, OtaInv, TypeInv, FlasherType, Data
<1>2. f \in Requests /\ f.panel = Target /\ f.type = "CHUNK" /\ f.data = image
      /\ f.addr = <<currentPage, chunk>>
  BY <1>1, Framed DEF Frame
<1>3. At(f.addr) = Now
  BY <1>2 DEF At, Now
<1>4. Request(f)
  BY DEF SendChunk
<1> HIDE DEF f
<1>5. (down' = down \/ down' = Append(down, f)) /\ Fewer(up', up)
  BY <1>2, <1>4, Requested DEF OtaInv, TypeInv
<1>6. /\ UNCHANGED <<state, listed, panelIdx, image, currentPage, chunk, tries, campaigns, cut>>
      /\ UNCHANGED <<mode, joined, flash, pageStart, pageBuf, pageDirty>>
      /\ state = "FLASHING" /\ Session /\ Session' /\ Target' = Target /\ Now' = Now
  BY DEF SendChunk, panelVars, bootVars, Session, Target, FlashOrder, Now
<1>7. SessionDown'
  BY <1>2, <1>3, <1>5, <1>6, JoinsDown DEF OtaInv, SessionInv
<1>8. Fresh => Fresh'
  BY <1>5, <1>6, FewerAnswers, KeepsUp DEF Fresh
<1>9. Stalled => Stalled'
  BY <1>5, <1>6, FewerAnswers, KeepsUp DEF Stalled
<1>10. ASSUME Going PROVE Going'
  <2>1. Reached(Target)' = Reached(Target)
    BY <1>6 DEF Reached
  <2>2. ASSUME NEW i \in DOMAIN down', down'[i].type = "CHUNK"
        PROVE  Reached(Target) <= At(down'[i].addr)
    <3>1. CASE i \in DOMAIN down /\ down'[i] = down[i]
      BY <1>10, <2>2, <3>1 DEF Going
    <3>2. CASE down'[i] = f
      BY <1>3, <1>10, <3>2 DEF Going
    <3> QED
      <4>1. down \in Seq(Requests)
        BY DEF OtaInv, TypeInv, WireType
      <4>2. \A j \in DOMAIN down' : (j \in DOMAIN down /\ down'[j] = down[j]) \/ down'[j] = f
        BY <1>2, <1>5, <4>1, Sent
      <4> QED
        BY <3>1, <3>2, <4>2
  <2>3. \A i \in DOMAIN up' : Accepted(up'[i]) => At(up'[i].addr) <= Reached(Target)
    BY <1>5, <1>10, FewerAnswers, KeepsUp DEF Going
  <2> HIDE DEF Reached, Now, Target, At, Accepted
  <2> QED
    BY <1>6, <1>10, <2>1, <2>2, <2>3 DEF Going
<1>11. SessionInv' /\ LeftOver'
  BY <1>6, <1>7, <1>8, <1>9, <1>10 DEF OtaInv, SessionInv, LeftOver
<1>12. Finished' = Finished
  BY <1>6 DEF Finished, Active, FlashOrder
<1>13. Settled' /\ FinishedHoldImage' /\ SoundInv'
  BY <1>6, <1>12, KeepsPanels DEF OtaInv
<1>14. CutInv'
  BY <1>6, <1>9 DEF OtaInv, CutInv
<1> QED
  BY <1>11, <1>13, <1>14 DEF Rest

\* The session goes on, whatever happens to other panels.
LEMMA GoesOn ==
    ASSUME OtaInv, TypeInv', Session, Session', SameTarget, Fewer(down', down), NoNewAck,
           state = "WAIT_BL" => Waits', UNCHANGED <<cut, campaigns>>,
           \A p \in Panels : KeptFlash(p) \/ (UnderWay(p) /\ p \notin Finished)
    PROVE  Rest'
<1>1. Target' = Target /\ state' = state /\ image' = image
  BY DEF SameTarget, Target, FlashOrder
<1>2. SessionInv' /\ (Stalled => Stalled')
  BY <1>1, KeepsSession DEF OtaInv, SessionInv
<1>3. LeftOver'
  BY DEF LeftOver
<1>4. Settled' /\ FinishedHoldImage' /\ SoundInv'
  BY KeepsOthers DEF OtaInv, TypeInv, SameTarget
<1>5. CutInv'
  BY <1>1, <1>2 DEF OtaInv, CutInv, Session
<1> QED
  BY <1>2, <1>3, <1>4, <1>5 DEF Rest

\* Frames are taken off the wires and the session goes on.
LEMMA GoesOnWithLess ==
    ASSUME OtaInv, TypeInv', Session, Session', SameTarget, Fewer(down', down), Fewer(up', up),
           UNCHANGED <<flash, pageDirty, cut, campaigns>>
    PROVE  Rest'
<1>1. Target' = Target
  BY DEF SameTarget, Target, FlashOrder
<1>2. state = "WAIT_BL" => Waits'
  BY <1>1, KeepsWaiting DEF OtaInv, SessionInv, SameTarget
<1>3. \A p \in Panels : KeptFlash(p)
  BY DEF KeptFlash
<1> QED
  BY <1>2, <1>3, GoesOn, FewerAnswers

\* The last attempt ends the campaign; what is left on the wire is for a panel that
\* counts as cut, or no chunk.
LEMMA GivesUp ==
    ASSUME OtaInv, TypeInv', Session, state' = "ERROR", UNCHANGED <<listed, panelIdx, down, campaigns>>,
           UNCHANGED <<mode, joined, flash, pageStart, pageBuf, pageDirty>>,
           cut' = IF state = "FLASHING" THEN cut \cup {Target} ELSE cut
    PROVE  Rest'
<1>1. Target \in Panels /\ ~Session' /\ Finished' = {}
  BY AtTarget DEF Session, Active, Finished, OtaInv, TypeInv
<1>2. \A i \in DOMAIN down : down[i].type = "CHUNK" => state = "FLASHING" /\ down[i].panel = Target
  BY DEF OtaInv, SessionInv, SessionDown
<1>3. \A i \in DOMAIN down' : down'[i].type = "CHUNK" => down'[i].panel \in cut'
  BY <1>2
<1>4. SessionInv' /\ LeftOver'
  BY <1>1, <1>3 DEF SessionInv, LeftOver
<1>5. Settled' /\ FinishedHoldImage' /\ SoundInv'
  BY <1>1, KeepsPanels DEF OtaInv
<1>6. Cardinality(cut') < campaigns' \/ Cardinality(cut') <= campaigns'
  <2>1. CASE Cardinality(cut) < campaigns
    BY <1>1, <2>1, CutCount DEF OtaInv
  <2>2. CASE Target \in cut /\ Cardinality(cut) <= campaigns
    BY <2>2, CutCount DEF OtaInv
  <2> QED
    BY <2>1, <2>2 DEF OtaInv, CutInv, Session
<1>7. CutInv'
  BY <1>3, <1>6 DEF CutInv
<1> QED
  BY <1>4, <1>5, <1>7 DEF Rest

LEMMA AttemptFailed ==
    ASSUME OtaInv, TypeInv', Session, AttemptFails, awaiting' = FALSE, Fewer(up', up),
           UNCHANGED <<listed, panelIdx, image, currentPage, chunk, down, panelVars, campaigns>>
    PROVE  Rest'
<1>1. UNCHANGED <<mode, joined, flash, pageStart, pageBuf, pageDirty>>
  BY DEF panelVars, bootVars
<1>2. CASE Exhausted
  <2>1. state' = "ERROR" /\ cut' = IF state = "FLASHING" THEN cut \cup {Target} ELSE cut
    BY <1>2 DEF AttemptFails
  <2> QED
    BY <1>1, <2>1, GivesUp
<1>3. CASE ~Exhausted
  <2>1. state' = state /\ cut' = cut /\ tries' = tries + 1
    BY <1>3 DEF AttemptFails
  <2>2. tries' > 0
    BY <2>1 DEF OtaInv, TypeInv, FlasherType
  <2>3. Session'
    BY <2>1, <2>2 DEF Session
  <2>4. Fewer(down', down)
    BY Kept DEF OtaInv, TypeInv, WireType
  <2> QED
    BY <1>1, <2>1, <2>3, <2>4, GoesOnWithLess DEF SameTarget
<1> QED
  BY <1>2, <1>3

LEMMA ReplyTimeoutKeeps == OtaInv /\ ReplyTimeout /\ TypeInv' => Rest'
<1> SUFFICES ASSUME OtaInv, ReplyTimeout, TypeInv' PROVE Rest'
  OBVIOUS
<1>1. Session
  BY DEF ReplyTimeout, Session, OtaInv, TypeInv, FlasherType
<1>2. Fewer(up', up)
  BY Kept DEF ReplyTimeout, OtaInv, TypeInv, WireType
<1> QED
  BY <1>1, <1>2, AttemptFailed DEF ReplyTimeout

\* The panel has answered: it is in its bootloader, and nothing else is on the wires.
LEMMA ConnectedKeeps ==
    ASSUME OtaInv, TypeInv', state = "WAIT_BL", Session, up # <<>>, Connected, Fewer(up', up),
           UNCHANGED <<listed, panelIdx, image, panelVars, campaigns>>
    PROVE  Rest'
<1>1. /\ UNCHANGED <<mode, joined, flash, pageStart, pageBuf, pageDirty, down, cut>>
      /\ state' = "FLASHING" /\ currentPage' = 0 /\ chunk' = 0
      /\ Target' = Target /\ Target \in Panels
  BY AtTarget DEF Connected, panelVars, bootVars, Target, FlashOrder, OtaInv, TypeInv, Active
<1>2. SessionDown /\ Waits /\ mode[Target] = "boot"
  BY DEF OtaInv, SessionInv, Waits
<1>3. SessionDown'
  BY <1>1, <1>2 DEF SessionDown
<1>4. \A i \in DOMAIN up' : ~Accepted(up'[i])
  <2>1. \A i \in DOMAIN up' : up'[i].type = "PONG"
    BY <1>2 DEF Waits, Fewer
  <2> QED
    BY <2>1 DEF Accepted
<1>5. Now' = 0
  BY <1>1 DEF Now
<1>6. ~joined'[Target]
  BY <1>1, <1>2 DEF OtaInv, TypeInv, PanelType
<1>7. Fresh'
  BY <1>1, <1>2, <1>4, <1>5 DEF Fresh
<1>8. SessionInv' /\ LeftOver'
  BY <1>1, <1>3, <1>6, <1>7 DEF SessionInv, LeftOver, Session
<1>9. Finished' = Finished
  BY <1>1 DEF Finished, Active, FlashOrder
<1>10. Settled' /\ FinishedHoldImage' /\ SoundInv'
  BY <1>1, <1>9, KeepsPanels DEF OtaInv
<1>11. CutInv'
  BY <1>1 DEF OtaInv, CutInv
<1> QED
  BY <1>8, <1>10, <1>11 DEF Rest

\* The answer to the chunk that was sent means the panel has taken it.
LEMMA Taken ==
    ASSUME OtaInv, state = "FLASHING", up # <<>>, Head(up).type = "ACK", AcceptsAck(Head(up))
    PROVE  /\ Going /\ Reached(Target) = Now /\ Target \in Panels
           /\ pageStart[Target] \in Nat /\ pageDirty[Target] \in BOOLEAN
           /\ currentPage \in Nat /\ currentPage < Pages /\ chunk \in {0, 1} /\ Pages \in Nat
<1>1. 1 \in DOMAIN up /\ Head(up) = up[1] /\ Accepted(up[1])
  BY Oldest DEF OtaInv, TypeInv, WireType, AcceptsAck, Accepted
<1>2. Going
  BY <1>1 DEF OtaInv, SessionInv, Session, Fresh, Stalled
<1>3. At(up[1].addr) = Now
  BY <1>1 DEF AcceptsAck, At, Now
<1>4. Now <= Reached(Target) /\ Reached(Target) <= Now
  BY <1>1, <1>2, <1>3 DEF Going
<1>5. /\ Target \in Panels /\ pageStart[Target] \in Nat /\ pageDirty[Target] \in BOOLEAN
      /\ currentPage \in Nat /\ currentPage < Pages /\ chunk \in {0, 1} /\ Pages \in Nat
  BY AtTarget, Addressed DEF OtaInv, TypeInv, PanelType, FlasherType, Active, Chunk
<1>6. Now \in Nat /\ Reached(Target) \in Nat
  <2>1. (IF pageDirty[Target] THEN 0 ELSE 1) \in Nat
    OBVIOUS
  <2> QED
    BY <1>5, <2>1 DEF Now, Reached
<1> QED
  BY <1>2, <1>4, <1>5, <1>6

LEMMA NextChunkKeeps ==
    ASSUME OtaInv, TypeInv', state = "FLASHING", up # <<>>, Head(up).type = "ACK",
           AcceptsAck(Head(up)), ~LastChunk, ChunkWritten, Fewer(up', up),
           UNCHANGED <<listed, panelIdx, image, panelVars, campaigns>>
    PROVE  Rest'
<1>1. /\ UNCHANGED <<mode, joined, flash, pageStart, pageBuf, pageDirty, down, cut, state>>
      /\ chunk' = 1 - chunk /\ currentPage' = currentPage + chunk
      /\ Target' = Target /\ Session /\ Session'
  BY DEF ChunkWritten, panelVars, bootVars, Target, FlashOrder, Session
<1>2. Going /\ Reached(Target) = Now /\ Target \in Panels
  BY Taken
<1>3. Now \in Nat /\ Now' = Now + 1
  <2>1. currentPage \in Nat /\ chunk \in {0, 1}
    BY Taken
  <2>2. CASE chunk = 0
    BY <1>1, <2>1, <2>2 DEF Now
  <2>3. CASE chunk = 1
    BY <1>1, <2>1, <2>3 DEF Now
  <2> QED
    BY <2>1, <2>2, <2>3
<1>4. SessionDown'
  <2>1. SessionDown
    BY <1>1 DEF OtaInv, SessionInv
  <2>2. ASSUME NEW i \in DOMAIN down, down[i].type = "CHUNK" PROVE At(down[i].addr) \in Nat
    <3>1. down[i] \in Requests
      BY DEF OtaInv, TypeInv, WireType
    <3> QED
      BY <3>1, Addresses DEF Requests
  <2>3. \A i \in DOMAIN down : down[i].type = "CHUNK" => At(down[i].addr) <= Now + 1
    BY <1>3, <2>1, <2>2 DEF SessionDown
  <2> HIDE DEF At, Now
  <2> QED
    BY <1>1, <1>3, <2>1, <2>3 DEF SessionDown, At
<1>5. Going'
  <2>1. Reached(Target)' = Reached(Target)
    BY <1>1 DEF Reached
  <2>2. \A i \in DOMAIN up' : Accepted(up'[i]) => At(up'[i].addr) <= Reached(Target)
    BY <1>2, FewerAnswers, KeepsUp DEF Going
  <2>3. Now' - 1 <= Reached(Target) /\ Reached(Target) <= Now'
    BY <1>2, <1>3
  <2> HIDE DEF Reached, Now, Target, Accepted
  <2> QED
    BY <1>1, <1>2, <2>1, <2>2, <2>3 DEF Going, At
<1>6. SessionInv' /\ LeftOver'
  BY <1>1, <1>4, <1>5 DEF OtaInv, SessionInv, LeftOver
<1>7. Finished' = Finished
  BY <1>1 DEF Finished, Active, FlashOrder
<1>8. Settled' /\ FinishedHoldImage' /\ SoundInv'
  BY <1>1, <1>7, KeepsPanels DEF OtaInv
<1>9. CutInv'
  <2>1. ~Stalled
    BY <1>2 DEF Going, Stalled
  <2> QED
    BY <1>1, <2>1 DEF OtaInv, CutInv
<1> QED
  BY <1>6, <1>8, <1>9 DEF Rest

LEMMA LastChunkKeeps ==
    ASSUME OtaInv, TypeInv', state = "FLASHING", up # <<>>, Head(up).type = "ACK",
           AcceptsAck(Head(up)), LastChunk, ChunkWritten,
           UNCHANGED <<listed, panelIdx, image, panelVars, campaigns>>
    PROVE  Rest'
<1>1. /\ UNCHANGED <<mode, joined, flash, pageStart, pageBuf, pageDirty, cut>>
      /\ state' = "NEXT_PANEL" /\ Target' = Target /\ Session /\ ~Session'
  BY DEF ChunkWritten, panelVars, bootVars, Target, FlashOrder, Session
<1>2. Going /\ Reached(Target) = Now /\ Target \in Panels
  BY Taken
<1>3. pageStart[Target] = Pages - 1 /\ ~pageDirty[Target] /\ Now = 2 * Pages - 1
  <2>1. /\ pageStart[Target] \in Nat /\ pageDirty[Target] \in BOOLEAN
        /\ Pages \in Nat /\ pageStart[Target] < Pages
    BY <1>2, Taken DEF Going
  <2>2. Now = 2 * Pages - 1
    BY <2>1 DEF LastChunk, Now
  <2>3. CASE pageDirty[Target]
    BY <1>2, <2>1, <2>2, <2>3 DEF Reached
  <2>4. CASE ~pageDirty[Target]
    BY <1>2, <2>1, <2>2, <2>4 DEF Reached
  <2> QED
    BY <2>2, <2>3, <2>4
<1>4. ASSUME NEW a \in Address PROVE flash[Target][a] = image
  <2>1. a[1] < Pages - 1 \/ a[1] = Pages - 1
    BY Addresses, Addressed
  <2> QED
    BY <1>2, <1>3, <2>1 DEF Going
<1>5. NoNewChunk
  <2> DEFINE f == Frame("START", Target, NoAddr, Old)
  <2>1. f \in Requests
    BY <1>2, Addressed, Framed DEF Data
  <2>2. f.type # "CHUNK" /\ (down' = down \/ down' = Append(down, f))
    BY DEF Frame, ChunkWritten
  <2> HIDE DEF f
  <2> QED
    BY <2>1, <2>2, OtherFrame DEF OtaInv, TypeInv
<1>6. ASSUME NEW j \in DOMAIN down, down[j].type = "CHUNK" PROVE Repeats(down[j])
  <2>1. down[j] \in Requests /\ down[j].panel = Target /\ down[j].data = image
        /\ At(down[j].addr) <= Now /\ Reached(Target) <= At(down[j].addr)
    BY <1>1, <1>2, <1>6 DEF OtaInv, TypeInv, WireType, SessionInv, SessionDown, Going
  <2>2. down[j].addr \in Address
    BY <2>1 DEF Requests
  <2>3. At(down[j].addr) = 2 * Pages - 1
    BY <1>2, <1>3, <2>1, <2>2, Addresses, Addressed
  <2>4. down[j].addr = Last
    BY <2>2, <2>3, Addresses
  <2>5. ~joined[Target]
    BY <1>1 DEF OtaInv, SessionInv
  <2>6. pageBuf[Target] = [c \in Chunk |-> image]
    <3>1. pageBuf[Target] \in [Chunk -> Data] /\ pageBuf[Target][0] = image
          /\ pageBuf[Target][1] = image
      BY <1>2, <1>3 DEF Going, OtaInv, TypeInv, PanelType
    <3>2. \A c \in Chunk : c = 0 \/ c = 1
      BY DEF Chunk
    <3> QED
      BY <3>1, <3>2
  <2> QED
    BY <1>3, <1>4, <2>1, <2>4, <2>5, <2>6 DEF Repeats
<1>7. LeftOver'
  <2> SUFFICES ASSUME NEW i \in DOMAIN down', down'[i].type = "CHUNK"
               PROVE  Repeats(down[i])'
    BY DEF LeftOver
  <2>1. PICK j \in DOMAIN down : /\ down[j].type = "CHUNK" /\ down'[i].panel = down[j].panel
                                 /\ down'[i].addr = down[j].addr /\ down'[i].data = down[j].data
    BY <1>5 DEF NoNewChunk
  <2> QED
    BY <1>1, <1>6, <2>1 DEF Repeats
<1>8. \A p \in Finished' : p \in Finished \/ p = Target
  <2> DEFINE m == panelIdx' - (IF state' = "NEXT_PANEL" THEN 0 ELSE 1)
             n == panelIdx - (IF state = "NEXT_PANEL" THEN 0 ELSE 1)
  <2>1. Finished' = {FlashOrder(i)' : i \in 0 .. m} /\ Finished = {FlashOrder(i) : i \in 0 .. n}
    BY <1>1 DEF Finished, Active
  <2>2. panelIdx \in Nat /\ m = panelIdx /\ n = panelIdx - 1
    BY <1>1 DEF OtaInv, TypeInv, FlasherType
  <2>3. \A i : FlashOrder(i)' = FlashOrder(i)
    BY DEF FlashOrder
  <2> HIDE DEF m, n
  <2>4. \A i \in 0 .. m : i \in 0 .. n \/ i = panelIdx
    BY <2>2
  <2> QED
    BY <2>1, <2>3, <2>4 DEF Target
<1>9. Settled' /\ FinishedHoldImage'
  BY <1>1, <1>3, <1>4, <1>8 DEF OtaInv, Settled, FinishedHoldImage
<1>10. SoundInv'
  <2>1. Sound(Target)
    BY <1>4 DEF Sound, OtaInv, TypeInv, FlasherType
  <2>2. \A p \in Panels : p \in cut \/ (Sound(p) /\ ~pageDirty[p])
    BY <1>3, <2>1 DEF OtaInv, SoundInv, UnderWay
  <2>3. \A p \in Panels : Sound(p) => Sound(p)'
    BY <1>1 DEF Sound
  <2> QED
    BY <1>1, <2>2, <2>3 DEF SoundInv, UnderWay
<1>11. CutInv'
  <2>1. ~Stalled
    BY <1>2 DEF Going, Stalled
  <2> QED
    BY <1>1, <2>1 DEF OtaInv, CutInv
<1> QED
  BY <1>1, <1>7, <1>9, <1>10, <1>11 DEF Rest, SessionInv

LEMMA ReceiveKeeps == OtaInv /\ Receive /\ TypeInv' => Rest'
<1> SUFFICES ASSUME OtaInv, Receive, TypeInv' PROVE Rest'
  OBVIOUS
<1>1. Session /\ up # <<>> /\ Fewer(up', up) /\ Fewer(down, down)
  BY Shorter, Kept DEF Receive, Session, OtaInv, TypeInv, FlasherType, WireType
<1>2. UNCHANGED <<listed, panelIdx, image, panelVars, campaigns>>
  BY DEF Receive
<1>3. CASE UNCHANGED <<state, currentPage, chunk, tries, awaiting, down, cut>>
  BY <1>1, <1>2, <1>3, GoesOnWithLess DEF SameTarget, Session, panelVars, bootVars
<1>4. CASE state = "WAIT_BL" /\ Connected
  BY <1>1, <1>2, <1>4, ConnectedKeeps
<1>5. CASE awaiting' = FALSE /\ AttemptFails /\ UNCHANGED <<currentPage, chunk, down>>
  BY <1>1, <1>2, <1>5, AttemptFailed
<1>6. CASE state = "FLASHING" /\ Head(up).type = "ACK" /\ AcceptsAck(Head(up)) /\ ChunkWritten
  BY <1>1, <1>2, <1>6, NextChunkKeeps, LastChunkKeeps
<1> QED
  BY <1>3, <1>4, <1>5, <1>6 DEF Receive

-----------------------------------------------------------------------------
(* The panels and the wires.                                                *)

\* Between sessions, one panel handles what is left on the wire or boots its application.
LEMMA BetweenSessions ==
    ASSUME OtaInv, ~Session, UNCHANGED <<flasherVars, campaigns, cut>>, NoNewChunk, NEW p \in Panels,
           TypeInv',
           \A q \in Panels \ {p} :
                 /\ mode'[q] = mode[q] /\ joined'[q] = joined[q] /\ flash'[q] = flash[q]
                 /\ pageDirty'[q] = pageDirty[q]
                 /\ pageStart'[q] = pageStart[q] /\ pageBuf'[q] = pageBuf[q],
           KeptFlash(p) \/ (p \in cut /\ p \notin Finished),
           \A g \in Requests : g.panel = p /\ Repeats(g) => Repeats(g)' \/ (p \in cut /\ p \notin Finished)
    PROVE  Rest'
<1>1. UNCHANGED <<state, listed, panelIdx, image, tries, awaiting>> /\ ~Session'
  BY DEF flasherVars, Session
<1>2. Finished' = Finished
  BY <1>1 DEF Finished, Active, FlashOrder
<1>3. LeftOver'
  <2> SUFFICES ASSUME NEW i \in DOMAIN down', down'[i].type = "CHUNK"
               PROVE  Repeats(down[i])' \/ (down'[i].panel \in cut' /\ down'[i].panel \notin Finished')
    BY DEF LeftOver
  <2>1. PICK j \in DOMAIN down : /\ down[j].type = "CHUNK" /\ down'[i].panel = down[j].panel
                                 /\ down'[i].addr = down[j].addr /\ down'[i].data = down[j].data
    BY DEF NoNewChunk
  <2>2. PICK g \in Requests : g = down'[i]
    BY DEF TypeInv, WireType
  <2>3. Repeats(down[j]) \/ (down[j].panel \in cut /\ down[j].panel \notin Finished)
    BY <2>1 DEF OtaInv, LeftOver
  <2>4. Repeats(down[j]) => Repeats(g)
    BY <2>1, <2>2 DEF Repeats
  <2>5. CASE g.panel = p /\ Repeats(g)
    <3>1. Repeats(g)' \/ (p \in cut /\ p \notin Finished)
      BY <2>5
    <3>2. Repeats(g)' => Repeats(down[i])'
      BY <2>2 DEF Repeats
    <3> QED
      BY <1>2, <2>2, <2>5, <3>1, <3>2
  <2>6. CASE g.panel # p /\ Repeats(g)
    <3>1. g.panel \in Panels \ {p}
      BY <2>6 DEF Requests
    <3>2. Repeats(down[i])'
      BY <2>2, <2>6, <3>1 DEF Repeats
    <3> QED
      BY <3>2
  <2>7. CASE ~Repeats(g)
    BY <1>2, <2>1, <2>2, <2>3, <2>4, <2>7
  <2> QED
    BY <2>5, <2>6, <2>7
<1>4. \A q \in Panels : KeptFlash(q) \/ (UnderWay(q) /\ q \notin Finished)
  BY DEF KeptFlash, UnderWay
<1>5. Settled' /\ FinishedHoldImage' /\ SoundInv'
  BY <1>1, <1>4, KeepsOthers DEF OtaInv, TypeInv
<1>6. CutInv'
  <2>1. Cardinality(cut) < campaigns
        \/ /\ Cardinality(cut) <= campaigns /\ state \in {"IDLE", "ERROR"}
           /\ \A i \in DOMAIN down : down[i].type = "CHUNK" => down[i].panel \in cut
    BY DEF OtaInv, CutInv, Session
  <2>2. (\A i \in DOMAIN down : down[i].type = "CHUNK" => down[i].panel \in cut)
          => \A i \in DOMAIN down' : down'[i].type = "CHUNK" => down'[i].panel \in cut
    BY DEF NoNewChunk
  <2> QED
    BY <1>1, <2>1, <2>2 DEF CutInv
<1> QED
  BY <1>1, <1>3, <1>5, <1>6 DEF Rest, SessionInv

\* commitPage() on the way to the application touches no panel that is done or whole.
LEMMA LeavesKept ==
    ASSUME OtaInv, NEW p \in Panels, LeavesBootloader(p)
    PROVE  /\ \A q \in Panels : KeptFlash(q) \/ (UnderWay(q) /\ q \notin Finished)
           /\ \A g \in Requests : g.panel = p /\ Repeats(g) => Repeats(g)'
<1>1. ~pageDirty[p] \/ (UnderWay(p) /\ p \notin Finished)
  BY DEF OtaInv, SoundInv, Settled
<1>2. /\ mode'[p] = "app" /\ ~pageDirty'[p] /\ (~pageDirty[p] => flash'[p] = flash[p])
      /\ \A q \in Panels \ {p} : flash'[q] = flash[q] /\ pageDirty'[q] = pageDirty[q]
      /\ UNCHANGED <<joined, pageStart, pageBuf>>
  BY Leaves DEF OtaInv, TypeInv
<1>3. \A q \in Panels : KeptFlash(q) \/ (UnderWay(q) /\ q \notin Finished)
  BY <1>1, <1>2 DEF KeptFlash
<1>4. \A g \in Requests : g.panel = p /\ Repeats(g) => Repeats(g)'
  BY <1>2 DEF Repeats
<1> QED
  BY <1>3, <1>4

\* Only the idle count changes, or nothing.
SamePanels == UNCHANGED <<mode, joined, flash, pageStart, pageBuf, pageDirty>>

LEMMA NothingDone ==
    ASSUME OtaInv, TypeInv', UNCHANGED <<flasherVars, campaigns, cut>>, SamePanels,
           Fewer(down', down), NoNewAck, Session /\ state = "WAIT_BL" => Waits'
    PROVE  Rest'
<1>1. CASE Session
  <2>1. Session' /\ SameTarget
    BY <1>1 DEF flasherVars, Session, SameTarget, SamePanels
  <2>2. \A q \in Panels : KeptFlash(q)
    BY DEF KeptFlash, SamePanels
  <2> QED
    BY <1>1, <2>1, <2>2, GoesOn
<1>2. CASE ~Session
  <2>1. NoNewChunk
    BY FewerChunks
  <2>2. \A q \in Panels : KeptFlash(q)
    BY DEF KeptFlash, SamePanels
  <2>3. \A g \in Requests : Repeats(g) => Repeats(g)'
    BY DEF Repeats, SamePanels
  <2>4. CASE Panels = {}
    <3>1. Finished = {} /\ Finished' = {}
      <4>1. Finished = {}
        BY <2>4, FinishedPanels DEF OtaInv, TypeInv
      <4>2. Finished' = Finished
        BY DEF flasherVars, Finished, Active, FlashOrder
      <4> QED
        BY <4>1, <4>2
    <3>2. \A i \in DOMAIN down' : down'[i] \in Requests
      BY DEF TypeInv, WireType
    <3>3. DOMAIN down' = {}
      BY <2>4, <3>2 DEF Requests
    <3>4. LeftOver' /\ Settled' /\ FinishedHoldImage' /\ SoundInv'
      BY <2>4, <3>1, <3>3 DEF LeftOver, Settled, FinishedHoldImage, SoundInv
    <3>5. ~Session' /\ state' = state /\ state # "FLASHING"
      BY <1>2 DEF flasherVars, Session
    <3>6. CutInv'
      BY <3>3, <3>5 DEF OtaInv, CutInv
    <3> QED
      BY <3>4, <3>5, <3>6 DEF Rest, SessionInv
  <2>5. ASSUME NEW p \in Panels PROVE Rest'
    BY <1>2, <2>1, <2>2, <2>3, BetweenSessions DEF SamePanels
  <2> QED
    BY <2>4, <2>5
<1> QED
  BY <1>1, <1>2

LEMMA WiresKeep == OtaInv /\ (LoseRequest \/ LoseAnswer \/ Damage) /\ TypeInv' => Rest'
<1> SUFFICES ASSUME OtaInv, LoseRequest \/ LoseAnswer \/ Damage, TypeInv' PROVE Rest'
  OBVIOUS
<1>1. UNCHANGED <<flasherVars, panelVars, campaigns, cut>>
  BY DEF LoseRequest, LoseAnswer, Damage
<1>2. Fewer(down', down) /\ Fewer(up', up)
  BY Faulted DEF OtaInv
<1>3. SamePanels /\ Target' = Target
  BY <1>1 DEF SamePanels, panelVars, bootVars, flasherVars, Target, FlashOrder
<1>4. Session /\ state = "WAIT_BL" => Waits'
  BY <1>2, <1>3, KeepsWaiting DEF OtaInv, SessionInv, SamePanels
<1> QED
  BY <1>1, <1>2, <1>3, <1>4, NothingDone, FewerAnswers

LEMMA ClockKeeps ==
    ASSUME OtaInv, NEW p \in Panels, Traffic(p) \/ IdleTick(p), TypeInv' PROVE Rest'
<1>1. /\ UNCHANGED <<flasherVars, down, up, campaigns, cut>>
      /\ Fewer(down', down) /\ Fewer(up', up)
  BY Kept DEF Traffic, IdleTick, OtaInv, TypeInv, WireType
<1>2. Target' = Target
  BY <1>1 DEF flasherVars, Target, FlashOrder
<1>3. CASE SamePanels
  <2>1. Session /\ state = "WAIT_BL" => Waits'
    BY <1>1, <1>2, <1>3, KeepsWaiting DEF OtaInv, SessionInv, SamePanels
  <2> QED
    BY <1>1, <1>3, <2>1, NothingDone, FewerAnswers
<1>4. CASE LeavesBootloader(p) /\ ~Attended(p)
  <2>1. /\ \A q \in Panels \ {p} : /\ mode'[q] = mode[q] /\ flash'[q] = flash[q]
                                   /\ pageDirty'[q] = pageDirty[q]
        /\ UNCHANGED <<joined, pageStart, pageBuf>>
    BY <1>4, Leaves DEF OtaInv, TypeInv
  <2>2. \A q \in Panels : KeptFlash(q) \/ (UnderWay(q) /\ q \notin Finished)
    BY <1>4, LeavesKept
  <2>3. CASE Session
    <3>1. Session' /\ Active /\ state # "NEXT_PANEL"
      BY <1>1, <2>3 DEF flasherVars, Session, Active
    <3>2. Target \in Panels \ {p}
      BY <1>4, <3>1, AtTarget DEF Attended, OtaInv, TypeInv
    <3>3. SameTarget
      BY <1>1, <2>1, <3>2 DEF SameTarget, flasherVars
    <3>4. state = "WAIT_BL" => Waits'
      BY <1>1, <1>2, <2>3, <3>3, KeepsWaiting DEF OtaInv, SessionInv, SameTarget
    <3> QED
      BY <1>1, <2>2, <2>3, <3>1, <3>3, <3>4, GoesOn, FewerAnswers
  <2>4. CASE ~Session
    <3>1. KeptFlash(p) \/ (p \in cut /\ p \notin Finished)
      BY <2>2, <2>4 DEF UnderWay, Session
    <3>2. NoNewChunk
      BY <1>1, FewerChunks
    <3>3. \A g \in Requests : g.panel = p /\ Repeats(g) => Repeats(g)'
      BY <1>4, LeavesKept
    <3> QED
      BY <1>1, <2>1, <2>4, <3>1, <3>2, <3>3, BetweenSessions
  <2> QED
    BY <2>3, <2>4
<1> QED
  BY <1>3, <1>4 DEF Traffic, IdleTick, SamePanels

-----------------------------------------------------------------------------
(* A chunk arrives at a bootloader.                                         *)

\* In a session the panel has all chunks up to this one then.
LEMMA ChunkGoing ==
    ASSUME OtaInv, state = "FLASHING", Fresh \/ Going, NEW f \in Requests, f.panel = Target,
           f.data = image, At(f.addr) <= Now, Going => Reached(Target) <= At(f.addr),
           WritesChunk(Target, f), UNCHANGED <<flasherVars, mode, joined>>,
           idleTicks' \in [Panels -> Nat],
           \A i \in DOMAIN down' : down'[i].type = "CHUNK" => At(f.addr) <= At(down'[i].addr),
           \A i \in DOMAIN up' : Accepted(up'[i]) =>
                 \/ up'[i].addr = f.addr
                 \/ \E j \in DOMAIN up : Accepted(up[j]) /\ up'[i].addr = up[j].addr
    PROVE  Going'
<1> DEFINE T == Target
           page == f.addr[1]
           c == f.addr[2]
<1>1. T \in Panels /\ f.addr \in Address /\ mode[T] = "boot"
  BY AtTarget DEF OtaInv, TypeInv, Active, Requests, Fresh, Going
<1>2. page \in 0 .. Pages - 1 /\ c \in {0, 1} /\ At(f.addr) = 2 * page + c /\ Pages \in Nat
  BY <1>1, Addresses, Addressed DEF At
<1>3. /\ pageStart'[T] = page /\ pageDirty'[T] = (c # 1) /\ pageBuf'[T][c] = image
      /\ \A d \in Chunk : d # c /\ pageStart[T] = page => pageBuf'[T][d] = pageBuf[T][d]
      /\ \A a \in Address : c = 1 /\ a[1] = page => flash'[T][a] = pageBuf'[T][a[2]]
      /\ \A a \in Address : ~(c = 1 /\ a[1] = page) /\ (pageStart[T] = page \/ ~pageDirty[T]
                                                         \/ a[1] # pageStart[T])
            => flash'[T][a] = flash[T][a]
  BY <1>1, Writes DEF OtaInv, TypeInv
<1>4. Target' = T /\ Now' = Now /\ image' = image /\ Now \in Nat
  <2>1. currentPage \in Nat /\ chunk \in Nat
    BY Addressed DEF OtaInv, TypeInv, FlasherType, Chunk
  <2> QED
    BY <2>1 DEF flasherVars, Target, FlashOrder, Now
<1>5. Reached(T)' = At(f.addr)
  <2>1. CASE c = 1
    BY <1>2, <1>3, <1>4, <2>1 DEF Reached
  <2>2. CASE c = 0
    BY <1>2, <1>3, <1>4, <2>2 DEF Reached
  <2> QED
    BY <1>2, <2>1, <2>2
<1>6. Going => /\ pageStart[T] \in Nat /\ Reached(T) <= At(f.addr) /\ At(f.addr) <= Reached(T) + 1
               /\ (pageDirty[T] => Reached(T) = 2 * pageStart[T])
               /\ (~pageDirty[T] => Reached(T) = 2 * pageStart[T] + 1)
  <2> SUFFICES ASSUME Going
               PROVE  /\ pageStart[T] \in Nat /\ Reached(T) <= At(f.addr)
                      /\ At(f.addr) <= Reached(T) + 1
                      /\ (pageDirty[T] => Reached(T) = 2 * pageStart[T])
                      /\ (~pageDirty[T] => Reached(T) = 2 * pageStart[T] + 1)
    OBVIOUS
  <2>1. pageStart[T] \in Nat
    BY <1>1, <1>2 DEF OtaInv, TypeInv, PanelType
  <2>2. pageDirty[T] => Reached(T) = 2 * pageStart[T]
    BY <2>1 DEF Reached
  <2>3. ~pageDirty[T] => Reached(T) = 2 * pageStart[T] + 1
    BY <2>1 DEF Reached
  <2>4. Reached(T) \in Nat
    BY <2>1, <2>2, <2>3
  <2>5. Now - 1 <= Reached(T)
    BY DEF Going
  <2> HIDE DEF page, c
  <2> QED
    BY <1>2, <1>4, <2>1, <2>2, <2>3, <2>4, <2>5
<1>7. Fresh => page = 0 /\ c = 0
  BY <1>2 DEF Fresh
\* A page is gone over again, filled, or begun; only a whole one is left behind.
<1>8. Going => \/ page = pageStart[T] /\ c = 1
               \/ page = pageStart[T] /\ c = 0 /\ pageDirty[T]
               \/ page = pageStart[T] + 1 /\ c = 0 /\ ~pageDirty[T]
  <2> SUFFICES ASSUME Going
               PROVE  \/ page = pageStart[T] /\ c = 1
                      \/ page = pageStart[T] /\ c = 0 /\ pageDirty[T]
                      \/ page = pageStart[T] + 1 /\ c = 0 /\ ~pageDirty[T]
    OBVIOUS
  <2> HIDE DEF page, c, T
  <2>1. CASE pageDirty[T]
    BY <1>2, <1>6, <2>1
  <2>2. CASE ~pageDirty[T]
    BY <1>2, <1>6, <2>2
  <2> QED
    BY <2>1, <2>2
<1>9. pageBuf'[T][0] = image /\ (c = 1 => pageBuf'[T][1] = image)
  <2>1. 0 \in Chunk /\ 1 \in Chunk
    BY DEF Chunk
  <2>2. CASE c = 0
    BY <1>3, <2>2
  <2>3. CASE c = 1
    <3>1. Going /\ page = pageStart[T]
      BY <1>7, <1>8, <2>3
    <3>2. pageBuf'[T][0] = pageBuf[T][0] /\ pageBuf[T][0] = image
      BY <1>3, <2>1, <2>3, <3>1 DEF Going
    <3> QED
      BY <1>3, <2>3, <3>2
  <2> QED
    BY <1>2, <2>2, <2>3
<1>10. ASSUME NEW a \in Address, a[1] < page \/ (a[1] = page /\ c = 1) PROVE flash'[T][a] = image
  <2>1. a[1] \in Nat /\ a[2] \in {0, 1}
    BY <1>2, Addresses
  <2>2. CASE a[1] = page /\ c = 1
    BY <1>3, <1>9, <2>1, <2>2
  <2>3. CASE a[1] < page
    <3>1. Going
      BY <1>2, <1>7, <2>1, <2>3
    <3>2. CASE page = pageStart[T]
      <4>1. flash'[T][a] = flash[T][a]
        BY <1>2, <1>3, <2>1, <2>3, <3>2
      <4> QED
        BY <2>3, <3>1, <3>2, <4>1 DEF Going
    <3>3. CASE page = pageStart[T] + 1 /\ c = 0 /\ ~pageDirty[T]
      <4>1. flash'[T][a] = flash[T][a]
        BY <1>3, <3>3
      <4>2. a[1] < pageStart[T] \/ a[1] = pageStart[T]
        BY <1>6, <2>1, <2>3, <3>1, <3>3
      <4> QED
        BY <3>1, <3>3, <4>1, <4>2 DEF Going
    <3> QED
      BY <1>8, <3>1, <3>2, <3>3
  <2> QED
    BY <1>10, <2>2, <2>3
<1>11. ASSUME NEW i \in DOMAIN up', Accepted(up'[i]) PROVE At(up'[i].addr) <= At(f.addr)
  <2>1. CASE up'[i].addr = f.addr
    BY <1>2, <2>1
  <2>2. CASE \E j \in DOMAIN up : Accepted(up[j]) /\ up'[i].addr = up[j].addr
    <3>1. PICK j \in DOMAIN up : Accepted(up[j]) /\ up'[i].addr = up[j].addr
      BY <2>2
    <3>2. Going /\ At(up'[i].addr) <= Reached(T)
      BY <3>1 DEF Fresh, Going
    <3>3. up[j] \in Answers
      BY DEF OtaInv, TypeInv, WireType
    <3>4. At(up[j].addr) \in Nat
      BY <3>3, Addresses DEF Answers
    <3>5. Reached(T) \in Nat
      <4>1. pageDirty[T] \/ ~pageDirty[T]
        OBVIOUS
      <4> QED
        BY <1>6, <3>2, <4>1
    <3> HIDE DEF T, page, c
    <3> QED
      BY <1>2, <1>6, <3>1, <3>2, <3>4, <3>5
  <2> QED
    BY <1>11, <2>1, <2>2
<1>12. At(f.addr) <= Now /\ Now - 1 <= At(f.addr)
  <2>1. CASE Fresh
    BY <1>2, <1>7, <2>1 DEF Fresh
  <2>2. CASE Going
    <3>1. Now - 1 <= Reached(T) /\ Reached(T) \in Int
      <4>1. pageDirty[T] \/ ~pageDirty[T]
        OBVIOUS
      <4> QED
        BY <1>6, <2>2, <4>1 DEF Going
    <3> HIDE DEF T, page, c
    <3> QED
      BY <1>2, <1>4, <1>6, <2>2, <3>1
  <2> QED
    BY <2>1, <2>2
<1>13. pageStart'[T] < Pages /\ (~pageDirty'[T] => c = 1)
  <2> HIDE DEF T, page, c
  <2>1. page < Pages
    BY <1>2
  <2>2. pageDirty'[T] = (c # 1)
    BY <1>3
  <2>3. ~pageDirty'[T] => c = 1
    BY <2>2, Zenon
  <2> QED
    BY <1>3, <2>1, <2>3
<1>14. \A a \in Address : a[1] < pageStart'[T] \/ (a[1] = pageStart'[T] /\ ~pageDirty'[T])
          => flash'[T][a] = image
  BY <1>3, <1>10, <1>13
<1>15. mode'[T] = "boot"
  BY <1>1
<1>16. Reached(Target)' = At(f.addr) /\ Target' = Target /\ (~pageDirty'[T] => pageBuf'[T][1] = image)
  BY <1>4, <1>5, <1>9, <1>13
<1> HIDE DEF page, c, Target, Reached, Now, Accepted
<1> QED
  BY <1>4, <1>9, <1>11, <1>12, <1>13, <1>14, <1>15, <1>16 DEF Going, At

LEMMA SessionChunkKeeps ==
    ASSUME OtaInv, TypeInv', Session, PanelReceive, Head(down).type = "CHUNK", Head(down).ok,
           BootReceives(Head(down).panel, Head(down))
    PROVE  Rest'
<1>1. PICK f \in Requests : f = Head(down) /\ f = down[1] /\ 1 \in DOMAIN down
  BY Oldest DEF PanelReceive, OtaInv, TypeInv, WireType
<1>2. /\ down' = Tail(down) /\ UNCHANGED <<flasherVars, campaigns, cut>>
      /\ BootReceives(f.panel, f) /\ f.type = "CHUNK" /\ f.ok
  BY <1>1 DEF PanelReceive
<1>3. /\ f.panel = Target /\ state = "FLASHING" /\ f.data = image /\ At(f.addr) <= Now
      /\ ~joined[Target]
  BY <1>1, <1>2 DEF OtaInv, SessionInv, SessionDown
<1>4. WritesChunk(Target, f) /\ Answer("ACK", Target, f, TRUE) /\ UNCHANGED <<mode, joined>>
      /\ mode[Target] = "boot"
  BY <1>2, <1>3 DEF BootReceives
<1>5. Fresh \/ Going
  BY <1>3, <1>4 DEF OtaInv, SessionInv, Session, Stalled
<1>6. Going => Reached(Target) <= At(f.addr)
  BY <1>1, <1>2 DEF Going
<1>7. ASSUME NEW i \in DOMAIN down', down'[i].type = "CHUNK"
      PROVE  At(f.addr) <= At(down'[i].addr)
  <2>1. i + 1 \in DOMAIN down /\ down'[i] = down[i + 1] /\ 1 < i + 1
    <3>1. down # <<>> /\ down \in Seq(Requests)
      BY DEF PanelReceive, OtaInv, TypeInv, WireType
    <3>2. i + 1 \in DOMAIN down /\ down'[i] = down[i + 1] /\ i \in 1 .. Len(down) - 1
      BY <1>2, <3>1, Oldest
    <3> QED
      BY <3>1, <3>2
  <2> QED
    BY <1>1, <1>2, <1>7, <2>1 DEF OtaInv, SessionInv, SessionDown
<1>8. ASSUME NEW i \in DOMAIN up', Accepted(up'[i])
      PROVE  \/ up'[i].addr = f.addr
             \/ \E j \in DOMAIN up : Accepted(up[j]) /\ up'[i].addr = up[j].addr
  <2>1. Target \in Panels
    BY <1>1, <1>3 DEF Requests
  <2>2. (i \in DOMAIN up /\ up'[i] = up[i]) \/ up'[i].addr = f.addr
    BY <1>4, <2>1, Answered DEF OtaInv, TypeInv
  <2> QED
    BY <1>8, <2>2 DEF Accepted
<1>9. Going'
  BY <1>2, <1>3, <1>4, <1>5, <1>6, <1>7, <1>8, ChunkGoing DEF TypeInv, PanelType
<1>10. UNCHANGED <<state, listed, panelIdx, image, currentPage, chunk>> /\ Target' = Target
  BY <1>2 DEF flasherVars, Target, FlashOrder
<1>11. SessionDown'
  <2>1. Fewer(down', down)
    BY <1>2, Shorter DEF PanelReceive, OtaInv, TypeInv, WireType
  <2> QED
    BY <1>10, <2>1, KeepsDown DEF OtaInv, SessionInv
<1>12. SessionInv' /\ LeftOver'
  BY <1>3, <1>4, <1>9, <1>10, <1>11 DEF SessionInv, LeftOver, Session
<1>13. ASSUME NEW q \in Panels PROVE KeptFlash(q) \/ (UnderWay(q) /\ q \notin Finished)
  <2>1. CASE q = Target
    BY <1>3, <2>1, AtTarget DEF UnderWay, Active, OtaInv, TypeInv
  <2>2. CASE q # Target
    <3>1. Target \in Panels /\ idleTicks' \in [Panels -> Nat]
      BY <1>1, <1>3 DEF Requests, TypeInv, PanelType
    <3> QED
      BY <1>1, <1>4, <2>2, <3>1, Writes DEF KeptFlash, OtaInv, TypeInv
  <2> QED
    BY <2>1, <2>2
<1>14. Settled' /\ FinishedHoldImage' /\ SoundInv'
  BY <1>2, <1>10, <1>13, KeepsOthers DEF OtaInv, TypeInv
<1>15. CutInv'
  <2>1. ~Stalled
    BY <1>4 DEF Stalled
  <2> QED
    BY <1>2, <1>3, <2>1 DEF OtaInv, CutInv
<1> QED
  BY <1>12, <1>14, <1>15 DEF Rest

\* A chunk that comes again after its panel is done finds everything as it is to be.
LEMMA Rewrites ==
    ASSUME PanelType, NEW f \in Requests, Repeats(f), mode[f.panel] = "boot", PanelType',
           WritesChunk(f.panel, f), UNCHANGED <<mode, joined>>, idleTicks' \in [Panels -> Nat]
    PROVE  SamePanels
<1> DEFINE p == f.panel
<1>1. p \in Panels /\ f.addr = Last /\ f.addr[1] = Pages - 1 /\ f.addr[2] = 1
  BY DEF Requests, Repeats, Last
<1>2. /\ ~pageDirty[p] /\ pageStart[p] = Pages - 1 /\ \A a \in Address : flash[p][a] = f.data
      /\ \A c \in Chunk : pageBuf[p][c] = f.data
  BY DEF Repeats
<1>3. /\ pageStart'[p] = Pages - 1 /\ pageDirty'[p] = (f.addr[2] # 1) /\ pageBuf'[p][1] = f.data
      /\ \A d \in Chunk : d # 1 => pageBuf'[p][d] = pageBuf[p][d]
      /\ \A a \in Address : a[1] = Pages - 1 => flash'[p][a] = pageBuf'[p][a[2]]
      /\ \A a \in Address : a[1] # Pages - 1 => flash'[p][a] = flash[p][a]
      /\ \A q \in Panels \ {p} :
            /\ flash'[q] = flash[q] /\ pageDirty'[q] = pageDirty[q]
            /\ pageStart'[q] = pageStart[q] /\ pageBuf'[q] = pageBuf[q]
  BY <1>1, <1>2, Writes
<1>4. pageDirty'[p] = FALSE /\ pageDirty[p] = FALSE
  <2>1. pageDirty[p] \in BOOLEAN
    BY <1>1 DEF PanelType
  <2> QED
    BY <1>1, <1>2, <1>3, <2>1
<1>5. \A c \in Chunk : pageBuf'[p][c] = f.data
  BY <1>2, <1>3
<1>6. \A a \in Address : flash'[p][a] = flash[p][a]
  <2>1. \A a \in Address : a[2] \in Chunk
    BY Addresses DEF Chunk
  <2> QED
    BY <1>2, <1>3, <1>5, <2>1
<1>7. flash'[p] = flash[p]
  BY <1>1, <1>6 DEF PanelType
<1>8. pageBuf'[p] = pageBuf[p]
  BY <1>1, <1>2, <1>5 DEF PanelType
<1> HIDE DEF p
<1>9. \A q \in Panels : /\ flash'[q] = flash[q] /\ pageDirty'[q] = pageDirty[q]
                        /\ pageStart'[q] = pageStart[q] /\ pageBuf'[q] = pageBuf[q]
  BY <1>2, <1>3, <1>4, <1>7, <1>8
<1> QED
  BY <1>9 DEF PanelType, SamePanels

LEMMA BetweenChunkKeeps ==
    ASSUME OtaInv, TypeInv', ~Session, PanelReceive, Head(down).type = "CHUNK", Head(down).ok,
           BootReceives(Head(down).panel, Head(down))
    PROVE  Rest'
<1>1. PICK f \in Requests : f = Head(down) /\ f = down[1] /\ 1 \in DOMAIN down
  BY Oldest DEF PanelReceive, OtaInv, TypeInv, WireType
<1>2. /\ UNCHANGED <<flasherVars, campaigns, cut>> /\ f.type = "CHUNK"
      /\ WritesChunk(f.panel, f) /\ UNCHANGED <<mode, joined>> /\ mode[f.panel] = "boot"
  BY <1>1 DEF PanelReceive, BootReceives
<1>3. f.panel \in Panels /\ idleTicks' \in [Panels -> Nat]
  BY DEF Requests, TypeInv, PanelType
<1>4. NoNewChunk
  BY Shorter, FewerChunks DEF PanelReceive, OtaInv, TypeInv, WireType
<1>5. CASE Repeats(f)
  <2>1. SamePanels
    BY <1>2, <1>3, <1>5, Rewrites DEF OtaInv, TypeInv
  <2>2. KeptFlash(f.panel) /\ \A g \in Requests : Repeats(g) => Repeats(g)'
    BY <2>1 DEF SamePanels, KeptFlash, Repeats
  <2> QED
    BY <1>2, <1>3, <1>4, <2>1, <2>2, BetweenSessions DEF SamePanels
<1>6. CASE f.panel \in cut /\ f.panel \notin Finished
  <2>1. \A q \in Panels \ {f.panel} :
            /\ flash'[q] = flash[q] /\ pageDirty'[q] = pageDirty[q]
            /\ pageStart'[q] = pageStart[q] /\ pageBuf'[q] = pageBuf[q]
    BY <1>2, <1>3, Writes DEF OtaInv, TypeInv
  <2> QED
    BY <1>2, <1>3, <1>4, <1>6, <2>1, BetweenSessions
<1> QED
  BY <1>1, <1>2, <1>5, <1>6 DEF OtaInv, LeftOver

LEMMA PanelReceiveKeeps == OtaInv /\ PanelReceive /\ TypeInv' => Rest'
<1> SUFFICES ASSUME OtaInv, PanelReceive, TypeInv' PROVE Rest'
  OBVIOUS
<1>1. PICK f \in Requests : f = Head(down) /\ f = down[1] /\ 1 \in DOMAIN down
  BY Oldest DEF PanelReceive, OtaInv, TypeInv, WireType
<1>2. /\ UNCHANGED <<flasherVars, campaigns, cut>> /\ f.panel \in Panels
      /\ AppReceives(f.panel, f) \/ BootReceives(f.panel, f)
  BY <1>1 DEF PanelReceive, Requests
<1>3. Fewer(down', down) /\ Fewer(up, up)
  BY Shorter, Kept DEF PanelReceive, OtaInv, TypeInv, WireType
<1>4. Session => /\ f.type = "PING" \/ (f.type = "CHUNK" /\ state = "FLASHING")
                 /\ f.panel = Target
  BY <1>1 DEF OtaInv, SessionInv, SessionDown
<1>5. Target' = Target
  BY <1>2 DEF flasherVars, Target, FlashOrder
<1>6. CASE SamePanels /\ up' = up
  <2>1. Session /\ state = "WAIT_BL" => Waits'
    BY <1>3, <1>5, <1>6, KeepsWaiting DEF OtaInv, SessionInv, SamePanels
  <2> QED
    BY <1>2, <1>3, <1>6, <2>1, NothingDone, FewerAnswers
<1>7. ASSUME NEW type \in {"PONG", "ACK"}, NEW ok \in BOOLEAN, Answer(type, f.panel, f, ok),
             SamePanels, type = "PONG" \/ ~ok, type = "PONG" \/ f.type = "CHUNK",
             mode[f.panel] = "boot"
      PROVE  Rest'
  <2>1. \A i \in DOMAIN up' :
           \/ i \in DOMAIN up /\ up'[i] = up[i]
           \/ up'[i].type = type /\ up'[i].ok = ok /\ up'[i].addr = f.addr
    BY <1>2, <1>7, Answered DEF OtaInv, TypeInv
  <2>2. NoNewAck
    BY <1>7, <2>1 DEF NoNewAck, Accepted
  <2>3. ASSUME Session, state = "WAIT_BL" PROVE Waits'
    <3>1. type = "PONG" /\ f.panel = Target
      BY <1>4, <1>7, <2>3
    <3>2. \A i \in DOMAIN up' : up'[i].type = "PONG"
      BY <2>1, <2>3, <3>1 DEF OtaInv, SessionInv, Waits
    <3> QED
      BY <1>5, <1>7, <3>1, <3>2 DEF Waits, SamePanels
  <2> QED
    BY <1>2, <1>3, <1>7, <2>2, <2>3, NothingDone
<1>8. CASE AppReceives(f.panel, f)
  <2>1. CASE UNCHANGED <<mode, joined, bootVars>>
    BY <1>6, <1>8, <2>1 DEF AppReceives, SamePanels, bootVars
  <2>2. CASE joined[f.panel] /\ f.type = "ENTER" /\ EntersBootloader(f.panel)
    <3>1. ~Session
      BY <1>4, <2>2
    <3>2. /\ UNCHANGED flash /\ ~pageDirty'[f.panel]
          /\ \A q \in Panels \ {f.panel} :
                /\ mode'[q] = mode[q] /\ pageDirty'[q] = pageDirty[q] /\ joined'[q] = joined[q]
                /\ pageStart'[q] = pageStart[q] /\ pageBuf'[q] = pageBuf[q]
      BY <1>2, <1>8, <2>2, Enters DEF AppReceives, OtaInv, TypeInv
    <3>3. KeptFlash(f.panel)
      BY <3>2 DEF KeptFlash
    <3>4. \A g \in Requests : g.panel = f.panel => ~Repeats(g)
      BY <2>2 DEF Repeats
    <3> QED
      BY <1>2, <1>3, <3>1, <3>2, <3>3, <3>4, BetweenSessions, FewerChunks
  <2> QED
    BY <1>8, <2>1, <2>2 DEF AppReceives
<1>9. CASE BootReceives(f.panel, f) /\ f.type = "PING"
  BY <1>7, <1>9 DEF BootReceives, SamePanels
<1>10. CASE BootReceives(f.panel, f) /\ f.type = "CHUNK" /\ f.ok
  BY <1>1, <1>10, SessionChunkKeeps, BetweenChunkKeeps
<1>11. CASE BootReceives(f.panel, f) /\ f.type = "CHUNK" /\ ~f.ok
  BY <1>7, <1>11 DEF BootReceives, SamePanels
<1>12. CASE BootReceives(f.panel, f) /\ f.type = "START"
  <2>1. ~Session /\ LeavesBootloader(f.panel)
    BY <1>4, <1>12 DEF BootReceives
  <2>2. /\ \A q \in Panels \ {f.panel} : /\ mode'[q] = mode[q] /\ flash'[q] = flash[q]
                                         /\ pageDirty'[q] = pageDirty[q]
        /\ UNCHANGED <<joined, pageStart, pageBuf>>
    BY <1>2, <2>1, Leaves DEF OtaInv, TypeInv
  <2>3. /\ KeptFlash(f.panel) \/ (UnderWay(f.panel) /\ f.panel \notin Finished)
        /\ \A g \in Requests : g.panel = f.panel /\ Repeats(g) => Repeats(g)'
    BY <1>2, <2>1, LeavesKept
  <2>4. KeptFlash(f.panel) \/ (f.panel \in cut /\ f.panel \notin Finished)
    BY <2>1, <2>3 DEF UnderWay, Session
  <2> QED
    BY <1>2, <1>3, <2>1, <2>2, <2>3, <2>4, BetweenSessions, FewerChunks
<1>13. CASE BootReceives(f.panel, f) /\ f.type = "ENTER"
  BY <1>6, <1>13 DEF BootReceives, SamePanels
<1> QED
  BY <1>2, <1>8, <1>9, <1>10, <1>11, <1>12, <1>13 DEF BootReceives

\* The bootloader gives up on a controller that is held up: its update is cut short.
LEMMA StallKeeps == OtaInv /\ Stall /\ TypeInv' => Rest'
<1> SUFFICES ASSUME OtaInv, Stall, TypeInv' PROVE Rest'
  OBVIOUS
<1>1. /\ UNCHANGED <<flasherVars, down, up, campaigns>> /\ down = <<>> /\ up = <<>>
      /\ mode[Target] = "boot" /\ LeavesBootloader(Target) /\ Active /\ state # "NEXT_PANEL"
      /\ state \in {"WAIT_BL", "FLASHING"}
  BY DEF Stall, Active
<1>2. Target \in Panels /\ Target \notin Finished
  BY <1>1, AtTarget DEF OtaInv, TypeInv
<1>3. /\ UNCHANGED <<state, listed, panelIdx, image, currentPage, chunk, tries, awaiting>>
      /\ Target' = Target /\ Finished' = Finished /\ Session' = Session
  BY <1>1 DEF flasherVars, Target, FlashOrder, Finished, Active, Session
<1>4. mode'[Target] = "app" /\ joined' = joined
  BY <1>1, <1>2, Leaves DEF OtaInv, TypeInv
<1>5. Stalled'
  BY <1>1, <1>3, <1>4 DEF Stalled
<1>6. SessionInv'
  <2>1. SessionDown' /\ Waits'
    BY <1>1 DEF SessionDown, Waits
  <2>2. state = "FLASHING" => ~joined[Target]
    BY DEF OtaInv, SessionInv, Session
  <2> QED
    BY <1>3, <1>4, <1>5, <2>1, <2>2 DEF SessionInv
<1>7. LeftOver'
  BY <1>1 DEF LeftOver
<1>8. \A q \in Panels : KeptFlash(q) \/ (UnderWay(q) /\ q \notin Finished)
  BY <1>1, <1>2, LeavesKept
<1>9. Settled' /\ FinishedHoldImage'
  <2>1. \A q \in Finished : KeptFlash(q)
    BY <1>8, FinishedPanels DEF OtaInv, TypeInv
  <2> QED
    BY <1>3, <2>1 DEF OtaInv, Settled, FinishedHoldImage, KeptFlash
<1>10. SoundInv'
  <2>1. \A q \in Panels : UnderWay(q) => UnderWay(q)'
    BY <1>3 DEF UnderWay, Stall
  <2>2. \A q \in Panels : KeptFlash(q) /\ Sound(q) => Sound(q)'
    BY DEF Sound, KeptFlash
  <2> QED
    BY <1>8, <2>1, <2>2 DEF OtaInv, SoundInv, KeptFlash
<1>11. CutInv'
  <2>1. Cardinality(cut) < campaigns
    BY <1>1 DEF OtaInv, CutInv, Stalled
  <2>2. CASE state = "FLASHING"
    <3>1. cut' = cut \cup {Target}
      BY <2>2 DEF Stall
    <3>2. Cardinality(cut') <= campaigns'
      BY <1>1, <1>2, <2>1, <3>1, CutCount DEF OtaInv
    <3> QED
      BY <1>3, <1>5, <2>2, <3>1, <3>2 DEF CutInv
  <2>3. CASE state # "FLASHING"
    BY <1>1, <2>1, <2>3 DEF CutInv, Stall
  <2> QED
    BY <2>2, <2>3
<1> QED
  BY <1>6, <1>7, <1>9, <1>10, <1>11 DEF Rest

\* A restart is the end of a campaign, and of an update that was under way.
LEMMA RestartKeeps == OtaInv /\ Restart /\ TypeInv' => Rest'
<1> SUFFICES ASSUME OtaInv, Restart, TypeInv' PROVE Rest'
  OBVIOUS
<1>1. /\ state' = "IDLE" /\ down' = <<>> /\ campaigns' = campaigns
      /\ pageDirty' = [p \in Panels |-> FALSE]
      /\ cut' = cut \cup {p \in Panels : flash'[p] # flash[p]}
                    \cup {p \in Panels : state = "FLASHING" /\ p = Target}
      /\ flash' \in FlashAfterPowerCut
  BY DEF Restart
<1>2. ~Session' /\ Finished' = {}
  BY <1>1 DEF Session, Finished, Active
<1>3. SessionInv' /\ LeftOver' /\ Settled' /\ FinishedHoldImage'
  BY <1>2, <1>1 DEF SessionInv, LeftOver, Settled, FinishedHoldImage
<1>4. SoundInv'
  <2>1. \A p \in Panels : flash'[p] = flash[p] /\ Sound(p) => Sound(p)'
    BY DEF Sound
  <2> QED
    BY <1>1, <2>1 DEF OtaInv, SoundInv, UnderWay
<1>5. CutInv'
  <2>1. ASSUME NEW t \in Panels, cut' \subseteq cut \cup {t}
        PROVE  cut' = cut \/ cut' = cut \cup {t}
    BY <1>1, <2>1
  <2>2. CASE state = "FLASHING"
    <3>1. Target \in Panels
      BY <2>2, AtTarget DEF OtaInv, TypeInv, Active
    <3>2. \A p \in Panels : flash'[p] # flash[p] => p = Target
      <4>1. down # <<>> => down[1].panel = Target
        <5>1. down # <<>> => 1 \in DOMAIN down
          BY DEF OtaInv, TypeInv, WireType
        <5> QED
          BY <2>2, <5>1 DEF OtaInv, SessionInv, Session, SessionDown
      <4> QED
        BY <1>1, <4>1, PowerCut DEF OtaInv
    <3>3. cut' = cut \cup {Target}
      BY <1>1, <2>2, <3>1, <3>2
    <3>4. Cardinality(cut') <= campaigns
      <4>1. CASE Cardinality(cut) < campaigns
        BY <3>1, <3>3, <4>1, CutCount DEF OtaInv
      <4>2. CASE Cardinality(cut) <= campaigns /\ Target \in cut
        BY <3>3, <4>2, CutCount DEF OtaInv
      <4> QED
        BY <2>2, <4>1, <4>2 DEF OtaInv, CutInv
    <3> QED
      BY <1>1, <3>4 DEF CutInv
  <2>3. CASE state # "FLASHING"
    <3>1. cut' = cut \cup {p \in Panels : flash'[p] # flash[p]}
      BY <1>1, <2>3
    <3>2. CASE flash' = flash
      <4>1. cut' = cut
        BY <3>1, <3>2
      <4>2. Cardinality(cut) <= campaigns
        BY CutCount DEF OtaInv, CutInv
      <4>3. Cardinality(cut') <= campaigns'
        BY <1>1, <4>1, <4>2
      <4>4. DOMAIN down' = {}
        BY <1>1
      <4> QED
        BY <1>1, <4>3, <4>4 DEF CutInv
    <3>3. CASE flash' # flash
      <4>1. /\ down # <<>> /\ down[1].type = "CHUNK"
            /\ \A p \in Panels : p # down[1].panel => flash'[p] = flash[p]
        BY <1>1, <3>3, PowerCut DEF OtaInv
      <4>2. 1 \in DOMAIN down /\ down[1] \in Requests
        BY <4>1 DEF OtaInv, TypeInv, WireType
      <4>3. PICK t \in Panels : t = down[1].panel
        BY <4>2 DEF Requests
      <4>4. cut' = cut \/ cut' = cut \cup {t}
        BY <3>1, <4>1, <4>3
      <4>5. Cardinality(cut) < campaigns \/ (Cardinality(cut) <= campaigns /\ t \in cut)
        BY <2>3, <4>1, <4>2, <4>3 DEF OtaInv, CutInv
      <4>6. Cardinality(cut') <= campaigns
        <5>1. Cardinality(cut) \in Nat /\ campaigns \in Nat /\ Cardinality(cut \cup {t}) \in Nat
              /\ Cardinality(cut \cup {t}) <= Cardinality(cut) + 1
              /\ (t \in cut => cut \cup {t} = cut)
          BY CutCount DEF OtaInv
        <5>2. Cardinality(cut) <= campaigns
          BY <4>5, <5>1
        <5>3. CASE cut' = cut
          BY <5>2, <5>3
        <5>4. CASE cut' = cut \cup {t}
          <6>1. CASE t \in cut
            BY <5>1, <5>2, <5>4, <6>1
          <6>2. CASE Cardinality(cut) < campaigns
            BY <5>1, <5>4, <6>2
          <6> QED
            BY <4>5, <6>1, <6>2
        <5> QED
          BY <4>4, <5>3, <5>4
      <4>7. DOMAIN down' = {}
        BY <1>1
      <4> QED
        BY <1>1, <4>6, <4>7 DEF CutInv
    <3> QED
      BY <3>2, <3>3
  <2> QED
    BY <2>2, <2>3
<1> QED
  BY <1>3, <1>4, <1>5 DEF Rest

-----------------------------------------------------------------------------
(* The theorems.                                                            *)

LEMMA InvInit == Init => OtaInv
<1> SUFFICES ASSUME Init PROVE OtaInv
  OBVIOUS
<1>1. PanelCount \in Nat /\ Pages \in Nat \ {0} /\ Panels = 1 .. PanelCount
  BY TreeAssumption, ImagesAssumption DEF Panels
<1>2. FlasherType
  <2>1. listed = [i \in 1 .. PanelCount |-> i] /\ listed \in Seq(Panels)
    BY <1>1 DEF Init
  <2>2. InDiscoveryOrder(listed)
    BY <1>1, <2>1 DEF InDiscoveryOrder
  <2>3. ~Active /\ state \in States /\ state \notin {"DONE", "FLASHING"}
    BY DEF Init, Active, States
  <2>4. currentPage \in 0 .. Pages /\ chunk \in Chunk /\ tries \in Nat /\ panelIdx \in Nat
    BY <1>1 DEF Init, Chunk
  <2>5. image \in Images /\ awaiting = FALSE
    BY DEF Init
  <2> QED
    BY <2>1, <2>2, <2>3, <2>4, <2>5 DEF FlasherType
<1>3. WireType
  BY DEF Init, WireType
<1>4. PanelType
  BY <1>1 DEF Init, PanelType, Data, NoPage, BlankPage
<1>5. TypeInv
  BY <1>2, <1>3, <1>4 DEF Init, TypeInv
<1>6. ~Session /\ Finished = {}
  BY DEF Init, Session, Finished, Active
<1>7. \A p \in Panels : Sound(p)
  BY DEF Init, Sound
<1>8. Cardinality(cut) = 0
  BY FS_EmptySet DEF Init
<1>9. SoundInv /\ CutInv /\ LeftOver
  BY <1>7, <1>8 DEF Init, SoundInv, CutInv, LeftOver
<1> QED
  BY <1>5, <1>6, <1>9 DEF OtaInv, SessionInv, Settled, FinishedHoldImage

LEMMA InvNext == OtaInv /\ [Next]_vars => OtaInv'
<1> SUFFICES ASSUME OtaInv, [Next]_vars PROVE OtaInv'
  OBVIOUS
<1>1. TypeInv /\ (TypeInv' /\ Rest' => OtaInv')
  BY DEF OtaInv, Rest
<1>2. CASE StartFlashing
  BY <1>1, <1>2, StartFlashingType, StartFlashingKeeps
<1>3. CASE EnterBootloader
  BY <1>1, <1>3, EnterBootloaderType, EnterBootloaderKeeps
<1>4. CASE Connect
  BY <1>1, <1>4, ConnectType, ConnectKeeps
<1>5. CASE SendChunk
  BY <1>1, <1>5, SendChunkType, SendChunkKeeps
<1>6. CASE Receive
  BY <1>1, <1>6, ReceiveType, ReceiveKeeps
<1>7. CASE ReplyTimeout
  BY <1>1, <1>7, ReplyTimeoutType, ReplyTimeoutKeeps
<1>8. CASE NextPanel
  BY <1>1, <1>8, NextPanelType, NextPanelKeeps
<1>9. CASE PanelReceive
  BY <1>1, <1>9, PanelReceiveType, PanelReceiveKeeps
<1>10. CASE \E p \in Panels : Traffic(p) \/ IdleTick(p)
  BY <1>1, <1>10, ClockType, ClockKeeps
<1>11. CASE LoseRequest \/ LoseAnswer \/ Damage
  BY <1>1, <1>11, Faulted, WiresKeep
<1>12. CASE Stall
  BY <1>1, <1>12, StallType, StallKeeps
<1>13. CASE Restart
  BY <1>1, <1>13, RestartType, RestartKeeps
<1>14. CASE UNCHANGED vars
  <2>1. /\ UNCHANGED <<flasherVars, campaigns, cut>> /\ SamePanels /\ down' = down /\ up' = up
        /\ faults' = faults /\ idleTicks' = idleTicks
    BY <1>14 DEF vars, panelVars, bootVars, SamePanels
  <2>2. FlasherType'
    <3>1. FlasherType
      BY <1>1 DEF TypeInv
    <3> QED
      BY <2>1, <3>1 DEF flasherVars, FlasherType, Active, InDiscoveryOrder
  <2>3. WireType' /\ PanelType'
    BY <1>1, <2>1 DEF TypeInv, WireType, PanelType, SamePanels
  <2>4. TypeInv'
    BY <1>1, <2>1, <2>2, <2>3 DEF TypeInv
  <2>5. Fewer(down', down) /\ Fewer(up', up)
    BY <1>1, <2>1, Kept DEF TypeInv, WireType
  <2>6. NoNewAck
    BY <2>5, FewerAnswers
  <2>7. Target' = Target
    BY <2>1 DEF flasherVars, Target, FlashOrder
  <2>8. Session /\ state = "WAIT_BL" => Waits'
    BY <2>1, <2>4, <2>5, <2>7, KeepsWaiting DEF OtaInv, SessionInv, SamePanels
  <2> QED
    BY <1>1, <2>1, <2>4, <2>5, <2>6, <2>8, NothingDone
<1> QED
  BY <1>2, <1>3, <1>4, <1>5, <1>6, <1>7, <1>8, <1>9, <1>10, <1>11, <1>12, <1>13, <1>14
     DEF Next, Flasher, Fault

LEMMA Inv == Spec => []OtaInv
  BY InvInit, InvNext, PTL DEF Spec

\* A panel the campaign has moved on from holds the whole image, whatever was lost,
\* damaged, repeated or late on the way, and whatever an earlier campaign left in it
\* (PanelFlasher::run, writeChunk, RelayBootloader).
THEOREM FinishedHold == Spec => []FinishedHoldImage
  BY Inv, PTL DEF OtaInv

\* Only an update that was cut short, by its last attempt, a restart or a stall, leaves a
\* panel with half an application, and a campaign cuts short one at most.
THEOREM SoundUnless == Spec => []SoundUnlessCut
<1>1. OtaInv => SoundUnlessCut
  <2> SUFFICES ASSUME OtaInv PROVE SoundUnlessCut
    OBVIOUS
  <2>1. Cardinality(cut) <= campaigns
    BY CutCount DEF OtaInv, CutInv
  <2> QED
    BY <2>1 DEF OtaInv, SoundInv, UnderWay, SoundUnlessCut
<1> QED
  BY <1>1, Inv, PTL

-----------------------------------------------------------------------------
(* What a restart finds.                                                    *)

LEMMA AncestorsBelow == ASSUME NEW p \in Panels, NEW a \in Ancestors(p) PROVE a \in Panels /\ a < p
<1>1. p \in Nat /\ PanelCount \in Nat /\ p <= PanelCount /\ a \in Panels
  BY TreeAssumption DEF Panels, Ancestors
<1>2. 1 .. p - 1 \in SUBSET Panels
  BY <1>1 DEF Panels
<1>3. ASSUME NEW q \in (1 .. p - 1) \cup {p}, Parent[q] # 0 PROVE Parent[q] \in 1 .. p - 1
  <2>1. q \in Panels /\ q <= p
    BY <1>1, <1>3 DEF Panels
  <2>2. Parent[q] \in 0 .. PanelCount /\ Parent[q] < q
    BY <2>1, TreeAssumption
  <2> QED
    BY <1>1, <1>3, <2>1, <2>2 DEF Panels
<1>4. a \in 1 .. p - 1
  BY <1>2, <1>3 DEF Ancestors
<1> QED
  BY <1>1, <1>4

LEMMA AncestorsOfAncestors ==
    ASSUME NEW p, NEW q \in Ancestors(p), NEW a \in Ancestors(q)
    PROVE  a \in Ancestors(p)
<1> SUFFICES ASSUME NEW S \in SUBSET Panels, \A r \in S \cup {p} : Parent[r] # 0 => Parent[r] \in S
             PROVE  a \in S
  BY DEF Ancestors
<1>1. q \in S
  BY DEF Ancestors
<1> QED
  BY <1>1 DEF Ancestors

\* Whom a discovery finds, it finds with all it hangs from.
ListedInv == \A i \in DOMAIN listed : \A a \in Ancestors(listed[i]) : \E j \in DOMAIN listed : listed[j] = a

\* A list of a set's numbers in order, as long as the set is large, has all of them.
LEMMA ListsAll ==
    ASSUME NEW S \in SUBSET Panels, NEW s \in [1 .. Cardinality(S) -> S], InDiscoveryOrder(s)
    PROVE  DOMAIN s = 1 .. Cardinality(S) /\ \A p \in S : \E i \in DOMAIN s : s[i] = p
<1>1. IsFiniteSet(Panels)
  BY TreeAssumption, FS_Interval DEF Panels
<1>2. IsFiniteSet(S) /\ Cardinality(S) \in Nat
  BY <1>1, FS_Subset, FS_CardinalityType
<1>3. ASSUME NEW i \in 1 .. Cardinality(S), NEW j \in 1 .. Cardinality(S), s[i] = s[j] PROVE i = j
  <2>1. s[i] \in Int /\ s[j] \in Int
    <3>1. s[i] \in Panels /\ s[j] \in Panels
      OBVIOUS
    <3> QED
      BY <3>1, TreeAssumption DEF Panels
  <2>2. ~(i < j) /\ ~(j < i)
    BY <1>3, <2>1 DEF InDiscoveryOrder
  <2> QED
    BY <1>2, <2>2
<1>4. s \in Injection(1 .. Cardinality(S), S)
  BY <1>3 DEF Injection, IsInjective
<1>5. Cardinality(1 .. Cardinality(S)) = Cardinality(S)
  BY <1>2, FS_Interval
<1>6. s \in Surjection(1 .. Cardinality(S), S)
  BY <1>2, <1>4, <1>5, FS_Injection
<1> QED
  BY <1>6 DEF Surjection

\* The panels a restart finds.
Found == {p \in Panels : \A q \in Ancestors(p) \cup {p} : Sound(q)}

LEMMA RestartFinds ==
    ASSUME Restart
    PROVE  /\ \A p \in Found' : \E i \in DOMAIN listed' : listed'[i] = p
           /\ \A i \in DOMAIN listed' : listed'[i] \in Found'
<1>1. listed' \in [1 .. Cardinality(Found') -> Found'] /\ InDiscoveryOrder(listed')
  BY DEF Restart, Found
<1>2. Found' \in SUBSET Panels
  BY DEF Found
<1> HIDE DEF Found
<1> QED
  BY <1>1, <1>2, ListsAll

LEMMA ListedKept ==  OtaInv /\ ListedInv /\ [Next]_vars => ListedInv'
<1> SUFFICES ASSUME OtaInv, ListedInv, [Next]_vars PROVE ListedInv'
  OBVIOUS
<1>1. CASE Restart
  <2> SUFFICES ASSUME NEW i \in DOMAIN listed', NEW a \in Ancestors(listed'[i])
               PROVE  \E j \in DOMAIN listed' : listed'[j] = a
    BY DEF ListedInv, Ancestors
  <2>1. PICK p \in Panels : p = listed'[i] /\ p \in Found'
    BY <1>1, RestartFinds DEF Found
  <2>2. a \in Panels
    BY <2>1, AncestorsBelow
  <2>3. \A q \in Ancestors(a) \cup {a} : q \in Ancestors(p) \cup {p}
    BY <2>1, AncestorsOfAncestors
  <2>4. a \in Found'
    BY <2>1, <2>2, <2>3 DEF Found, Ancestors
  <2> QED
    BY <1>1, <2>4, RestartFinds
<1>2. CASE UNCHANGED listed
  BY <1>2 DEF ListedInv, Ancestors
<1> QED
  BY <1>1, <1>2 DEF Next, Flasher, Fault, StartFlashing, EnterBootloader, Connect, SendChunk,
     Receive, ReplyTimeout, NextPanel, PanelReceive, Traffic, IdleTick, LoseRequest, LoseAnswer,
     Damage, Stall, vars, flasherVars

LEMMA ListedFirst == Init => ListedInv
<1> SUFFICES ASSUME Init PROVE ListedInv
  OBVIOUS
<1>1. listed = [i \in Panels |-> i]
  BY DEF Init
<1> QED
  BY <1>1 DEF ListedInv, Ancestors

LEMMA UntouchedFound ==
    ASSUME OtaInv, ListedInv, Restart, cut = {},
           \A i \in DOMAIN down : down[i].panel \notin Untouched
    PROVE  Untouched \subseteq {listed'[i] : i \in DOMAIN listed'}
<1> SUFFICES ASSUME NEW u \in Untouched PROVE u \in Found'
  BY RestartFinds
<1>1. /\ Active /\ listed \in Seq(Panels) /\ InDiscoveryOrder(listed)
      /\ panelIdx \in Nat /\ panelIdx < Len(listed) /\ Len(listed) \in Nat
  BY DEF Untouched, OtaInv, TypeInv, FlasherType
<1>2. PICK k \in panelIdx + 1 .. Len(listed) - 1 : u = listed[Len(listed) - k]
  BY <1>1 DEF Untouched, FlashOrder
<1>3. Len(listed) - k \in DOMAIN listed /\ u \in Panels
  BY <1>1, <1>2
<1>4. \A j \in DOMAIN listed : listed[j] \in Panels /\ listed[j] \in Nat
  BY <1>1, TreeAssumption DEF Panels
<1>5. ASSUME NEW q \in Ancestors(u) \cup {u} PROVE Sound(q)'
  <2>1. PICK j \in DOMAIN listed : listed[j] = q
    BY <1>2, <1>3 DEF ListedInv
  <2>2. q <= u /\ q \in Panels
    <3>1. q \in Panels /\ q \in Nat /\ u \in Nat
      BY <1>2, <1>3, <1>4, <2>1
    <3>2. q = u \/ q < u
      BY <1>3, AncestorsBelow
    <3> QED
      BY <3>1, <3>2
  <2>3. j <= Len(listed) - k
    <3>1. j \in Nat
      BY <1>1
    <3>2. ~(Len(listed) - k < j)
      BY <1>1, <1>2, <1>3, <1>4, <2>1, <2>2 DEF InDiscoveryOrder
    <3> QED
      BY <1>1, <1>2, <3>1, <3>2
  <2>4. q \in Untouched
    <3>1. Len(listed) - j \in panelIdx + 1 .. Len(listed) - 1
      BY <1>1, <1>2, <2>3
    <3>2. q = listed[Len(listed) - (Len(listed) - j)]
      BY <1>1, <2>1
    <3> QED
      BY <1>1, <3>1, <3>2 DEF Untouched, FlashOrder
  <2>5. q # Target
    <3>1. Len(listed) - panelIdx \in DOMAIN listed /\ j < Len(listed) - panelIdx
      BY <1>1, <1>2, <2>3
    <3>2. listed[j] < listed[Len(listed) - panelIdx]
      BY <1>1, <3>1 DEF InDiscoveryOrder
    <3>3. listed[Len(listed) - panelIdx] \in Nat
      BY <1>4, <3>1
    <3> QED
      BY <1>4, <2>1, <3>2, <3>3 DEF Target, FlashOrder
  <2>6. Sound(q)
    BY <2>2, <2>5 DEF OtaInv, SoundInv, UnderWay
  <2>7. flash'[q] = flash[q]
    <3>1. flash' \in FlashAfterPowerCut
      BY DEF Restart
    <3>2. down # <<>> => 1 \in DOMAIN down
      BY DEF OtaInv, TypeInv, WireType
    <3> QED
      BY <2>2, <2>4, <3>1, <3>2, PowerCut DEF OtaInv
  <2> QED
    BY <2>6, <2>7 DEF Sound
<1> QED
  BY <1>3, <1>5 DEF Found, Ancestors

\* A controller that restarts in the middle of a campaign finds every panel that the
\* campaign had not come to: PanelFlasher's order, leaves first, never updates a panel that
\* one still to come hangs from.
THEOREM UntouchedSurvive == Spec => UntouchedSurviveRestart
<1> DEFINE Survive == Restart /\ cut = {} /\ (\A i \in DOMAIN down : down[i].panel \notin Untouched)
                        => Untouched \subseteq {listed'[i] : i \in DOMAIN listed'}
<1>1. OtaInv /\ ListedInv => Survive
  BY UntouchedFound
<1>2. Spec => [](OtaInv /\ ListedInv)
  BY InvInit, InvNext, ListedFirst, ListedKept, PTL DEF Spec
<1>3. OtaInv /\ ListedInv => [Survive]_vars
  BY <1>1
<1> QED
  BY <1>2, <1>3, PTL DEF UntouchedSurviveRestart

=============================================================================
