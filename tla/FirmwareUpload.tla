---------------------------- MODULE FirmwareUpload ----------------------------
(***************************************************************************)
(* How a panel image gets into /panel_fw.bin, and from there into a        *)
(* campaign.  FirmwareUpdateServer writes it on the network task, body     *)
(* chunk by body chunk; SerialFirmwareReceiver writes it on the main loop, *)
(* which it holds meanwhile; PanelFlasher reads it on the main loop, once  *)
(* per panel.  What a campaign does on the relay is Ota's.                 *)
(***************************************************************************)
EXTENDS Integers, Sequences, FiniteSets

CONSTANTS
    Requests,      \* uploads by POST /api/firmware/panels
    SerialSends,   \* uploads over the serial port
    Length,        \* Length[u]: pieces of u's image
    MaxLength,     \* the largest image accepted (28 KB)
    TotalPanels,
    Faults,        \* the kinds of fault (FaultKind) that may happen
    MaxFaults      \* bound: how many of them, each at most once

Uploads == Requests \cup SerialSends
NoUpload == "none"

\* A file that does not open, by who opens it; a write for which there is no room;
\* a byte damaged on the serial line; a panel that does not answer.
FaultKind == {"HTTP_OPEN", "SERIAL_OPEN", "WRITE", "DAMAGE", "PANEL"}

ASSUME UploadsAssumption ==
    /\ Requests \cap SerialSends = {} /\ Uploads # {} /\ NoUpload \notin Uploads
    /\ Length \in [Uploads -> Nat \ {0}]
    /\ MaxLength \in Nat /\ TotalPanels \in Nat \ {0}
    /\ Faults \subseteq FaultKind /\ MaxFaults \in Nat

VARIABLES
    disk,         \* what opening the file for reading would give, <<>> if there is none
    faults,       \* those that have happened
    inTurn,       \* no upload has begun in the middle of another, and no request in
                  \* the middle of a campaign
    \* FirmwareUpdateServer
    stage,        \* stage[u]: how far upload u has got
    sent,         \* sent[u]: pieces of it that have arrived
    uploadFile,   \* the one handle all requests share
    \* SerialFirmwareReceiver
    state, current, outFile,
    intact,       \* the CRC over what has arrived will match
    \* PanelFlasher
    flasher,      \* status.state
    panelIdx, totalPages, currentPage,
    flashFile,    \* the file as it was when the current panel's turn came
    image,        \* image[p]: what the p-th panel of the campaign was given last
    starter       \* the upload the campaign was started for

serverVars  == <<stage, sent, uploadFile>>
serialVars  == <<state, current, outFile, intact>>
flasherVars == <<flasher, panelIdx, totalPages, currentPage, flashFile, image, starter>>
fileVars == <<disk, faults, inTurn>>
vars == <<fileVars, serverVars, serialVars, flasherVars>>

Closed  == [open |-> FALSE, data |-> <<>>]
Handle(d) == [open |-> TRUE, data |-> d]

Image(u) == [i \in 1 .. Length[u] |-> <<u, i>>]

Active  == flasher \in {"ENTER_BL", "FLASHING"}
Happens(kind) ==
    /\ kind \in Faults \ faults /\ Cardinality(faults) < MaxFaults
    /\ faults' = faults \cup {kind}

\* Who sends over the serial port cannot know of a campaign, and is refused then.
InTurn(u) ==
    /\ \A v \in Uploads : stage[v] \in {"new", "ended"}
    /\ u \in Requests => ~Active

Init ==
    /\ disk = <<>> /\ faults = {} /\ inTurn = TRUE
    /\ stage = [u \in Uploads |-> "new"] /\ sent = [u \in Uploads |-> 0]
    /\ uploadFile = Closed
    /\ state = "IDLE" /\ current = NoUpload /\ outFile = Closed /\ intact = TRUE
    /\ flasher = "IDLE" /\ panelIdx = 0 /\ totalPages = 0 /\ currentPage = 0
    /\ flashFile = <<>> /\ image = [p \in 1 .. TotalPanels |-> <<>>] /\ starter = NoUpload

-----------------------------------------------------------------------------
(* The file system.                                                         *)

\* What a reader finds after a handle was opened for writing, or written through:
\* nothing of it, or all that was written so far.
Written(d) == disk' \in {disk, d}

\* Closing a handle leaves its data in the file.
AfterClose(h, d) == IF h.open THEN h.data ELSE d

-----------------------------------------------------------------------------
(* startFlashing(), for upload u.                                           *)

StartFlashing(u) ==
    IF Len(disk) \in 1 .. MaxLength
    THEN /\ totalPages' = Len(disk)
         /\ flasher' = "ENTER_BL" /\ panelIdx' = 0 /\ starter' = u
         /\ UNCHANGED <<currentPage, flashFile, image>>
    ELSE /\ flasher' = "ERROR" /\ flashFile' = <<>>
         /\ UNCHANGED <<panelIdx, totalPages, currentPage, image, starter>>

-----------------------------------------------------------------------------
(* FirmwareUpdateServer, on the network task.                               *)

\* Piece n of upload u goes to handle h: into it, or nowhere for want of room.
Appends(u, n, h, g) ==
    \/ g = [h EXCEPT !.data = Append(@, <<u, n>>)] /\ UNCHANGED faults
    \/ g = h /\ Happens("WRITE")

\* handleUploadBody(), index = 0: the file is opened anew whatever it is used for,
\* which closes the handle of an earlier request that still has it.
HttpFirstChunk(u) ==
    /\ stage[u] = "new"
    /\ inTurn' = (inTurn /\ InTurn(u))
    /\ \E h \in {Handle(<<>>), Handle(<<<<u, 1>>>>), Closed} :
        /\ \/ h = Closed /\ Happens("HTTP_OPEN")
           \/ h.open /\ Appends(u, 1, Handle(<<>>), h)
        /\ uploadFile' = IF Length[u] = 1 THEN Closed ELSE h
        /\ IF Length[u] = 1
           THEN disk' = AfterClose(h, AfterClose(uploadFile, disk))
           ELSE disk' \in {AfterClose(uploadFile, disk), AfterClose(h, disk)}
    /\ sent' = [sent EXCEPT ![u] = 1]
    /\ stage' = [stage EXCEPT ![u] = IF Length[u] = 1 THEN "complete" ELSE "sending"]
    /\ UNCHANGED <<serialVars, flasherVars>>

\* handleUploadBody(), the chunks behind it: to the shared handle, if it is open.
HttpChunk(u) ==
    /\ u \in Requests /\ stage[u] = "sending"
    /\ sent' = [sent EXCEPT ![u] = @ + 1]
    /\ \E h \in {uploadFile, [uploadFile EXCEPT !.data = Append(@, <<u, sent[u] + 1>>)]} :
        /\ IF uploadFile.open THEN Appends(u, sent[u] + 1, uploadFile, h)
                              ELSE h = Closed /\ UNCHANGED faults
        /\ IF sent[u] + 1 = Length[u]
           THEN uploadFile' = Closed /\ disk' = AfterClose(h, disk)
           ELSE uploadFile' = h /\ Written(AfterClose(h, disk))
    /\ stage' = [stage EXCEPT ![u] = IF sent[u] + 1 = Length[u] THEN "complete" ELSE @]
    /\ UNCHANGED <<inTurn, serialVars, flasherVars>>

\* The client goes away in the middle of its body: nobody closes the handle.
HttpAbort(u) ==
    /\ u \in Requests /\ stage[u] = "sending"
    /\ stage' = [stage EXCEPT ![u] = "ended"]
    /\ UNCHANGED <<fileVars, sent, uploadFile, serialVars, flasherVars>>

\* The request is complete: 409 while a campaign is active.
HttpComplete(u) ==
    /\ stage[u] = "complete"
    /\ stage' = [stage EXCEPT ![u] = IF Active THEN "ended" ELSE "checked"]
    /\ UNCHANGED <<fileVars, sent, uploadFile, serialVars, flasherVars>>

\* Otherwise the campaign is started.  The main loop, on another core, may have
\* gone on since the check.
HttpStart(u) ==
    /\ stage[u] = "checked"
    /\ stage' = [stage EXCEPT ![u] = "ended"]
    /\ StartFlashing(u)
    /\ UNCHANGED <<fileVars, sent, uploadFile, serialVars>>

Http == \E u \in Requests : HttpFirstChunk(u) \/ HttpChunk(u) \/ HttpAbort(u)
                            \/ HttpComplete(u) \/ HttpStart(u)

-----------------------------------------------------------------------------
(* SerialFirmwareReceiver, which holds the main loop from the magic on.     *)

\* reset()
Reset ==
    /\ state' = "IDLE" /\ current' = NoUpload /\ outFile' = Closed
    /\ stage' = [stage EXCEPT ![current] = "ended"]
    /\ UNCHANGED intact

\* run() has matched the magic.
SerialMagic(u) ==
    /\ state = "IDLE" /\ stage[u] = "new"
    /\ inTurn' = (inTurn /\ InTurn(u))
    /\ state' = "HEADER" /\ current' = u /\ intact' = TRUE
    /\ stage' = [stage EXCEPT ![u] = "sending"]
    /\ UNCHANGED <<disk, faults, sent, uploadFile, outFile, flasherVars>>

\* Mutated form: a campaign under way does not matter.
SerialRefusesSizeOnly == Length[current] > MaxLength
SerialRefuses == Length[current] > MaxLength \/ Active

SerialHeader ==
    /\ state = "HEADER"
    /\ \/ SerialRefuses /\ Reset /\ UNCHANGED <<disk, faults>>
       \/ ~SerialRefuses /\ Happens("SERIAL_OPEN") /\ Reset /\ UNCHANGED disk
       \/ /\ ~SerialRefuses /\ state' = "DATA" /\ outFile' = Handle(<<>>) /\ Written(<<>>)
          /\ UNCHANGED <<faults, stage, current, intact>>
    /\ UNCHANGED <<inTurn, sent, uploadFile, flasherVars>>

\* A piece has arrived and is written; what write() returns is not looked at.
SerialData ==
    /\ state = "DATA"
    /\ sent' = [sent EXCEPT ![current] = @ + 1]
    /\ \E n \in {0, sent[current] + 1},
          h \in {outFile, [outFile EXCEPT !.data = Append(@, <<current, 0>>)],
                 [outFile EXCEPT !.data = Append(@, <<current, sent[current] + 1>>)]} :
        /\ \/ n > 0 /\ Appends(current, n, outFile, h) /\ UNCHANGED intact
           \/ /\ n = 0 /\ Happens("DAMAGE") /\ intact' = FALSE
              /\ h = [outFile EXCEPT !.data = Append(@, <<current, 0>>)]
        /\ IF sent[current] + 1 = Length[current]
           THEN state' = "CRC_BYTES" /\ outFile' = Closed /\ disk' = h.data
           ELSE state' = state /\ outFile' = h /\ Written(h.data)
    /\ UNCHANGED <<inTurn, stage, current, uploadFile, flasherVars>>

CrcMatches == intact

SerialCrc ==
    /\ state = "CRC_BYTES"
    /\ Reset
    /\ IF CrcMatches THEN StartFlashing(current) ELSE UNCHANGED flasherVars
    /\ UNCHANGED <<fileVars, sent, uploadFile>>

\* Mutated form: a transfer that stops is waited for.
SerialTimeoutNever == FALSE /\ UNCHANGED vars

\* receiveBlocking(): TRANSFER_TIMEOUT_MS after the magic.
SerialTimeout ==
    /\ state # "IDLE"
    /\ Reset
    /\ disk' = AfterClose(outFile, disk)
    /\ UNCHANGED <<faults, inTurn, sent, uploadFile, flasherVars>>

Serial == (\E u \in SerialSends : SerialMagic(u)) \/ SerialHeader \/ SerialData \/ SerialCrc

-----------------------------------------------------------------------------
(* PanelFlasher::run(), on the main loop.                                   *)

\* ENTER_BL and WAIT_BL: the panel's bootloader has answered.  A file that is not
\* there is like an empty one, an error at the first read.
FlasherOpen ==
    /\ state = "IDLE" /\ flasher = "ENTER_BL"
    /\ flasher' = "FLASHING" /\ currentPage' = 0 /\ flashFile' = disk
    /\ image' = [image EXCEPT ![panelIdx + 1] = <<>>]
    /\ UNCHANGED <<fileVars, serverVars, serialVars, panelIdx, totalPages, starter>>

\* The file ends before the pages counted when the campaign started.
ReadError == currentPage >= Len(flashFile)

\* Mutated form: the panel is done when the file is, however many pages it has.
LastPageOfFile == currentPage + 1 >= Len(flashFile)
LastPage == currentPage + 1 >= totalPages

\* FLASHING and NEXT_PANEL: one page, and behind the last one the next panel.
FlasherPage ==
    /\ state = "IDLE" /\ flasher = "FLASHING"
    /\ IF ReadError
       THEN flasher' = "ERROR" /\ flashFile' = <<>> /\ UNCHANGED <<panelIdx, currentPage, image>>
       ELSE /\ image' = [image EXCEPT ![panelIdx + 1] = Append(@, flashFile[currentPage + 1])]
            /\ currentPage' = currentPage + 1
            /\ IF LastPage
               THEN /\ panelIdx' = panelIdx + 1 /\ flashFile' = <<>>
                    /\ flasher' = IF panelIdx + 1 >= TotalPanels THEN "DONE" ELSE "ENTER_BL"
               ELSE UNCHANGED <<panelIdx, flasher, flashFile>>
    /\ UNCHANGED <<fileVars, serverVars, serialVars, totalPages, starter>>

\* setError(): the panel does not answer.
FlasherFails ==
    /\ state = "IDLE" /\ Active /\ Happens("PANEL")
    /\ flasher' = "ERROR" /\ flashFile' = <<>>
    /\ UNCHANGED <<disk, inTurn, serverVars, serialVars, panelIdx, totalPages, currentPage, image,
                   starter>>

Flasher == FlasherOpen \/ FlasherPage

Next == Http \/ Serial \/ SerialTimeout \/ Flasher \/ FlasherFails

\* The clock of receiveBlocking() and the main loop go on; senders may stop.
Spec == Init /\ [][Next]_vars /\ WF_vars(SerialTimeout) /\ WF_vars(Flasher)

-----------------------------------------------------------------------------
(* Properties.                                                              *)

\* Every panel the campaign is done with was given the upload the campaign was
\* started for, whole.
FlashesTheUpload == \A p \in 1 .. panelIdx : starter # NoUpload /\ image[p] = Image(starter)

\* No two senders at once, and the file system has taken what it was given.
Orderly == inTurn /\ faults \cap {"HTTP_OPEN", "WRITE"} = {}

\* That holds as long as senders take turns and the file system has room, whatever is
\* damaged, refused or broken off.
OrderlyFlashesTheUpload == Orderly => FlashesTheUpload

\* Whatever happens to the file meanwhile, a panel the campaign is done with was
\* given as many pages as were counted when it started: a file that has become
\* shorter is an error, not a short image (startFlashing() counts, run() reads).
FinishedAreComplete == \A p \in 1 .. panelIdx : Len(image[p]) = totalPages

\* A campaign comes to its end although serial transfers hold the loop it runs on
\* and may stop anywhere.
CampaignStops == Active ~> ~Active

=============================================================================
