--------------------------- MODULE FirmwareUpload_proofs ---------------------------
(***************************************************************************)
(* Theorems about FirmwareUpload, for every set of uploads, every length   *)
(* of image, every number of panels and any faults: a panel a campaign is  *)
(* done with holds as many pages as the campaign counted                   *)
(* (FinishedComplete), and holds exactly the upload the campaign was       *)
(* started for as long as senders take turns and the file system has room  *)
(* (OrderlyFlashes).                                                       *)
(***************************************************************************)
EXTENDS FirmwareUpload, TLAPS

Pieces  == Seq(Uploads \X Nat)
Handles == [open : BOOLEAN, data : Pieces]

-----------------------------------------------------------------------------
(* The first n pieces of an upload.                                         *)

Prefix(u, n) == [i \in 1 .. n |-> <<u, i>>]

\* What is written piece by piece is a prefix of the image (HttpChunk, SerialData).
LEMMA PrefixGrows ==
    ASSUME NEW u \in Uploads, NEW n \in Nat
    PROVE  /\ Prefix(u, n) \in Pieces /\ Len(Prefix(u, n)) = n
           /\ Append(Prefix(u, n), <<u, n + 1>>) = Prefix(u, n + 1)
<1>1. Prefix(u, n) \in Pieces /\ Len(Prefix(u, n)) = n
  BY DEF Prefix, Pieces
<1>2. Prefix(u, n + 1) \in Pieces /\ Len(Prefix(u, n + 1)) = n + 1
  BY DEF Prefix, Pieces
<1> DEFINE a == Append(Prefix(u, n), <<u, n + 1>>)
<1>3. a \in Pieces /\ Len(a) = n + 1
  BY <1>1 DEF Pieces
<1>4. ASSUME NEW i \in 1 .. n + 1 PROVE a[i] = <<u, i>>
  <2>1. CASE i = n + 1
    BY <1>1, <2>1 DEF Pieces
  <2>2. CASE i \in 1 .. n
    <3>1. a[i] = Prefix(u, n)[i]
      BY <1>1, <2>2 DEF Pieces
    <3> QED
      BY <2>2, <3>1 DEF Prefix
  <2>3. i = n + 1 \/ i \in 1 .. n
    OBVIOUS
  <2> QED
    BY <2>1, <2>2, <2>3
<1>5. a = [i \in 1 .. n + 1 |-> a[i]]
  BY <1>3 DEF Pieces
<1>6. a = Prefix(u, n + 1)
  BY <1>4, <1>5 DEF Prefix
<1> QED
  BY <1>1, <1>6

\* The first piece alone (handleUploadBody() with index 0).
LEMMA PrefixStarts == ASSUME NEW u \in Uploads PROVE Prefix(u, 1) = <<<<u, 1>>>> /\ Prefix(u, 0) = <<>>
  BY DEF Prefix

\* Reading page after page of a file copies a prefix of it (FlasherPage).
LEMMA PrefixRead ==
    ASSUME NEW u \in Uploads, NEW n \in Nat, NEW k \in 0 .. n - 1
    PROVE  Append(Prefix(u, k), Prefix(u, n)[k + 1]) = Prefix(u, k + 1)
<1>1. k \in Nat /\ Prefix(u, n)[k + 1] = <<u, k + 1>>
  BY DEF Prefix
<1> QED
  BY <1>1, PrefixGrows

-----------------------------------------------------------------------------
(* Types.                                                                   *)

ServerType ==
    /\ stage \in [Uploads -> {"new", "sending", "complete", "checked", "ended"}]
    /\ sent \in [Uploads -> Nat] /\ uploadFile \in Handles
SerialType ==
    /\ state \in {"IDLE", "HEADER", "DATA", "CRC_BYTES"}
    /\ current \in Uploads \cup {NoUpload} /\ (state # "IDLE" => current \in SerialSends)
    /\ outFile \in Handles /\ intact \in BOOLEAN
FlasherType ==
    /\ flasher \in {"IDLE", "ENTER_BL", "FLASHING", "ERROR", "DONE"}
    /\ panelIdx \in 0 .. TotalPanels /\ (Active => panelIdx < TotalPanels)
    /\ totalPages \in Nat /\ (Active => totalPages > 0)
    /\ currentPage \in Nat /\ flashFile \in Pieces
    /\ image \in [1 .. TotalPanels -> Pieces] /\ starter \in Uploads \cup {NoUpload}

TypeInv == disk \in Pieces /\ inTurn \in BOOLEAN /\ ServerType /\ SerialType /\ FlasherType

\* What has been given to the panel under way: the pages before currentPage.
UnderWay == flasher = "FLASHING" =>
    currentPage < totalPages /\ Len(image[panelIdx + 1]) = currentPage

CompleteInv == TypeInv /\ UnderWay /\ FinishedAreComplete

-----------------------------------------------------------------------------
(* At most one upload is under way, and what it has written is a prefix of  *)
(* its image, as long as uploads take turns and the file system has room.   *)

Busy(u) == stage[u] \in {"sending", "complete", "checked"}

\* The serial receiver's upload is the one it is in the middle of.
SerialStages ==
    \A u \in SerialSends : Busy(u) => state # "IDLE" /\ u = current /\ stage[u] = "sending"
SerialFile ==
    /\ state \in {"IDLE", "HEADER", "CRC_BYTES"} => outFile = Closed
    /\ state = "DATA" => outFile.open
    /\ state # "IDLE" => stage[current] = "sending"
    /\ state = "HEADER" => sent[current] = 0 /\ intact
NewUnsent == \A u \in Uploads : stage[u] = "new" => sent[u] = 0

\* Neither depends on anybody taking turns.
StageInv == SerialStages /\ SerialFile /\ NewUnsent

OneAtATime ==
    /\ \A u, v \in Uploads : Busy(u) /\ Busy(v) => u = v
    /\ \A u \in Requests : Busy(u) => ~Active
    /\ state \in {"DATA", "CRC_BYTES"} => ~Active
HttpWritten ==
    \A u \in Requests :
        /\ stage[u] = "sending" =>
              /\ sent[u] < Length[u] /\ uploadFile = Handle(Prefix(u, sent[u]))
        /\ stage[u] \in {"complete", "checked"} => disk = Image(u)
SerialWritten ==
    /\ state = "DATA" => sent[current] < Length[current]
                         /\ (intact => outFile.data = Prefix(current, sent[current]))
    /\ state = "CRC_BYTES" /\ intact => disk = Image(current)
CampaignReads ==
    /\ Active => /\ starter \in Uploads /\ disk = Image(starter)
                 /\ totalPages = Length[starter]
    /\ flasher = "FLASHING" => /\ flashFile = Image(starter)
                               /\ image[panelIdx + 1] = Prefix(starter, currentPage)

OrderInv ==
    OneAtATime /\ HttpWritten /\ SerialWritten /\ CampaignReads /\ FlashesTheUpload

UploadInv == CompleteInv /\ StageInv /\ (Orderly => OrderInv)

-----------------------------------------------------------------------------
(* Type correctness.                                                        *)

\* startFlashing() sets the campaign's variables to values of their types.
LEMMA StartFlashingTyped ==
    ASSUME TypeInv, NEW u \in Uploads, StartFlashing(u)
    PROVE  FlasherType'
<1>1. Len(disk) \in Nat /\ TotalPanels \in Nat \ {0} /\ <<>> \in Pieces
  BY UploadsAssumption DEF TypeInv, Pieces
<1>2. CASE Len(disk) \in 1 .. MaxLength
  BY <1>1, <1>2 DEF TypeInv, FlasherType, StartFlashing, Active
<1>3. CASE Len(disk) \notin 1 .. MaxLength
  BY <1>1, <1>3 DEF TypeInv, FlasherType, StartFlashing, Active
<1> QED
  BY <1>2, <1>3

\* A piece written goes behind what the handle has.
LEMMA PieceWritten ==
    ASSUME NEW u \in Uploads, NEW n \in Nat, NEW h \in Handles
    PROVE  /\ [h EXCEPT !.data = Append(@, <<u, n>>)] \in Handles
           /\ [h EXCEPT !.data = Append(@, <<u, n>>)].open = h.open
           /\ [h EXCEPT !.data = Append(@, <<u, n>>)].data = Append(h.data, <<u, n>>)
<1>1. h.data \in Pieces /\ <<u, n>> \in Uploads \X Nat
  BY DEF Handles
<1>2. Append(h.data, <<u, n>>) \in Pieces
  BY <1>1 DEF Pieces
<1> QED
  BY <1>2 DEF Handles

\* A piece written to a handle, or not, leaves a handle.
LEMMA AppendsTyped ==
    ASSUME NEW u \in Uploads, NEW n \in Nat, NEW h \in Handles, NEW g, Appends(u, n, h, g)
    PROVE  g \in Handles
  BY PieceWritten DEF Appends

\* Closing a handle leaves a file.
LEMMA AfterCloseTyped ==
    ASSUME NEW h \in Handles, NEW d \in Pieces PROVE AfterClose(h, d) \in Pieces
  BY DEF AfterClose, Handles

\* The network task's steps keep the types.
LEMMA HttpTyped == TypeInv /\ Http => TypeInv'
<1> SUFFICES ASSUME TypeInv, NEW u \in Requests,
                    \/ HttpFirstChunk(u) \/ HttpChunk(u) \/ HttpAbort(u)
                    \/ HttpComplete(u) \/ HttpStart(u)
             PROVE  TypeInv'
  BY DEF Http
<1>1. u \in Uploads /\ sent[u] \in Nat /\ uploadFile \in Handles /\ disk \in Pieces
  BY DEF Uploads, TypeInv, ServerType
<1>2. Closed \in Handles /\ Handle(<<>>) \in Handles /\ Handle(<<<<u, 1>>>>) \in Handles
  BY <1>1 DEF Closed, Handle, Handles, Pieces
<1>3. CASE HttpFirstChunk(u)
  <2>1. PICK h \in Handles :
            /\ uploadFile' = IF Length[u] = 1 THEN Closed ELSE h
            /\ IF Length[u] = 1
               THEN disk' = AfterClose(h, AfterClose(uploadFile, disk))
               ELSE disk' \in {AfterClose(uploadFile, disk), AfterClose(h, disk)}
    BY <1>2, <1>3 DEF HttpFirstChunk
  <2>2. AfterClose(h, AfterClose(uploadFile, disk)) \in Pieces
        /\ AfterClose(uploadFile, disk) \in Pieces /\ AfterClose(h, disk) \in Pieces
    BY <1>1, <2>1, AfterCloseTyped
  <2>3. disk' \in Pieces /\ uploadFile' \in Handles
    BY <1>2, <2>1, <2>2
  <2>4. inTurn' \in BOOLEAN /\ stage' \in [Uploads -> {"new", "sending", "complete", "checked", "ended"}]
        /\ sent' \in [Uploads -> Nat]
    BY <1>3 DEF HttpFirstChunk, TypeInv, ServerType
  <2> QED
    BY <1>3, <2>3, <2>4 DEF HttpFirstChunk, TypeInv, ServerType, SerialType, FlasherType, serialVars,
       flasherVars, Active
<1>4. CASE HttpChunk(u)
  <2>1. PICK h \in {uploadFile, [uploadFile EXCEPT !.data = Append(@, <<u, sent[u] + 1>>)]} :
            IF sent[u] + 1 = Length[u]
            THEN uploadFile' = Closed /\ disk' = AfterClose(h, disk)
            ELSE uploadFile' = h /\ Written(AfterClose(h, disk))
    BY <1>4 DEF HttpChunk
  <2>2. h \in Handles
    <3>1. sent[u] + 1 \in Nat
      BY <1>1
    <3>2. [uploadFile EXCEPT !.data = Append(@, <<u, sent[u] + 1>>)] \in Handles
      BY <1>1, <3>1, PieceWritten
    <3> QED
      BY <1>1, <2>1, <3>2
  <2>3. disk' \in Pieces /\ uploadFile' \in Handles
    BY <1>1, <1>2, <2>1, <2>2, AfterCloseTyped DEF Written
  <2>4. inTurn' \in BOOLEAN /\ stage' \in [Uploads -> {"new", "sending", "complete", "checked", "ended"}]
        /\ sent' \in [Uploads -> Nat]
    BY <1>1, <1>4 DEF HttpChunk, TypeInv, ServerType
  <2> QED
    BY <1>4, <2>3, <2>4 DEF HttpChunk, TypeInv, ServerType, SerialType, FlasherType, serialVars,
       flasherVars, Active
<1>5. CASE HttpAbort(u) \/ HttpComplete(u)
  BY <1>5 DEF HttpAbort, HttpComplete, TypeInv, ServerType, SerialType, FlasherType, fileVars,
     serialVars, flasherVars, Active
<1>6. CASE HttpStart(u)
  <2>1. FlasherType'
    BY <1>1, <1>6, StartFlashingTyped DEF HttpStart
  <2> QED
    BY <1>6, <2>1 DEF HttpStart, TypeInv, ServerType, SerialType, fileVars, serialVars
<1> QED
  BY <1>3, <1>4, <1>5, <1>6

\* The serial receiver's steps keep the types.
LEMMA SerialTyped == TypeInv /\ (Serial \/ SerialTimeout) => TypeInv'
<1> SUFFICES ASSUME TypeInv, Serial \/ SerialTimeout PROVE TypeInv'
  OBVIOUS
<1>1. disk \in Pieces /\ outFile \in Handles /\ Closed \in Handles /\ <<>> \in Pieces
      /\ Handle(<<>>) \in Handles
  BY DEF TypeInv, SerialType, Closed, Handle, Handles, Pieces
<1>2. ASSUME NEW u \in SerialSends, SerialMagic(u) PROVE TypeInv'
  BY <1>2 DEF SerialMagic, TypeInv, ServerType, SerialType, FlasherType, flasherVars, Active, Uploads
<1>3. ASSUME Reset, state # "IDLE", UNCHANGED <<sent, uploadFile>>
      PROVE ServerType' /\ SerialType'
  BY <1>1, <1>3 DEF Reset, TypeInv, ServerType, SerialType
<1>4. CASE SerialHeader
  <2>1. ServerType' /\ SerialType' /\ disk' \in Pieces
    <3>1. CASE Reset
      BY <1>1, <1>3, <1>4, <3>1 DEF SerialHeader, Written, TypeInv
    <3>2. CASE state' = "DATA" /\ outFile' = Handle(<<>>) /\ Written(<<>>)
               /\ UNCHANGED <<stage, current, intact>>
      BY <1>1, <1>4, <3>2 DEF SerialHeader, Written, TypeInv, ServerType, SerialType
    <3> QED
      BY <1>4, <3>1, <3>2 DEF SerialHeader
  <2> QED
    BY <1>4, <2>1 DEF SerialHeader, TypeInv, FlasherType, flasherVars, Active
<1>5. CASE SerialData
  <2>1. current \in Uploads /\ sent[current] \in Nat
    BY <1>5 DEF SerialData, TypeInv, ServerType, SerialType, Uploads
  <2>2. PICK h \in {outFile, [outFile EXCEPT !.data = Append(@, <<current, 0>>)],
                    [outFile EXCEPT !.data = Append(@, <<current, sent[current] + 1>>)]} :
            IF sent[current] + 1 = Length[current]
            THEN state' = "CRC_BYTES" /\ outFile' = Closed /\ disk' = h.data
            ELSE state' = state /\ outFile' = h /\ Written(h.data)
    BY <1>5 DEF SerialData
  <2>3. h \in Handles /\ h.data \in Pieces
    <3>1. ASSUME NEW n \in Nat
          PROVE  [outFile EXCEPT !.data = Append(@, <<current, n>>)] \in Handles
      BY <1>1, <2>1, PieceWritten
    <3>2. 0 \in Nat /\ sent[current] + 1 \in Nat
      BY <2>1
    <3>3. h \in Handles
      BY <1>1, <2>2, <3>1, <3>2
    <3> QED
      BY <3>3 DEF Handles
  <2>4. disk' \in Pieces /\ outFile' \in Handles /\ state' \in {state, "CRC_BYTES"}
    BY <1>1, <2>2, <2>3 DEF Written
  <2>5. intact' \in BOOLEAN
    BY <1>5 DEF SerialData, TypeInv, SerialType
  <2>6. sent' \in [Uploads -> Nat]
    BY <1>5, <2>1 DEF SerialData, TypeInv, ServerType
  <2> QED
    BY <1>5, <2>4, <2>5, <2>6 DEF SerialData, TypeInv, ServerType, SerialType, FlasherType, flasherVars, Active
<1>6. CASE SerialCrc
  <2>1. current \in Uploads
    BY <1>6 DEF SerialCrc, TypeInv, SerialType, Uploads
  <2>2. ServerType' /\ SerialType'
    BY <1>3, <1>6 DEF SerialCrc
  <2>3. FlasherType'
    <3>1. CASE StartFlashing(current)
      BY <2>1, <3>1, StartFlashingTyped
    <3>2. CASE UNCHANGED flasherVars
      BY <3>2 DEF TypeInv, FlasherType, flasherVars, Active
    <3> QED
      BY <1>6, <3>1, <3>2 DEF SerialCrc
  <2> QED
    BY <1>6, <2>2, <2>3 DEF SerialCrc, TypeInv, fileVars
<1>7. CASE SerialTimeout
  <2>1. disk' \in Pieces
    BY <1>1, <1>7, AfterCloseTyped DEF SerialTimeout
  <2> QED
    BY <1>3, <1>7, <2>1 DEF SerialTimeout, TypeInv, FlasherType, flasherVars, Active
<1> QED
  BY <1>2, <1>4, <1>5, <1>6, <1>7 DEF Serial

\* The campaign's steps keep the types.
LEMMA FlasherTyped == TypeInv /\ (Flasher \/ FlasherFails) => TypeInv'
<1> SUFFICES ASSUME TypeInv, Flasher \/ FlasherFails PROVE TypeInv'
  OBVIOUS
<1>1. /\ panelIdx \in 0 .. TotalPanels /\ TotalPanels \in Nat /\ currentPage \in Nat
      /\ (Active => panelIdx < TotalPanels) /\ image \in [1 .. TotalPanels -> Pieces]
      /\ flashFile \in Pieces /\ <<>> \in Pieces
  BY UploadsAssumption DEF TypeInv, FlasherType, Pieces
<1>2. CASE FlasherOpen
  BY <1>1, <1>2 DEF FlasherOpen, TypeInv, ServerType, SerialType, FlasherType, fileVars, serverVars,
     serialVars, Active
<1>3. CASE FlasherPage
  <2>1. panelIdx + 1 \in 1 .. TotalPanels
    BY <1>1, <1>3 DEF FlasherPage, Active
  <2>2. FlasherType'
    <3>1. CASE ReadError
      BY <1>1, <1>3, <3>1 DEF FlasherPage, TypeInv, FlasherType, Active
    <3>2. CASE ~ReadError
      <4>1. flashFile[currentPage + 1] \in Uploads \X Nat
        BY <1>1, <3>2 DEF ReadError, Pieces
      <4>2. Append(image[panelIdx + 1], flashFile[currentPage + 1]) \in Pieces
        BY <1>1, <2>1, <4>1 DEF Pieces
      <4>3. image' \in [1 .. TotalPanels -> Pieces]
        BY <1>1, <1>3, <2>1, <3>2, <4>2 DEF FlasherPage
      <4>4. CASE LastPage
        BY <1>1, <1>3, <2>1, <3>2, <4>3, <4>4 DEF FlasherPage, TypeInv, FlasherType, Active
      <4>5. CASE ~LastPage
        BY <1>1, <1>3, <2>1, <3>2, <4>3, <4>5 DEF FlasherPage, TypeInv, FlasherType, Active
      <4> QED
        BY <4>4, <4>5
    <3> QED
      BY <3>1, <3>2
  <2> QED
    BY <1>3, <2>2 DEF FlasherPage, TypeInv, ServerType, SerialType, fileVars, serverVars, serialVars
<1>4. CASE FlasherFails
  BY <1>1, <1>4 DEF FlasherFails, TypeInv, ServerType, SerialType, FlasherType, serverVars,
     serialVars, Active
<1> QED
  BY <1>2, <1>3, <1>4 DEF Flasher

\* TypeInv is preserved by every step.
LEMMA TypePreserved == TypeInv /\ [Next]_vars => TypeInv'
<1>1. TypeInv /\ UNCHANGED vars => TypeInv'
  BY DEF vars, fileVars, serverVars, serialVars, flasherVars, TypeInv, ServerType, SerialType,
     FlasherType, Active
<1> QED
  BY <1>1, HttpTyped, SerialTyped, FlasherTyped DEF Next

-----------------------------------------------------------------------------
(* A panel the campaign is done with has all its pages.                     *)

\* The campaign's variables change in startFlashing() and in run() only.
LEMMA CampaignSteps ==
    ASSUME TypeInv, Next
    PROVE  \/ UNCHANGED flasherVars
           \/ \E u \in Uploads : StartFlashing(u)
           \/ FlasherOpen \/ FlasherPage \/ FlasherFails
<1>1. CASE Http
  <2>1. PICK u \in Requests : \/ HttpFirstChunk(u) \/ HttpChunk(u) \/ HttpAbort(u)
                              \/ HttpComplete(u) \/ HttpStart(u)
    BY <1>1 DEF Http
  <2>2. u \in Uploads
    BY DEF Uploads
  <2> QED
    BY <2>1, <2>2 DEF HttpFirstChunk, HttpChunk, HttpAbort, HttpComplete, HttpStart
<1>2. CASE Serial \/ SerialTimeout
  <2>1. SerialCrc => current \in Uploads
    BY DEF SerialCrc, TypeInv, SerialType, Uploads
  <2> QED
    BY <1>2, <2>1 DEF Serial, SerialMagic, SerialHeader, SerialData, SerialTimeout, SerialCrc
<1> QED
  BY <1>1, <1>2 DEF Next, Flasher

\* A step of the campaign keeps what it has given to each panel complete.
LEMMA CompletePreserved == CompleteInv /\ [Next]_vars => CompleteInv'
<1> SUFFICES ASSUME CompleteInv, [Next]_vars PROVE UnderWay' /\ FinishedAreComplete'
  BY TypePreserved DEF CompleteInv
<1>1. /\ TypeInv /\ UnderWay /\ FinishedAreComplete
      /\ panelIdx \in 0 .. TotalPanels /\ (Active => panelIdx < TotalPanels)
      /\ currentPage \in Nat /\ totalPages \in Nat /\ TotalPanels \in Nat
      /\ image \in [1 .. TotalPanels -> Pieces] /\ flashFile \in Pieces
      /\ (Active => totalPages > 0)
  BY UploadsAssumption DEF CompleteInv, TypeInv, FlasherType
<1>2. CASE UNCHANGED flasherVars
  BY <1>1, <1>2 DEF flasherVars, UnderWay, FinishedAreComplete
<1>3. CASE \E u \in Uploads : StartFlashing(u)
  BY <1>1, <1>3 DEF StartFlashing, UnderWay, FinishedAreComplete
<1>4. CASE FlasherOpen
  <2>1. panelIdx + 1 \in 1 .. TotalPanels
    BY <1>1, <1>4 DEF FlasherOpen, Active
  <2>2. UnderWay'
    BY <1>1, <1>4, <2>1 DEF FlasherOpen, UnderWay, Active
  <2>3. \A p \in 1 .. panelIdx : image'[p] = image[p]
    BY <1>1, <1>4, <2>1 DEF FlasherOpen
  <2> QED
    BY <1>1, <1>4, <2>2, <2>3 DEF FlasherOpen, FinishedAreComplete
<1>5. CASE FlasherPage
  <2>1. panelIdx + 1 \in 1 .. TotalPanels /\ totalPages' = totalPages
        /\ currentPage < totalPages /\ Len(image[panelIdx + 1]) = currentPage
    BY <1>1, <1>5 DEF FlasherPage, Active, UnderWay
  <2>2. CASE ReadError
    BY <1>1, <1>5, <2>1, <2>2 DEF FlasherPage, UnderWay, FinishedAreComplete
  <2>3. CASE ~ReadError
    <3>1. /\ \A p \in 1 .. panelIdx : image'[p] = image[p]
          /\ image'[panelIdx + 1] = Append(image[panelIdx + 1], flashFile[currentPage + 1])
          /\ currentPage' = currentPage + 1
      BY <1>1, <1>5, <2>1, <2>3 DEF FlasherPage
    <3>2. Len(image'[panelIdx + 1]) = currentPage + 1
      BY <1>1, <2>1, <3>1 DEF Pieces
    <3>3. CASE LastPage
      <4>1. /\ panelIdx' = panelIdx + 1 /\ currentPage + 1 = totalPages
            /\ flasher' \in {"DONE", "ENTER_BL"}
        BY <1>1, <1>5, <2>1, <2>3, <3>3 DEF FlasherPage, LastPage
      <4> QED
        BY <1>1, <2>1, <3>1, <3>2, <4>1 DEF UnderWay, FinishedAreComplete
    <3>4. CASE ~LastPage
      <4>1. panelIdx' = panelIdx /\ currentPage + 1 < totalPages
        BY <1>1, <1>5, <2>1, <2>3, <3>4 DEF FlasherPage, LastPage
      <4> QED
        BY <1>1, <2>1, <3>1, <3>2, <4>1 DEF UnderWay, FinishedAreComplete
    <3> QED
      BY <3>3, <3>4
  <2> QED
    BY <2>2, <2>3
<1>6. CASE FlasherFails
  BY <1>1, <1>6 DEF FlasherFails, UnderWay, FinishedAreComplete
<1> QED
  BY <1>1, <1>2, <1>3, <1>4, <1>5, <1>6, CampaignSteps DEF vars

\* Nothing has been given to any panel at first.
LEMMA CompleteInit == Init => CompleteInv
<1> SUFFICES ASSUME Init PROVE CompleteInv
  OBVIOUS
<1>1. <<>> \in Pieces /\ Closed \in Handles
  BY DEF Pieces, Closed, Handles
<1>2. TypeInv
  BY <1>1, UploadsAssumption DEF Init, TypeInv, ServerType, SerialType, FlasherType, Active
<1> QED
  BY <1>2 DEF Init, CompleteInv, UnderWay, FinishedAreComplete

\* Whatever happens to the file meanwhile, a panel the campaign is done with was
\* given as many pages as were counted when it started (startFlashing(), run()).
THEOREM FinishedComplete == Spec => []FinishedAreComplete
<1>1. Spec => []CompleteInv
  BY CompleteInit, CompletePreserved, PTL DEF Spec
<1>2. CompleteInv => FinishedAreComplete
  BY DEF CompleteInv
<1> QED
  BY <1>1, <1>2, PTL

-----------------------------------------------------------------------------
(* How far each upload is, whatever the file system does.                   *)

\* reset() ends the serial upload under way.
LEMMA ResetStages ==
    ASSUME TypeInv, StageInv, state # "IDLE", Reset
    PROVE  SerialStages' /\ SerialFile' /\ \A u \in Uploads : stage'[u] \in {stage[u], "ended"}
<1>1. current \in SerialSends /\ current \in Uploads
      /\ stage \in [Uploads -> {"new", "sending", "complete", "checked", "ended"}]
  BY DEF TypeInv, SerialType, ServerType, Uploads
<1>2. stage' = [stage EXCEPT ![current] = "ended"] /\ state' = "IDLE" /\ outFile' = Closed
  BY DEF Reset
<1>3. \A u \in SerialSends : ~(stage'[u] \in {"sending", "complete", "checked"})
  BY <1>1, <1>2 DEF StageInv, SerialStages, Busy, Uploads
<1> QED
  BY <1>1, <1>2, <1>3 DEF SerialStages, SerialFile, Busy

\* Every step keeps the serial upload's stage and its receiver's state together.
LEMMA StagePreserved == TypeInv /\ StageInv /\ [Next]_vars => StageInv'
<1> SUFFICES ASSUME TypeInv, StageInv, [Next]_vars PROVE StageInv'
  OBVIOUS
<1> USE DEF Busy
<1>1. /\ stage \in [Uploads -> {"new", "sending", "complete", "checked", "ended"}]
      /\ sent \in [Uploads -> Nat]
      /\ state # "IDLE" => current \in SerialSends
      /\ \A u \in SerialSends : u \in Uploads /\ u \notin Requests
      /\ \A u \in Requests : u \in Uploads
  BY UploadsAssumption DEF TypeInv, ServerType, SerialType, Uploads
<1>2. CASE Http
  <2>1. PICK u \in Requests : \/ HttpFirstChunk(u) \/ HttpChunk(u) \/ HttpAbort(u)
                              \/ HttpComplete(u) \/ HttpStart(u)
    BY <1>2 DEF Http
  <2>2. /\ UNCHANGED serialVars
        /\ \A v \in Uploads : v # u => stage'[v] = stage[v] /\ sent'[v] = sent[v]
    BY <1>1, <2>1 DEF HttpFirstChunk, HttpChunk, HttpAbort, HttpComplete, HttpStart
  <2>3. stage'[u] # "new"
    BY <1>1, <2>1 DEF HttpFirstChunk, HttpChunk, HttpAbort, HttpComplete, HttpStart
  <2>4. NewUnsent'
    BY <2>2, <2>3 DEF StageInv, NewUnsent
  <2> QED
    BY <1>1, <2>2, <2>4 DEF StageInv, SerialStages, SerialFile, serialVars
<1>3. ASSUME NEW u \in SerialSends, SerialMagic(u) PROVE StageInv'
  <2>1. u \in Uploads /\ stage[u] = "new" /\ state = "IDLE"
    BY <1>1, <1>3 DEF SerialMagic
  <2>2. stage' = [stage EXCEPT ![u] = "sending"] /\ UNCHANGED <<sent, outFile>>
        /\ state' = "HEADER" /\ current' = u /\ intact' = TRUE
    BY <1>3 DEF SerialMagic
  <2>3. sent[u] = 0 /\ outFile = Closed
    BY <2>1 DEF StageInv, NewUnsent, SerialFile
  <2> QED
    BY <1>1, <2>1, <2>2, <2>3 DEF StageInv, SerialStages, SerialFile, NewUnsent
<1>4. ASSUME Reset, state # "IDLE", UNCHANGED sent PROVE StageInv'
  <2>1. NewUnsent'
    BY <1>4, ResetStages DEF StageInv, NewUnsent
  <2> QED
    BY <1>4, <2>1, ResetStages DEF StageInv
<1>5. CASE SerialHeader
  <2>1. CASE Reset
    BY <1>4, <1>5, <2>1 DEF SerialHeader
  <2>2. CASE ~Reset
    <3>1. /\ state = "HEADER" /\ state' = "DATA" /\ outFile' = Handle(<<>>)
          /\ UNCHANGED <<stage, current, sent>>
      BY <1>5, <2>2 DEF SerialHeader
    <3>2. SerialFile'
      BY <3>1 DEF StageInv, SerialFile, Handle
    <3>3. SerialStages' /\ NewUnsent'
      BY <3>1 DEF StageInv, SerialStages, NewUnsent
    <3> QED
      BY <3>2, <3>3 DEF StageInv
  <2> QED
    BY <2>1, <2>2
<1>6. CASE SerialData
  <2>1. /\ state = "DATA" /\ UNCHANGED <<stage, current>>
        /\ \A v \in Uploads : v # current => sent'[v] = sent[v]
    BY <1>1, <1>6 DEF SerialData
  <2>2. stage[current] = "sending" /\ outFile.open
    BY <2>1 DEF StageInv, SerialFile
  <2>3. PICK h \in {outFile, [outFile EXCEPT !.data = Append(@, <<current, 0>>)],
                    [outFile EXCEPT !.data = Append(@, <<current, sent[current] + 1>>)]} :
            IF sent[current] + 1 = Length[current]
            THEN state' = "CRC_BYTES" /\ outFile' = Closed
            ELSE state' = state /\ outFile' = h
    BY <1>6 DEF SerialData
  <2>4. h.open
    <3>1. outFile \in Handles /\ current \in Uploads /\ 0 \in Nat /\ sent[current] + 1 \in Nat
      BY <1>1, <2>1 DEF TypeInv, SerialType
    <3>2. /\ [outFile EXCEPT !.data = Append(@, <<current, 0>>)].open = outFile.open
          /\ [outFile EXCEPT !.data = Append(@, <<current, sent[current] + 1>>)].open = outFile.open
      BY <3>1, PieceWritten
    <3> QED
      BY <2>2, <2>3, <3>2
  <2>5. SerialFile'
    BY <2>1, <2>2, <2>3, <2>4 DEF SerialFile
  <2>6. SerialStages' /\ NewUnsent'
    BY <1>1, <2>1, <2>2, <2>3 DEF StageInv, SerialStages, NewUnsent
  <2> QED
    BY <2>5, <2>6 DEF StageInv
<1>7. CASE SerialCrc \/ SerialTimeout
  BY <1>4, <1>7 DEF SerialCrc, SerialTimeout
<1>8. CASE Flasher \/ FlasherFails
  BY <1>8 DEF Flasher, FlasherOpen, FlasherPage, FlasherFails, serverVars, serialVars, StageInv,
     SerialStages, SerialFile, NewUnsent
<1>9. CASE UNCHANGED vars
  BY <1>9 DEF vars, serverVars, serialVars, StageInv, SerialStages, SerialFile, NewUnsent
<1> QED
  BY <1>2, <1>3, <1>5, <1>6, <1>7, <1>8, <1>9 DEF Next, Serial

-----------------------------------------------------------------------------
(* In turn and with room on the file system, the file a campaign reads is   *)
(* the upload it was started for.                                           *)

\* Senders that are out of turn, and faults, are remembered.
LEMMA OrderlyBefore == TypeInv /\ [Next]_vars /\ Orderly' => Orderly
<1> SUFFICES ASSUME TypeInv, [Next]_vars, Orderly' PROVE Orderly
  OBVIOUS
<1>1. ASSUME NEW kind, Happens(kind) PROVE faults \subseteq faults'
  BY <1>1 DEF Happens
<1>2. ASSUME NEW u, NEW n, NEW h, NEW g, Appends(u, n, h, g) PROVE faults \subseteq faults'
  BY <1>1, <1>2 DEF Appends
<1>3. (inTurn' => inTurn) /\ faults \subseteq faults'
  <2>1. CASE Http
    BY <1>1, <1>2, <2>1 DEF Http, HttpFirstChunk, HttpChunk, HttpAbort, HttpComplete, HttpStart,
       fileVars, TypeInv
  <2>2. CASE Serial \/ SerialTimeout
    BY <1>1, <1>2, <2>2 DEF Serial, SerialMagic, SerialHeader, SerialData, SerialCrc,
       SerialTimeout, fileVars, TypeInv
  <2>3. CASE Flasher \/ FlasherFails
    BY <1>1, <2>3 DEF Flasher, FlasherOpen, FlasherPage, FlasherFails, fileVars
  <2>4. CASE UNCHANGED vars
    BY <2>4 DEF vars, fileVars
  <2> QED
    BY <2>1, <2>2, <2>3, <2>4 DEF Next
<1> QED
  BY <1>3 DEF Orderly

\* A campaign started on a file that holds u's image is u's campaign.
LEMMA StartOrder ==
    ASSUME TypeInv, OrderInv, NEW u \in Uploads, disk = Image(u), ~Active, StartFlashing(u),
           UNCHANGED disk
    PROVE  CampaignReads' /\ FlashesTheUpload'
<1>1. Len(disk) = Length[u]
  <2>1. Length[u] \in Nat
    BY UploadsAssumption
  <2> QED
    BY <2>1, PrefixGrows DEF Prefix, Image
<1>2. CASE Len(disk) \in 1 .. MaxLength
  <2>1. /\ totalPages' = Length[u] /\ flasher' = "ENTER_BL" /\ panelIdx' = 0 /\ starter' = u
        /\ disk' = Image(u)
    BY <1>1, <1>2 DEF StartFlashing
  <2>2. CampaignReads'
    BY <2>1 DEF CampaignReads, Image
  <2>3. FlashesTheUpload'
    BY <2>1 DEF FlashesTheUpload
  <2> QED
    BY <2>2, <2>3
<1>3. CASE Len(disk) \notin 1 .. MaxLength
  BY <1>3 DEF StartFlashing, OrderInv, CampaignReads, FlashesTheUpload, Active
<1> QED
  BY <1>2, <1>3

\* While a request is under way nothing else is: no campaign, no serial upload.
LEMMA RequestAlone ==
    ASSUME TypeInv, StageInv, OrderInv, NEW u \in Requests, Busy(u)
    PROVE  /\ ~Active /\ state = "IDLE"
           /\ \A v \in Uploads : Busy(v) => v = u
<1>1. u \in Uploads /\ u \notin SerialSends /\ SerialSends \subseteq Uploads
  BY UploadsAssumption DEF Uploads
<1>2. ~Active /\ \A v \in Uploads : Busy(v) => v = u
  BY <1>1 DEF OrderInv, OneAtATime
<1>3. ASSUME state # "IDLE" PROVE FALSE
  <2>1. current \in SerialSends /\ Busy(current)
    BY <1>3 DEF TypeInv, SerialType, StageInv, SerialFile, Busy
  <2> QED
    BY <1>1, <1>2, <2>1
<1> QED
  BY <1>2, <1>3

\* While the receiver is in the middle of an upload, no request is.
LEMMA SerialAlone ==
    ASSUME TypeInv, StageInv, OrderInv, state # "IDLE"
    PROVE  /\ current \in SerialSends /\ current \in Uploads /\ current \notin Requests
           /\ \A v \in Uploads : Busy(v) => v = current
<1>1. current \in SerialSends /\ current \in Uploads /\ Busy(current)
  BY DEF TypeInv, SerialType, StageInv, SerialFile, Busy, Uploads
<1> QED
  BY <1>1, UploadsAssumption DEF OrderInv, OneAtATime

\* A request's steps keep the campaign on one upload.
LEMMA HttpOrder ==
    ASSUME UploadInv, OrderInv, Orderly', Http
    PROVE  OrderInv'
<1> USE DEF Busy
<1>1. /\ TypeInv /\ StageInv
      /\ stage \in [Uploads -> {"new", "sending", "complete", "checked", "ended"}]
      /\ sent \in [Uploads -> Nat] /\ Length \in [Uploads -> Nat \ {0}]
      /\ \A u \in Requests : u \in Uploads
      /\ uploadFile \in Handles /\ disk \in Pieces
      /\ OneAtATime /\ HttpWritten /\ SerialWritten /\ CampaignReads /\ FlashesTheUpload
  BY UploadsAssumption DEF UploadInv, CompleteInv, TypeInv, ServerType, OrderInv, Uploads
<1>2. PICK u \in Requests : \/ HttpFirstChunk(u) \/ HttpChunk(u) \/ HttpAbort(u)
                            \/ HttpComplete(u) \/ HttpStart(u)
  BY DEF Http
<1>3. u \in Uploads
  BY <1>1
\* From here on it is enough that the other uploads are where they were.
<1>4. ASSUME ~Active', state' = "IDLE", \A v \in Uploads : stage'[v] \in {"sending", "complete", "checked"} => v = u,
             UNCHANGED flasherVars,
             stage'[u] = "sending" =>
                sent'[u] < Length[u] /\ uploadFile' = Handle(Prefix(u, sent'[u])),
             stage'[u] \in {"complete", "checked"} => disk' = Image(u)
      PROVE  OrderInv'
  <2>1. OneAtATime'
    BY <1>1, <1>4 DEF OneAtATime
  <2>2. HttpWritten'
    BY <1>1, <1>4 DEF HttpWritten, Image, Prefix
  <2>3. SerialWritten' /\ CampaignReads'
    BY <1>4 DEF SerialWritten, CampaignReads, Active
  <2>4. FlashesTheUpload'
    BY <1>1, <1>4 DEF FlashesTheUpload, flasherVars, Image
  <2> QED
    BY <2>1, <2>2, <2>3, <2>4 DEF OrderInv
<1>5. CASE HttpFirstChunk(u)
  <2>1. /\ \A v \in Uploads : stage[v] \in {"new", "ended"}
        /\ ~Active /\ faults' \cap {"HTTP_OPEN", "WRITE"} = {}
    BY <1>5 DEF HttpFirstChunk, Orderly, InTurn
  <2>2. state = "IDLE"
    BY <1>1, <2>1 DEF StageInv, SerialFile, TypeInv, SerialType, Uploads
  <2>3. ASSUME NEW kind \in {"HTTP_OPEN", "WRITE"}, Happens(kind) PROVE FALSE
    BY <2>1, <2>3 DEF Happens
  <2>4. PICK h \in {Handle(<<>>), Handle(<<<<u, 1>>>>), Closed} :
            /\ \/ h = Closed /\ Happens("HTTP_OPEN")
               \/ h.open /\ Appends(u, 1, Handle(<<>>), h)
            /\ uploadFile' = IF Length[u] = 1 THEN Closed ELSE h
            /\ IF Length[u] = 1
               THEN disk' = AfterClose(h, AfterClose(uploadFile, disk))
               ELSE disk' \in {AfterClose(uploadFile, disk), AfterClose(h, disk)}
    BY <1>5 DEF HttpFirstChunk
  <2>5. h = Handle(Prefix(u, 1))
    <3>1. h = [Handle(<<>>) EXCEPT !.data = Append(@, <<u, 1>>)]
      BY <2>3, <2>4 DEF Appends
    <3>2. Append(<<>>, <<u, 1>>) = <<<<u, 1>>>>
      OBVIOUS
    <3> QED
      BY <1>3, <3>1, <3>2, PrefixStarts DEF Handle
  <2>6. /\ stage' = [stage EXCEPT ![u] = IF Length[u] = 1 THEN "complete" ELSE "sending"]
        /\ sent' = [sent EXCEPT ![u] = 1] /\ UNCHANGED <<serialVars, flasherVars>>
    BY <1>5 DEF HttpFirstChunk
  <2>7. ~Active' /\ state' = "IDLE"
    BY <2>1, <2>2, <2>6 DEF serialVars, flasherVars, Active
  <2>8. stage'[u] = "sending" => sent'[u] < Length[u] /\ uploadFile' = Handle(Prefix(u, sent'[u]))
    BY <1>1, <1>3, <2>4, <2>5, <2>6
  <2>9. stage'[u] \in {"complete", "checked"} => disk' = Image(u)
    BY <1>1, <1>3, <2>4, <2>5, <2>6 DEF Image, Prefix, AfterClose, Handle
  <2> QED
    BY <1>1, <1>4, <2>1, <2>6, <2>7, <2>8, <2>9
<1>6. CASE HttpChunk(u)
  <2>1. /\ stage[u] = "sending" /\ sent[u] < Length[u] /\ uploadFile = Handle(Prefix(u, sent[u]))
        /\ sent[u] \in Nat /\ Length[u] \in Nat
    BY <1>1, <1>6 DEF HttpChunk, HttpWritten
  <2>2. ~Active /\ state = "IDLE" /\ \A v \in Uploads : Busy(v) => v = u
    BY <1>1, <2>1, RequestAlone
  <2>3. ~Happens("WRITE")
    BY DEF Happens, Orderly
  <2>4. PICK h : /\ Appends(u, sent[u] + 1, uploadFile, h)
                 /\ IF sent[u] + 1 = Length[u]
                    THEN uploadFile' = Closed /\ disk' = AfterClose(h, disk)
                    ELSE uploadFile' = h /\ Written(AfterClose(h, disk))
    BY <1>6, <2>1 DEF HttpChunk, Handle
  <2>5. h = Handle(Prefix(u, sent[u] + 1))
    <3>1. h = [uploadFile EXCEPT !.data = Append(@, <<u, sent[u] + 1>>)]
      BY <2>3, <2>4 DEF Appends
    <3> QED
      BY <1>3, <2>1, <3>1, PrefixGrows DEF Handle
  <2>6. /\ stage' = [stage EXCEPT ![u] = IF sent[u] + 1 = Length[u] THEN "complete" ELSE @]
        /\ sent' = [sent EXCEPT ![u] = @ + 1] /\ UNCHANGED <<serialVars, flasherVars>>
    BY <1>6 DEF HttpChunk
  <2>7. ~Active' /\ state' = "IDLE"
    BY <2>2, <2>6 DEF serialVars, flasherVars, Active
  <2>8. stage'[u] = "sending" => sent'[u] < Length[u] /\ uploadFile' = Handle(Prefix(u, sent'[u]))
    BY <1>1, <1>3, <2>1, <2>4, <2>5, <2>6
  <2>9. stage'[u] \in {"complete", "checked"} => disk' = Image(u)
    BY <1>1, <1>3, <2>1, <2>4, <2>5, <2>6 DEF Image, Prefix, AfterClose, Handle
  <2> QED
    BY <1>1, <1>4, <2>2, <2>6, <2>7, <2>8, <2>9
<1>7. CASE HttpAbort(u) \/ HttpComplete(u)
  <2>1. /\ UNCHANGED <<fileVars, sent, uploadFile, serialVars, flasherVars>>
        /\ \E s \in {"ended", "checked"} : stage' = [stage EXCEPT ![u] = s]
        /\ stage'[u] = "checked" => stage[u] = "complete"
        /\ Busy(u)
    BY <1>1, <1>3, <1>7 DEF HttpAbort, HttpComplete
  <2>2. ~Active /\ state = "IDLE" /\ \A v \in Uploads : Busy(v) => v = u
    BY <1>1, <2>1, RequestAlone
  <2>3. ~Active' /\ state' = "IDLE"
    BY <2>1, <2>2 DEF serialVars, flasherVars, Active
  <2>4. stage'[u] = "checked" => disk' = Image(u)
    BY <1>1, <2>1 DEF HttpWritten, fileVars
  <2> QED
    BY <1>1, <1>3, <1>4, <2>1, <2>2, <2>3, <2>4
<1>8. CASE HttpStart(u)
  <2>1. /\ stage[u] = "checked" /\ disk = Image(u) /\ StartFlashing(u)
        /\ stage' = [stage EXCEPT ![u] = "ended"] /\ UNCHANGED <<fileVars, sent, uploadFile, serialVars>>
    BY <1>1, <1>8 DEF HttpStart, HttpWritten
  <2>2. ~Active /\ state = "IDLE" /\ \A v \in Uploads : Busy(v) => v = u
    BY <1>1, <2>1, RequestAlone
  <2>3. CampaignReads' /\ FlashesTheUpload'
    BY <1>1, <1>3, <2>1, <2>2, StartOrder DEF fileVars
  <2>4. \A v \in Uploads : stage'[v] \notin {"sending", "complete", "checked"}
    BY <1>1, <2>1, <2>2
  <2>5. OneAtATime' /\ HttpWritten' /\ SerialWritten'
    BY <1>1, <2>1, <2>2, <2>4 DEF OneAtATime, HttpWritten, SerialWritten, serialVars
  <2> QED
    BY <2>3, <2>5 DEF OrderInv
<1> QED
  BY <1>2, <1>5, <1>6, <1>7, <1>8

\* The serial receiver's steps keep the campaign on one upload.
LEMMA SerialOrder ==
    ASSUME UploadInv, OrderInv, Orderly', Serial \/ SerialTimeout
    PROVE  OrderInv'
<1> USE DEF Busy
<1>1. /\ TypeInv /\ StageInv
      /\ stage \in [Uploads -> {"new", "sending", "complete", "checked", "ended"}]
      /\ sent \in [Uploads -> Nat] /\ Length \in [Uploads -> Nat \ {0}]
      /\ \A u \in Requests : u \in Uploads
      /\ \A u \in SerialSends : u \in Uploads /\ u \notin Requests
      /\ outFile \in Handles
      /\ OneAtATime /\ HttpWritten /\ SerialWritten /\ CampaignReads /\ FlashesTheUpload
  BY UploadsAssumption DEF UploadInv, CompleteInv, TypeInv, ServerType, SerialType, OrderInv, Uploads
\* No request is under way, so none has to be looked after.
<1>2. ASSUME \A u \in Requests : stage'[u] \notin {"sending", "complete", "checked"}
      PROVE  HttpWritten'
  BY <1>2 DEF HttpWritten
<1>3. ASSUME UNCHANGED <<disk, flasherVars>> PROVE CampaignReads' /\ FlashesTheUpload'
  BY <1>1, <1>3 DEF CampaignReads, FlashesTheUpload, flasherVars, Active, Image, Prefix
<1>4. ASSUME NEW u \in SerialSends, SerialMagic(u) PROVE OrderInv'
  <2>1. /\ \A v \in Uploads : stage[v] \in {"new", "ended"}
        /\ stage' = [stage EXCEPT ![u] = "sending"] /\ state' = "HEADER" /\ u \in Uploads
        /\ u \notin Requests
        /\ UNCHANGED <<disk, flasherVars>>
    BY <1>1, <1>4 DEF SerialMagic, Orderly, InTurn
  <2>2. OneAtATime' /\ SerialWritten'
    BY <1>1, <2>1 DEF OneAtATime, SerialWritten
  <2>3. HttpWritten'
    BY <1>1, <1>2, <2>1
  <2> QED
    BY <1>3, <2>1, <2>2, <2>3 DEF OrderInv
\* After reset() no upload is under way at all.
<1>5. ASSUME state # "IDLE", Reset
      PROVE  OneAtATime' /\ HttpWritten' /\ SerialWritten'
  <2>1. /\ current \in Uploads /\ \A v \in Uploads : Busy(v) => v = current
        /\ stage' = [stage EXCEPT ![current] = "ended"] /\ state' = "IDLE"
    BY <1>1, <1>5, SerialAlone DEF Reset
  <2>2. \A v \in Uploads : stage'[v] \notin {"sending", "complete", "checked"}
    BY <1>1, <2>1
  <2> QED
    BY <1>1, <1>2, <2>1, <2>2 DEF OneAtATime, SerialWritten
<1>6. CASE SerialHeader
  <2>1. CASE Reset
    <3>1. UNCHANGED <<disk, flasherVars>> /\ state # "IDLE"
      BY <1>6, <2>1 DEF SerialHeader, Reset
    <3> QED
      BY <1>3, <1>5, <2>1, <3>1 DEF OrderInv
  <2>2. CASE ~Reset
    <3>1. /\ state = "HEADER" /\ state' = "DATA" /\ outFile' = Handle(<<>>) /\ ~Active
          /\ UNCHANGED <<stage, current, sent, flasherVars>>
      BY <1>6, <2>2 DEF SerialHeader, SerialRefuses
    <3>2. /\ current \in Uploads /\ current \notin Requests
          /\ \A v \in Uploads : Busy(v) => v = current
      BY <1>1, <3>1, SerialAlone
    <3>3. ~Active'
      BY <3>1 DEF flasherVars, Active
    <3>4. OneAtATime' /\ HttpWritten'
      BY <1>1, <1>2, <3>1, <3>2, <3>3 DEF OneAtATime
    <3>5. SerialWritten'
      <4>1. sent[current] = 0
        BY <1>1, <3>1 DEF StageInv, SerialFile
      <4>2. 0 < Length[current] /\ <<>> = Prefix(current, 0)
        BY <1>1, <3>2, PrefixStarts
      <4> QED
        BY <3>1, <4>1, <4>2 DEF SerialWritten, Handle
    <3>6. CampaignReads' /\ FlashesTheUpload'
      BY <1>1, <3>1, <3>3 DEF CampaignReads, FlashesTheUpload, flasherVars, Active, Image
    <3> QED
      BY <3>4, <3>5, <3>6 DEF OrderInv
  <2> QED
    BY <2>1, <2>2
<1>7. CASE SerialData
  <2>1. /\ state = "DATA" /\ sent' = [sent EXCEPT ![current] = @ + 1]
        /\ UNCHANGED <<stage, current, flasherVars>>
    BY <1>7 DEF SerialData
  <2>2. /\ current \in Uploads /\ current \notin Requests
        /\ \A v \in Uploads : Busy(v) => v = current
    BY <1>1, <2>1, SerialAlone
  <2>3. /\ ~Active /\ sent[current] < Length[current] /\ sent[current] \in Nat
        /\ Length[current] \in Nat
        /\ intact => outFile.data = Prefix(current, sent[current])
    BY <1>1, <2>1, <2>2 DEF OneAtATime, SerialWritten
  <2>4. PICK n \in {0, sent[current] + 1},
             h \in {outFile, [outFile EXCEPT !.data = Append(@, <<current, 0>>)],
                    [outFile EXCEPT !.data = Append(@, <<current, sent[current] + 1>>)]} :
            /\ \/ n > 0 /\ Appends(current, n, outFile, h) /\ UNCHANGED intact
               \/ n = 0 /\ intact' = FALSE
            /\ IF sent[current] + 1 = Length[current]
               THEN state' = "CRC_BYTES" /\ outFile' = Closed /\ disk' = h.data
               ELSE state' = state /\ outFile' = h
    BY <1>7 DEF SerialData
  <2>5. intact' => h.data = Prefix(current, sent[current] + 1)
    <3>1. SUFFICES ASSUME intact' PROVE h.data = Prefix(current, sent[current] + 1)
      OBVIOUS
    <3>2. n = sent[current] + 1 /\ Appends(current, n, outFile, h) /\ UNCHANGED intact
      <4>1. CASE n > 0 /\ Appends(current, n, outFile, h) /\ UNCHANGED intact
        BY <2>3, <2>4, <4>1
      <4>2. CASE n = 0 /\ intact' = FALSE
        BY <3>1, <4>2
      <4> QED
        BY <2>4, <4>1, <4>2
    <3>6. outFile.data = Prefix(current, sent[current])
      BY <2>3, <3>1, <3>2
    <3>3. ~Happens("WRITE")
      BY DEF Happens, Orderly
    <3>4. h = [outFile EXCEPT !.data = Append(@, <<current, sent[current] + 1>>)]
      BY <3>2, <3>3 DEF Appends
    <3>5. h.data = Append(outFile.data, <<current, sent[current] + 1>>)
      BY <1>1, <2>2, <2>3, <3>4, PieceWritten
    <3> QED
      BY <2>2, <2>3, <3>6, <3>5, PrefixGrows
  <2>6. ~Active'
    BY <2>1, <2>3 DEF flasherVars, Active
  <2>7. OneAtATime' /\ HttpWritten'
    BY <1>1, <1>2, <2>1, <2>2, <2>6 DEF OneAtATime
  <2>8. sent'[current'] = sent[current] + 1
    BY <1>1, <2>1, <2>2
  <2>9. SerialWritten'
    <3>1. CASE sent[current] + 1 = Length[current]
      BY <2>1, <2>4, <2>5, <3>1 DEF SerialWritten, Image, Prefix
    <3>2. CASE sent[current] + 1 # Length[current]
      BY <2>1, <2>3, <2>4, <2>5, <2>8, <3>2 DEF SerialWritten
    <3> QED
      BY <3>1, <3>2
  <2>10. CampaignReads' /\ FlashesTheUpload'
    BY <1>1, <2>1, <2>6 DEF CampaignReads, FlashesTheUpload, flasherVars, Active, Image
  <2> QED
    BY <2>7, <2>9, <2>10 DEF OrderInv
<1>8. CASE SerialCrc
  <2>1. /\ state = "CRC_BYTES" /\ Reset /\ UNCHANGED disk
        /\ IF intact THEN StartFlashing(current) ELSE UNCHANGED flasherVars
    BY <1>8 DEF SerialCrc, CrcMatches, fileVars
  <2>2. CampaignReads' /\ FlashesTheUpload'
    <3>1. CASE intact
      <4>1. current \in Uploads /\ ~Active /\ disk = Image(current)
        BY <1>1, <2>1, <3>1, SerialAlone DEF OneAtATime, SerialWritten
      <4> QED
        BY <1>1, <2>1, <3>1, <4>1, StartOrder
    <3>2. CASE ~intact
      BY <1>3, <2>1, <3>2
    <3> QED
      BY <3>1, <3>2
  <2> QED
    BY <1>5, <2>1, <2>2 DEF OrderInv
<1>9. CASE SerialTimeout
  <2>1. /\ state # "IDLE" /\ Reset /\ UNCHANGED flasherVars
        /\ disk' = AfterClose(outFile, disk)
    BY <1>9 DEF SerialTimeout
  <2>2. CampaignReads' /\ FlashesTheUpload'
    <3>1. CASE state = "DATA"
      <4>1. ~Active /\ ~Active'
        BY <1>1, <2>1, <3>1 DEF OneAtATime, flasherVars, Active
      <4> QED
        BY <1>1, <2>1, <4>1 DEF CampaignReads, FlashesTheUpload, flasherVars, Active, Image
    <3>2. CASE state # "DATA"
      <4>1. outFile = Closed
        BY <1>1, <2>1, <3>2 DEF StageInv, SerialFile, TypeInv, SerialType
      <4> QED
        BY <1>3, <2>1, <4>1 DEF AfterClose, Closed
    <3> QED
      BY <3>1, <3>2
  <2> QED
    BY <1>5, <2>1, <2>2 DEF OrderInv
<1> QED
  BY <1>4, <1>6, <1>7, <1>8, <1>9 DEF Serial

\* The campaign's steps hand every panel the file's pages in their order.
LEMMA FlasherOrder ==
    ASSUME UploadInv, OrderInv, Flasher \/ FlasherFails
    PROVE  OrderInv'
<1>1. /\ Active /\ panelIdx \in 0 .. TotalPanels /\ panelIdx < TotalPanels /\ TotalPanels \in Nat
      /\ currentPage \in Nat /\ totalPages \in Nat
      /\ image \in [1 .. TotalPanels -> Pieces]
      /\ state = "IDLE"
      /\ OneAtATime /\ HttpWritten /\ SerialWritten /\ CampaignReads /\ FlashesTheUpload
  BY UploadsAssumption DEF UploadInv, CompleteInv, TypeInv, FlasherType, OrderInv, Flasher,
     FlasherOpen, FlasherPage, FlasherFails, Active
<1>2. starter \in Uploads /\ starter # NoUpload /\ disk = Image(starter)
      /\ totalPages = Length[starter] /\ panelIdx + 1 \in 1 .. TotalPanels
  BY <1>1, UploadsAssumption DEF CampaignReads
<1>3. UNCHANGED <<disk, serverVars, serialVars, totalPages, starter>>
  BY DEF Flasher, FlasherOpen, FlasherPage, FlasherFails, fileVars
<1>4. OneAtATime' /\ HttpWritten' /\ SerialWritten'
  <2>1. \A u \in Requests : ~Busy(u)
    BY <1>1 DEF OneAtATime
  <2> QED
    BY <1>1, <1>3, <2>1 DEF OneAtATime, HttpWritten, SerialWritten, serverVars, serialVars, Busy
<1>5. CASE FlasherOpen
  <2>1. /\ flasher' = "FLASHING" /\ currentPage' = 0 /\ flashFile' = disk /\ panelIdx' = panelIdx
        /\ image' = [image EXCEPT ![panelIdx + 1] = <<>>]
    BY <1>5 DEF FlasherOpen
  <2>2. CampaignReads'
    <3>1. image'[panelIdx + 1] = Prefix(starter, 0)
      BY <1>1, <1>2, <2>1, PrefixStarts
    <3> QED
      BY <1>2, <1>3, <2>1, <3>1 DEF CampaignReads, Image, Prefix
  <2>3. FlashesTheUpload'
    BY <1>1, <1>2, <1>3, <2>1 DEF FlashesTheUpload, Image
  <2> QED
    BY <1>4, <2>2, <2>3 DEF OrderInv
<1>6. CASE FlasherPage
  <2>1. /\ flasher = "FLASHING" /\ flashFile = Image(starter)
        /\ image[panelIdx + 1] = Prefix(starter, currentPage)
    BY <1>1, <1>6 DEF FlasherPage, CampaignReads
  <2>2. CASE ReadError
    BY <1>1, <1>3, <1>4, <1>6, <2>2 DEF FlasherPage, CampaignReads, FlashesTheUpload, OrderInv,
       Active, Image
  <2>3. CASE ~ReadError
    <3>1. currentPage < totalPages
      BY <2>1 DEF UploadInv, CompleteInv, UnderWay
    <3>2. /\ image' = [image EXCEPT ![panelIdx + 1] = Append(@, flashFile[currentPage + 1])]
          /\ currentPage' = currentPage + 1
      BY <1>6, <2>3 DEF FlasherPage
    <3>3. Append(image[panelIdx + 1], flashFile[currentPage + 1]) = Prefix(starter, currentPage + 1)
      <4>1. Length[starter] \in Nat /\ currentPage \in 0 .. Length[starter] - 1
        BY <1>1, <1>2, <3>1
      <4> QED
        BY <1>2, <2>1, <4>1, PrefixRead DEF Image, Prefix
    <3>4. /\ image'[panelIdx + 1] = Prefix(starter, currentPage + 1)
          /\ \A p \in 1 .. panelIdx : image'[p] = image[p]
      BY <1>1, <1>2, <3>2, <3>3
    <3>5. CASE LastPage
      <4>1. /\ panelIdx' = panelIdx + 1 /\ currentPage + 1 = Length[starter]
            /\ flasher' \in {"DONE", "ENTER_BL"}
        BY <1>1, <1>2, <1>6, <2>3, <3>1, <3>5 DEF FlasherPage, LastPage
      <4>2. image'[panelIdx + 1] = Image(starter)
        BY <3>4, <4>1 DEF Prefix, Image
      <4>3. FlashesTheUpload'
        <5>1. \A p \in 1 .. panelIdx + 1 : image'[p] = Image(starter)
          BY <1>1, <3>4, <4>2 DEF FlashesTheUpload
        <5> QED
          BY <1>2, <1>3, <4>1, <5>1 DEF FlashesTheUpload, Image
      <4>4. CampaignReads'
        BY <1>2, <1>3, <4>1 DEF CampaignReads, Image
      <4> QED
        BY <1>4, <4>3, <4>4 DEF OrderInv
    <3>6. CASE ~LastPage
      <4>1. UNCHANGED <<panelIdx, flasher, flashFile>>
        BY <1>6, <2>3, <3>6 DEF FlasherPage
      <4>2. FlashesTheUpload'
        BY <1>1, <1>3, <3>4, <4>1 DEF FlashesTheUpload, Image
      <4>3. CampaignReads'
        BY <1>2, <1>3, <2>1, <3>2, <3>4, <4>1 DEF CampaignReads, Image, Prefix
      <4> QED
        BY <1>4, <4>2, <4>3 DEF OrderInv
    <3> QED
      BY <3>5, <3>6
  <2> QED
    BY <2>2, <2>3
<1>7. CASE FlasherFails
  BY <1>1, <1>3, <1>4, <1>7 DEF FlasherFails, CampaignReads, FlashesTheUpload, OrderInv, Active, Image
<1> QED
  BY <1>5, <1>6, <1>7 DEF Flasher

\* UploadInv is inductive.
LEMMA UploadPreserved == UploadInv /\ [Next]_vars => UploadInv'
<1> SUFFICES ASSUME UploadInv, [Next]_vars PROVE UploadInv'
  OBVIOUS
<1>1. CompleteInv' /\ StageInv'
  BY CompletePreserved, StagePreserved DEF UploadInv, CompleteInv
<1>2. ASSUME Orderly' PROVE OrderInv'
  <2>1. OrderInv
    BY <1>2, OrderlyBefore DEF UploadInv, CompleteInv
  <2>2. CASE UNCHANGED vars
    BY <2>1, <2>2 DEF vars, fileVars, serverVars, serialVars, flasherVars, OrderInv, OneAtATime,
       HttpWritten, SerialWritten, CampaignReads, FlashesTheUpload, Busy, Active, Image, Prefix
  <2> QED
    BY <1>2, <2>1, <2>2, HttpOrder, SerialOrder, FlasherOrder DEF Next
<1> QED
  BY <1>1, <1>2 DEF UploadInv

\* Nothing has been uploaded at first.
LEMMA UploadInit == Init => UploadInv
<1> SUFFICES ASSUME Init PROVE UploadInv
  OBVIOUS
<1>1. CompleteInv
  BY CompleteInit
<1>2. \A u \in Uploads : ~Busy(u)
  BY DEF Init, Busy
<1>3. SerialSends \subseteq Uploads /\ Requests \subseteq Uploads
  BY DEF Uploads
<1>4. StageInv
  BY <1>2, <1>3 DEF Init, StageInv, SerialStages, SerialFile, NewUnsent
<1>5. OrderInv
  BY <1>2, <1>3 DEF Init, OrderInv, OneAtATime, HttpWritten, SerialWritten, CampaignReads,
     FlashesTheUpload, Active, Busy
<1> QED
  BY <1>1, <1>4, <1>5 DEF UploadInv

\* As long as senders take turns and the file system has room, every panel the campaign
\* is done with holds the upload it was started for, whole, whatever is damaged,
\* refused or broken off (handleUploadBody(), SerialFirmwareReceiver, startFlashing()).
THEOREM OrderlyFlashes == Spec => []OrderlyFlashesTheUpload
<1>1. Spec => []UploadInv
  BY UploadInit, UploadPreserved, PTL DEF Spec
<1>2. UploadInv => OrderlyFlashesTheUpload
  BY DEF UploadInv, OrderInv, OrderlyFlashesTheUpload
<1> QED
  BY <1>1, <1>2, PTL

=============================================================================
