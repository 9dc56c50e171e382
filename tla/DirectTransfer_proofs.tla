------------------------ MODULE DirectTransfer_proofs ------------------------
(***************************************************************************)
(* Proofs about DirectTransfer, for any sends, files and sizes and any     *)
(* number of breaks and crashes, provided uploads of a file never overlap  *)
(* and files have names of their own (the two runs that expect a violation *)
(* show that neither can be left out): the model implements Delivery.      *)
(***************************************************************************)
EXTENDS DirectTransfer, TLAPS

USE DEF sender, sessions, upload, disk, faults

(* What the proofs assume of an instance.                                  *)
Premise ==
    /\ Exclusive
    /\ \A f, g \in Files : NameOf[f] = NameOf[g] => f = g
    /\ \A f \in Files : NameOf[f] # NoFile

(* The types of what is kept.                                              *)
Statuses == {"none", "pending", "running", "completed", "failed", "canceled"}
Labels == {"idle", "preparing", "waiting", "asking", "between", "uploading", "succeeded", "failed"}
Contents == [file : Files \cup {NoFile}, length : Nat, intact : BOOLEAN]

TypeOK ==
    /\ task \in [Sends -> Statuses]
    /\ cancelled \in [Sends -> BOOLEAN]
    /\ at \in [Sends -> Labels]
    /\ left \in [Sends -> SUBSET Files]
    /\ offset \in [Sends -> [Files -> Nat]]
    /\ sending \in [Sends -> Files \cup {NoFile}]
    /\ sent \in [Sends -> Nat]
    /\ late \in [Sends -> Nat]
    /\ session \in [Sends -> {"none", "pending", "accepted", "rejected"}]
    /\ expected \in [Sends -> SUBSET Files]
    /\ path \in [Sends -> [Files -> Paths]]
    /\ rejecting \subseteq Sends
    /\ handler \in [Sends -> Files \cup {NoFile}]
    /\ written \in [Sends -> Nat]
    /\ opened \in [Sends -> Paths \cup {InPart, Gone}]
    /\ incoming \in [Sends -> Statuses]
    /\ part \in [Files -> Contents]
    /\ downloads \in [Paths -> Contents]
    /\ wire \in [Sends -> {"closed", "open", "eof", "ok", "refused", "broken"}]

(* No two uploads of one file.                                             *)
OneUpload ==
    \A s, u \in Sends : handler[s] = handler[u] /\ handler[s] # NoFile => s = u

(* What is on the receiver's disk: of each upload the first chunks in      *)
(* order, and saved files whole, under their own names.                    *)
PartInv ==
    \A f \in Files : \/ part[f] = Nothing
                     \/ \E n \in 0..Size[f] : part[f] = Content(f, n, TRUE)

SavedInv ==
    \A p \in Paths : \/ downloads[p] = Nothing
                     \/ \E f \in Files : downloads[p] = Whole(f) /\ p[1] = NameOf[f]

PathInv == \A s \in Sends, f \in Files : path[s][f][1] = NameOf[f]

(* An upload under way: its .part file holds what has been written, which  *)
(* is no more than was sent.                                               *)
Uploading(s, f) ==
    /\ opened[s] = InPart
    /\ part[f] = Content(f, written[s], TRUE)
    /\ written[s] <= sent[s] /\ sent[s] <= Size[f]
    /\ wire[s] \in {"open", "eof", "broken"}
    /\ wire[s] = "eof" => sent[s] = Size[f]
    /\ f \in expected[s] /\ session[s] \in {"accepted", "rejected"}
    /\ at[s] \in {"uploading", "failed"}
    /\ at[s] = "uploading" => sending[s] = f

UploadInv == \A s \in Sends : handler[s] # NoFile => Uploading(s, handler[s])

IsSaved(f) == \E p \in Paths : downloads[p] = Whole(f)

(* The receiver: what a session does not wait for is saved.                *)
SessionInv ==
    \A s \in Sends :
       /\ at[s] \in {"idle", "preparing"} => session[s] = "none" /\ incoming[s] = "none"
       /\ expected[s] \subseteq FilesOf[s]
       /\ session[s] # "none" =>
             /\ incoming[s] # "completed"
             /\ \A f \in FilesOf[s] : f \in expected[s] \/ IsSaved(f)
       /\ incoming[s] = "completed" => \A f \in FilesOf[s] : IsSaved(f)

(* The sender: what it has not to send any more is saved.                  *)
SenderInv ==
    \A s \in Sends :
       /\ \A f \in FilesOf[s] : f \in left[s] \/ IsSaved(f)
       /\ at[s] = "uploading" => sending[s] \in Files
       /\ at[s] = "uploading" /\ wire[s] = "ok" => IsSaved(sending[s])
       /\ at[s] = "succeeded" => left[s] = {}

TransferInv ==
    /\ TypeOK /\ OneUpload /\ PartInv /\ SavedInv /\ PathInv
    /\ UploadInv /\ SessionInv /\ SenderInv

-----------------------------------------------------------------------------
(* Contents.                                                               *)

(* The first chunks of a file are not nothing, and tell how many they are. *)
LEMMA ContentsDiffer ==
    ASSUME NEW f \in Files, NEW g \in Files, NEW m, NEW n
    PROVE  /\ Content(f, m, TRUE) # Nothing
           /\ Content(f, m, TRUE) = Content(g, n, TRUE) => f = g /\ m = n
  BY SizesAssumption DEF Content, Nothing

(* No saved file is where an open file cannot be.                          *)
LEMMA NoPath == Premise => InPart \notin Paths
  BY DEF Premise, Paths, InPart

(* The chunk that follows extends what is intact.                          *)
LEMMA Extending ==
    ASSUME NEW f \in Files, NEW n \in Nat
    PROVE  Extend(Content(f, n, TRUE), n) = Content(f, n + 1, TRUE)
<1> DEFINE c == Content(f, n, TRUE)
<1>1. c.file = f /\ c.length = n
  BY DEF Content
<1>2. c.intact
  BY DEF Content
<1>3. (c.intact /\ c.length = n) = TRUE
  BY <1>1, <1>2, Zenon
<1>4. Extend(c, n) = Content(c.file, c.length + 1, c.intact /\ c.length = n)
  BY DEF Extend
<1> QED
  BY <1>1, <1>3, <1>4, Zenon

(* A failing task's state stays typed.                                     *)
LEMMA Failing ==
    ASSUME TypeOK, NEW s \in Sends, Fail(s)
    PROVE  /\ task' \in [Sends -> Statuses] /\ at' \in [Sends -> Labels]
           /\ at' = [at EXCEPT ![s] = "failed"]
  BY DEF TypeOK, Fail, Goto, Statuses, Labels

-----------------------------------------------------------------------------
(* What a step leaves alone.                                               *)

(* The step leaves the uploads under way, and the disk, as they are.       *)
UploadsAlone ==
    /\ UNCHANGED <<upload, disk, wire, sent, sending>>
    /\ \A u \in Sends : handler[u] # NoFile =>
          /\ at'[u] = at[u] \/ at'[u] = "failed"
          /\ expected'[u] = expected[u]
          /\ session'[u] \in {"accepted", "rejected"}

(* Who is uploading is between a POST and its answer, or has failed; the   *)
(* receiver has decided on the session.                                    *)
LEMMA WhoUploads ==
    ASSUME TransferInv
    PROVE  \A u \in Sends : handler[u] # NoFile =>
              at[u] \in {"uploading", "failed"} /\ session[u] \in {"accepted", "rejected"}
  BY DEF TransferInv, UploadInv, Uploading

(* Then all that is said of them and of the disk remains.                  *)
LEMMA UploadsRemain ==
    ASSUME TransferInv, UploadsAlone
    PROVE  OneUpload' /\ PartInv' /\ SavedInv' /\ UploadInv'
<1>1. OneUpload'
  BY DEF TransferInv, UploadsAlone, OneUpload
<1>2. PartInv' /\ SavedInv'
  BY DEF TransferInv, UploadsAlone, PartInv, SavedInv
<1>3. UploadInv'
  <2> SUFFICES ASSUME NEW u \in Sends, handler[u] # NoFile PROVE Uploading(u, handler[u])'
    BY DEF UploadsAlone, UploadInv
  <2>1. Uploading(u, handler[u])
    BY DEF TransferInv, UploadInv
  <2> QED
    BY <2>1 DEF UploadsAlone, Uploading
<1> QED
  BY <1>1, <1>2, <1>3

-----------------------------------------------------------------------------
(* Steps that leave the uploads under way alone.                           *)

(* A task starts.                                                          *)
LEMMA StartSendKeeps ==
    ASSUME TransferInv, NEW s \in Sends, StartSend(s) PROVE TransferInv'
<1>1. TypeOK' /\ PathInv'
  BY DEF TransferInv, StartSend, Goto, TypeOK, Statuses, Labels, PathInv
<1>2. UploadsAlone
  BY WhoUploads DEF TransferInv, StartSend, Goto, UploadsAlone, TypeOK
<1>3. SessionInv' /\ SenderInv'
  BY DEF TransferInv, StartSend, Goto, SessionInv, SenderInv, IsSaved, TypeOK
<1> QED
  BY <1>1, <1>2, <1>3, UploadsRemain DEF TransferInv

(* A session is made, or the request or its answer fails.                  *)
LEMMA PrepareKeeps ==
    ASSUME TransferInv, NEW s \in Sends, Prepare(s) PROVE TransferInv'
<1>1. CASE OpenSession(s) /\ Goto(s, "waiting") /\ UNCHANGED <<task, faults>>
  <2>1. TypeOK' /\ PathInv'
    BY <1>1, SendsAssumption DEF TransferInv, Prepare, OpenSession, Goto, TypeOK, Statuses, Labels, PathInv
  <2>2. UploadsAlone
    BY <1>1, WhoUploads DEF TransferInv, Prepare, OpenSession, Goto, UploadsAlone, TypeOK
  <2>3. SessionInv' /\ SenderInv'
    BY <1>1 DEF TransferInv, Prepare, OpenSession, Goto, SessionInv, SenderInv, IsSaved, TypeOK
  <2> QED
    BY <2>1, <2>2, <2>3, UploadsRemain DEF TransferInv
<1>2. CASE OpenSession(s) /\ Fail(s) /\ Break
  <2>1. TypeOK' /\ PathInv'
    BY <1>2, SendsAssumption, Failing DEF TransferInv, Prepare, OpenSession, TypeOK, Statuses, PathInv
  <2>2. UploadsAlone
    BY <1>2, Failing, WhoUploads DEF TransferInv, Prepare, OpenSession, UploadsAlone, TypeOK
  <2>3. SessionInv' /\ SenderInv'
    BY <1>2, Failing DEF TransferInv, Prepare, OpenSession, SessionInv, SenderInv, IsSaved, TypeOK
  <2> QED
    BY <2>1, <2>2, <2>3, UploadsRemain DEF TransferInv
<1>3. CASE Fail(s) /\ Break /\ UNCHANGED <<sessions, incoming>>
  <2>1. TypeOK' /\ PathInv'
    BY <1>3, Failing DEF TransferInv, Prepare, TypeOK, PathInv
  <2>2. UploadsAlone
    BY <1>3, Failing, WhoUploads DEF TransferInv, Prepare, UploadsAlone, TypeOK
  <2>3. SessionInv' /\ SenderInv'
    BY <1>3, Failing DEF TransferInv, Prepare, SessionInv, SenderInv, IsSaved, TypeOK
  <2> QED
    BY <2>1, <2>2, <2>3, UploadsRemain DEF TransferInv
<1> QED
  BY <1>1, <1>2, <1>3 DEF Prepare

(* The waiting loop goes on, or a cancelled task takes its session along.  *)
LEMMA WaitKeeps ==
    ASSUME TransferInv, NEW s \in Sends, Wait(s) PROVE TransferInv'
<1>1. /\ task' \in [Sends -> Statuses] /\ at' \in [Sends -> Labels]
      /\ at' = [at EXCEPT ![s] = "asking"] \/ at' = [at EXCEPT ![s] = "failed"]
  BY Failing DEF TransferInv, Wait, Goto, TypeOK, Labels
<1>2. /\ at[s] = "waiting"
      /\ UNCHANGED <<cancelled, left, offset, sending, sent, late, upload, disk, wire, path, rejecting>>
      /\ \/ UNCHANGED <<session, expected, incoming>>
         \/ /\ incoming' = [incoming EXCEPT ![s] = "canceled"]
            /\ session' = [session EXCEPT ![s] = "none"] /\ expected' = [expected EXCEPT ![s] = {}]
  BY DEF Wait, CloseSession
<1>3. /\ incoming' \in [Sends -> Statuses] /\ expected' \in [Sends -> SUBSET Files]
      /\ session' \in [Sends -> {"none", "pending", "accepted", "rejected"}]
  BY <1>2 DEF TransferInv, TypeOK, Statuses
<1>4. TypeOK' /\ PathInv'
  BY <1>1, <1>2, <1>3 DEF TransferInv, TypeOK, PathInv
<1>5. UploadsAlone
  <2>1. \A u \in Sends : handler[u] # NoFile => u # s
    BY <1>2, WhoUploads
  <2>2. \A u \in Sends : u # s =>
           at'[u] = at[u] /\ expected'[u] = expected[u] /\ session'[u] = session[u]
    BY <1>1, <1>2 DEF TransferInv, TypeOK
  <2> QED
    BY <1>2, <2>1, <2>2, WhoUploads DEF UploadsAlone
<1>6. SessionInv' /\ SenderInv'
  BY <1>1, <1>2 DEF TransferInv, SessionInv, SenderInv, IsSaved, TypeOK
<1> QED
  BY <1>4, <1>5, <1>6, UploadsRemain DEF TransferInv

(* The receiver is asked for its decision.                                 *)
LEMMA AskKeeps ==
    ASSUME TransferInv, NEW s \in Sends, Ask(s) PROVE TransferInv'
<1>1. /\ task' \in [Sends -> Statuses] /\ at' \in [Sends -> Labels]
      /\ \E l \in {"waiting", "between", "failed"} : at' = [at EXCEPT ![s] = l]
  BY Failing DEF TransferInv, Ask, Goto, TypeOK, Statuses, Labels
<1>2. /\ at[s] = "asking"
      /\ UNCHANGED <<cancelled, left, sending, sent, late, upload, incoming, disk, wire, path, rejecting>>
      /\ \/ UNCHANGED <<session, expected>>
         \/ session' = [session EXCEPT ![s] = "none"] /\ expected' = [expected EXCEPT ![s] = {}]
  BY DEF Ask, CloseSession
<1>3. offset' \in [Sends -> [Files -> Nat]]
  <2>1. \A f \in Files : part[f].length \in Nat
    BY DEF TransferInv, TypeOK, Contents
  <2>2. [f \in Files |-> part[f].length] \in [Files -> Nat]
    BY <2>1
  <2> QED
    BY <2>2 DEF TransferInv, Ask, TypeOK
<1>4. TypeOK' /\ PathInv'
  BY <1>1, <1>2, <1>3 DEF TransferInv, TypeOK, PathInv
<1>5. UploadsAlone
  <2>1. \A u \in Sends : handler[u] # NoFile => u # s
    BY <1>2, WhoUploads
  <2>2. \A u \in Sends : u # s =>
           at'[u] = at[u] /\ expected'[u] = expected[u] /\ session'[u] = session[u]
    BY <1>1, <1>2 DEF TransferInv, TypeOK
  <2> QED
    BY <1>2, <2>1, <2>2, WhoUploads DEF UploadsAlone
<1>6. SessionInv' /\ SenderInv'
  BY <1>1, <1>2 DEF TransferInv, SessionInv, SenderInv, IsSaved, TypeOK
<1> QED
  BY <1>4, <1>5, <1>6, UploadsRemain DEF TransferInv

(* No file is left to send.                                                *)
LEMMA AllSentKeeps ==
    ASSUME TransferInv, NEW s \in Sends, AllSent(s) PROVE TransferInv'
<1>1. TypeOK' /\ PathInv'
  BY DEF TransferInv, AllSent, Goto, TypeOK, Statuses, Labels, PathInv
<1>2. UploadsAlone
  BY WhoUploads DEF TransferInv, AllSent, Goto, UploadsAlone, TypeOK
<1>3. SessionInv' /\ SenderInv'
  BY DEF TransferInv, AllSent, Goto, SessionInv, SenderInv, IsSaved, TypeOK
<1> QED
  BY <1>1, <1>2, <1>3, UploadsRemain DEF TransferInv

(* A click that cancels, a progress update, the beginning of a rejection.  *)
LEMMA ReportsKeep ==
    ASSUME TransferInv, NEW s \in Sends,
           LateProgress(s) \/ CancelSend(s) \/ CancelIncoming(s) \/ BeginReject(s)
    PROVE  TransferInv'
<1> USE DEF LateProgress, CancelSend, CancelIncoming, BeginReject, Active
<1>1. TypeOK' /\ PathInv'
  <2>1. CASE LateProgress(s)
    BY <2>1 DEF TransferInv, TypeOK, Statuses, PathInv
  <2>2. CASE CancelSend(s)
    BY <2>2 DEF TransferInv, TypeOK, Statuses, PathInv
  <2>3. CASE CancelIncoming(s)
    BY <2>3 DEF TransferInv, TypeOK, Statuses, PathInv
  <2>4. CASE BeginReject(s)
    BY <2>4 DEF TransferInv, TypeOK, PathInv
  <2> QED
    BY <2>1, <2>2, <2>3, <2>4
<1>2. UploadsAlone
  BY WhoUploads DEF TransferInv, UploadsAlone
<1>3. SessionInv' /\ SenderInv'
  BY DEF TransferInv, SessionInv, SenderInv, IsSaved, TypeOK
<1> QED
  BY <1>1, <1>2, <1>3, UploadsRemain DEF TransferInv

(* The receiver accepts, under paths nothing is saved at.                  *)
LEMMA AcceptKeeps ==
    ASSUME TransferInv, NEW s \in Sends, Accept(s) PROVE TransferInv'
<1>1. PICK chosen \in [expected[s] -> Paths] :
        /\ \A f \in expected[s] : FreePath(f, chosen[f])
        /\ path' = [path EXCEPT ![s] = [f \in Files |->
                      IF f \in expected[s] THEN chosen[f] ELSE path[s][f]]]
  BY DEF Accept
<1>2. path' \in [Sends -> [Files -> Paths]] /\ PathInv'
  BY <1>1 DEF TransferInv, TypeOK, PathInv, FreePath
<1>3. TypeOK'
  BY <1>2 DEF TransferInv, Accept, TypeOK, Statuses
<1>4. UploadsAlone
  BY WhoUploads DEF TransferInv, Accept, UploadsAlone, TypeOK
<1>5. SessionInv' /\ SenderInv'
  BY DEF TransferInv, Accept, SessionInv, SenderInv, IsSaved, TypeOK
<1> QED
  BY <1>2, <1>3, <1>4, <1>5, UploadsRemain DEF TransferInv

(* A rejection sets what it has not looked at again.                       *)
LEMMA EndRejectKeeps ==
    ASSUME TransferInv, NEW s \in Sends, EndReject(s) PROVE TransferInv'
<1>1. TypeOK' /\ PathInv'
  BY DEF TransferInv, EndReject, TypeOK, Statuses, PathInv
<1>2. UploadsAlone
  BY WhoUploads DEF TransferInv, EndReject, UploadsAlone, TypeOK
<1>3. SessionInv' /\ SenderInv'
  BY DEF TransferInv, EndReject, SessionInv, SenderInv, IsSaved, TypeOK
<1> QED
  BY <1>1, <1>2, <1>3, UploadsRemain DEF TransferInv

-----------------------------------------------------------------------------
(* Steps of an upload.                                                     *)

(* A step of one upload leaves another one alone.                          *)
KeepsUpload(u) ==
    /\ UNCHANGED <<handler[u], opened[u], written[u], sent[u], sending[u],
                   wire[u], session[u], expected[u], at[u]>>
    /\ handler[u] # NoFile => part'[handler[u]] = part[handler[u]]

(* Then only the upload of s has to be looked at.                          *)
LEMMA OthersRemain ==
    ASSUME TransferInv, NEW s \in Sends, \A u \in Sends \ {s} : KeepsUpload(u),
           handler'[s] # NoFile => Uploading(s, handler[s])'
    PROVE  UploadInv'
<1> SUFFICES ASSUME NEW u \in Sends, u # s, handler'[u] # NoFile
             PROVE  Uploading(u, handler[u])'
  BY DEF UploadInv
<1>1. KeepsUpload(u) /\ handler'[u] = handler[u] /\ Uploading(u, handler[u])
  BY DEF TransferInv, UploadInv, KeepsUpload
<1> QED
  BY <1>1 DEF KeepsUpload, Uploading

(* An upload is refused, or goes on where the .part file ends.             *)
LEMMA UploadFileKeeps ==
    ASSUME Premise, TransferInv, NEW s \in Sends, NEW f \in Files, UploadFile(s, f)
    PROVE  TransferInv'
<1>1. /\ at[s] = "between" /\ handler[s] = NoFile
      /\ \A u \in Sends : handler[u] # f
      /\ UNCHANGED <<cancelled, left, offset, late, sessions, incoming, downloads>>
  BY WhoUploads DEF UploadFile, Premise
<1>2. CASE Fail(s) /\ UNCHANGED <<sending, sent, upload, part, wire>>
  <2>1. TypeOK' /\ PathInv'
    BY <1>1, <1>2, Failing DEF TransferInv, TypeOK, PathInv
  <2>2. UploadsAlone
    BY <1>1, <1>2, Failing, WhoUploads DEF TransferInv, UploadsAlone, TypeOK
  <2>3. /\ at' = [at EXCEPT ![s] = "failed"]
        /\ UNCHANGED <<left, sending, wire, sessions, incoming, downloads>>
    BY <1>1, <1>2, Failing DEF TransferInv
  <2>4. SessionInv'
    BY <2>3 DEF TransferInv, SessionInv, IsSaved, TypeOK
  <2>5. SenderInv'
    BY <2>3 DEF TransferInv, SenderInv, IsSaved, TypeOK
  <2> QED
    BY <2>1, <2>2, <2>4, <2>5, UploadsRemain DEF TransferInv
<1>3. ASSUME Accepts(s, f), Goto(s, "uploading"),
             task' = [task EXCEPT ![s] = "running"], sending' = [sending EXCEPT ![s] = f],
             sent' = [sent EXCEPT ![s] = offset[s][f]], handler' = [handler EXCEPT ![s] = f],
             written' = [written EXCEPT ![s] = offset[s][f]], opened' = [opened EXCEPT ![s] = InPart],
             part' = [part EXCEPT ![f] = IF offset[s][f] = 0 THEN Empty(f) ELSE part[f]],
             wire' = [wire EXCEPT ![s] = "open"], UNCHANGED faults
      PROVE  TransferInv'
  <2>1. offset[s][f] \in Nat /\ part[f].length = offset[s][f] /\ session[s] = "accepted" /\ f \in expected[s]
    BY <1>3 DEF Accepts, OffsetMatches, TransferInv, TypeOK
  <2>2. part'[f] = Content(f, offset[s][f], TRUE) /\ offset[s][f] \in 0..Size[f]
    <3>1. CASE offset[s][f] = 0
      <4>1. part'[f] = Content(f, 0, TRUE)
        BY <1>3, <3>1 DEF TransferInv, TypeOK, Empty
      <4> QED
        BY <3>1, <4>1, SizesAssumption
    <3>2. CASE offset[s][f] # 0
      <4>1. part[f] # Nothing
        BY <2>1, <3>2 DEF Nothing, Content
      <4>2. PICK n \in 0..Size[f] : part[f] = Content(f, n, TRUE)
        BY <4>1 DEF TransferInv, PartInv
      <4>3. n = offset[s][f]
        BY <2>1, <4>2 DEF Content
      <4> QED
        BY <1>3, <3>2, <4>2, <4>3 DEF TransferInv, TypeOK
    <3> QED
      BY <3>1, <3>2
  <2>3. part' \in [Files -> Contents] /\ PartInv'
    BY <1>3, <2>1, <2>2 DEF TransferInv, TypeOK, PartInv, Contents, Content, Empty
  <2>4. TypeOK'
    BY <1>1, <1>3, <2>1, <2>3 DEF TransferInv, TypeOK, Goto, Statuses, Labels
  <2>5. OneUpload'
    BY <1>1, <1>3 DEF TransferInv, TypeOK, OneUpload
  <2>6. SavedInv' /\ PathInv'
    BY <1>1 DEF TransferInv, SavedInv, PathInv
  <2>7. UploadInv'
    <3>1. \A u \in Sends \ {s} : KeepsUpload(u)
      BY <1>1, <1>3 DEF KeepsUpload, TransferInv, TypeOK, Goto
    <3>2. Uploading(s, handler[s])'
      <4>1. /\ handler'[s] = f /\ opened'[s] = InPart /\ wire'[s] = "open" /\ at'[s] = "uploading"
            /\ written'[s] = offset[s][f] /\ sent'[s] = offset[s][f] /\ sending'[s] = f
            /\ expected'[s] = expected[s] /\ session'[s] = session[s]
        BY <1>1, <1>3 DEF TransferInv, TypeOK, Goto
      <4>2. written'[s] <= sent'[s] /\ sent'[s] <= Size[f]
        BY <2>1, <2>2, <4>1, SizesAssumption
      <4> QED
        BY <2>1, <2>2, <4>1, <4>2 DEF Uploading
    <3> QED
      BY <3>1, <3>2, OthersRemain
  <2>8. SessionInv' /\ SenderInv'
    BY <1>1, <1>3 DEF TransferInv, SessionInv, SenderInv, IsSaved, TypeOK, Goto
  <2> QED
    BY <2>3, <2>4, <2>5, <2>6, <2>7, <2>8 DEF TransferInv
<1> QED
  BY <1>2, <1>3 DEF UploadFile

(* The next chunk is handed over, or a cancelled task breaks off.          *)
LEMMA ReadChunkKeeps ==
    ASSUME TransferInv, NEW s \in Sends, ReadChunk(s) PROVE TransferInv'
<1>1. /\ at[s] = "uploading" /\ wire[s] = "open" /\ sent[s] < Size[sending[s]]
      /\ UNCHANGED <<cancelled, left, offset, sending, sessions, upload, incoming, disk, faults>>
  BY DEF ReadChunk
<1>2. PartInv' /\ SavedInv' /\ PathInv' /\ OneUpload'
  BY <1>1 DEF TransferInv, PartInv, SavedInv, PathInv, OneUpload
<1>3. CASE Fail(s) /\ wire' = [wire EXCEPT ![s] = "broken"] /\ UNCHANGED <<sent, late>>
  <2>1. TypeOK'
    BY <1>1, <1>3, Failing DEF TransferInv, TypeOK
  <2>2. at' = [at EXCEPT ![s] = "failed"]
    BY <1>3, Failing DEF TransferInv
  <2>3. UploadInv'
    <3>1. \A u \in Sends \ {s} : KeepsUpload(u)
      BY <1>1, <1>3, <2>2 DEF KeepsUpload, TransferInv, TypeOK
    <3>2. handler[s] # NoFile => Uploading(s, handler[s])'
      BY <1>1, <1>3, <2>2 DEF Uploading, UploadInv, TransferInv, TypeOK
    <3> QED
      BY <1>1, <3>1, <3>2, OthersRemain
  <2>4. SessionInv'
    BY <1>1, <2>2 DEF TransferInv, SessionInv, IsSaved, TypeOK
  <2>5. SenderInv'
    BY <1>1, <1>3, <2>2 DEF TransferInv, SenderInv, IsSaved, TypeOK
  <2> QED
    BY <1>2, <2>1, <2>3, <2>4, <2>5 DEF TransferInv
<1>4. ASSUME sent' = [sent EXCEPT ![s] = @ + 1], UNCHANGED <<at, wire>>,
             \/ late' = [late EXCEPT ![s] = @ + 1] /\ UNCHANGED task
             \/ task' = [task EXCEPT ![s] = "running"] /\ UNCHANGED late
      PROVE  TransferInv'
  <2>1. TypeOK'
    <3>1. sent' \in [Sends -> Nat]
      BY <1>4 DEF TransferInv, TypeOK
    <3>2. late' \in [Sends -> Nat]
      <4>1. late' = [late EXCEPT ![s] = @ + 1] \/ late' = late
        BY <1>4
      <4>2. late \in [Sends -> Nat] /\ late[s] + 1 \in Nat
        BY DEF TransferInv, TypeOK
      <4> QED
        BY <4>1, <4>2
    <3>3. task' \in [Sends -> Statuses]
      BY <1>4 DEF TransferInv, TypeOK, Statuses
    <3> QED
      BY <1>1, <1>4, <3>1, <3>2, <3>3 DEF TransferInv, TypeOK
  <2>2. UploadInv'
    <3>1. \A u \in Sends \ {s} : KeepsUpload(u)
      BY <1>1, <1>4 DEF KeepsUpload, TransferInv, TypeOK
    <3>2. handler[s] # NoFile => Uploading(s, handler[s])'
      <4> SUFFICES ASSUME handler[s] # NoFile PROVE Uploading(s, handler[s])'
        OBVIOUS
      <4>1. Uploading(s, handler[s]) /\ sending[s] = handler[s] /\ handler[s] \in Files
        BY <1>1 DEF TransferInv, UploadInv, Uploading, TypeOK
      <4>2. /\ sent'[s] = sent[s] + 1 /\ sent[s] \in Nat /\ written[s] \in Nat /\ Size[handler[s]] \in Nat
            /\ wire'[s] = "open" /\ at'[s] = at[s]
        BY <1>1, <1>4, <4>1, SizesAssumption DEF TransferInv, TypeOK
      <4> QED
        BY <1>1, <4>1, <4>2 DEF Uploading
    <3> QED
      BY <1>1, <3>1, <3>2, OthersRemain
  <2>3. SessionInv' /\ SenderInv'
    BY <1>1, <1>4 DEF TransferInv, SessionInv, SenderInv, IsSaved
  <2> QED
    BY <1>2, <2>1, <2>2, <2>3 DEF TransferInv
<1> QED
  BY <1>3, <1>4 DEF ReadChunk

(* The end of the body is sent, or the connection breaks.                  *)
LEMMA WireKeeps ==
    ASSUME TransferInv, NEW s \in Sends, EndBody(s) \/ BreakWire(s) PROVE TransferInv'
<1>1. /\ UNCHANGED <<sender, sessions, upload, incoming, disk>>
      /\ \/ /\ wire' = [wire EXCEPT ![s] = "eof"] /\ wire[s] = "open"
            /\ at[s] = "uploading" /\ sent[s] >= Size[sending[s]]
         \/ wire' = [wire EXCEPT ![s] = "broken"]
  BY DEF EndBody, BreakWire
<1>2. PartInv' /\ SavedInv' /\ PathInv' /\ OneUpload'
  BY <1>1 DEF TransferInv, PartInv, SavedInv, PathInv, OneUpload
<1>3. TypeOK'
  BY <1>1 DEF TransferInv, TypeOK
<1>4. UploadInv'
  <2>1. \A u \in Sends \ {s} : KeepsUpload(u)
    BY <1>1 DEF KeepsUpload, TransferInv, TypeOK
  <2>2. ASSUME handler[s] # NoFile PROVE Uploading(s, handler[s])'
    <3>1. Uploading(s, handler[s]) /\ handler[s] \in Files /\ sent[s] \in Nat /\ Size[handler[s]] \in Nat
      BY <2>2, SizesAssumption DEF TransferInv, UploadInv, TypeOK
    <3>2. \/ wire'[s] = "broken"
          \/ wire'[s] = "eof" /\ at[s] = "uploading" /\ sent[s] >= Size[sending[s]]
      BY <1>1 DEF TransferInv, TypeOK
    <3> QED
      BY <1>1, <3>1, <3>2 DEF Uploading
  <2> QED
    BY <1>1, <2>1, <2>2, OthersRemain
<1>5. SessionInv'
  BY <1>1 DEF TransferInv, SessionInv, IsSaved
<1>6. SenderInv'
  <2>1. \A u \in Sends : wire'[u] = "ok" => wire[u] = "ok"
    BY <1>1 DEF TransferInv, TypeOK
  <2> QED
    BY <1>1, <2>1 DEF TransferInv, SenderInv, IsSaved
<1> QED
  BY <1>2, <1>3, <1>4, <1>5, <1>6 DEF TransferInv

(* An upload is answered: what was received is saved.                      *)
LEMMA GetAnswerKeeps ==
    ASSUME TransferInv, NEW s \in Sends, GetAnswer(s) PROVE TransferInv'
<1>1. /\ at[s] = "uploading" /\ wire[s] \in {"ok", "refused", "broken"}
      /\ UNCHANGED <<cancelled, offset, sending, sent, late,
                     sessions, upload, incoming, disk, wire, faults>>
  BY DEF GetAnswer
<1>2. \/ /\ wire[s] = "ok" /\ at' = [at EXCEPT ![s] = "between"]
         /\ left' = [left EXCEPT ![s] = @ \ {sending[s]}] /\ UNCHANGED task
      \/ /\ wire[s] # "ok" /\ at' = [at EXCEPT ![s] = "failed"] /\ UNCHANGED left
         /\ task' \in [Sends -> Statuses]
  BY Failing DEF GetAnswer, Goto, TransferInv
<1>3. at' \in [Sends -> Labels] /\ left' \in [Sends -> SUBSET Files] /\ task' \in [Sends -> Statuses]
  <2>1. left[s] \ {sending[s]} \in SUBSET Files
    BY DEF TransferInv, TypeOK
  <2>2. left' \in [Sends -> SUBSET Files]
    BY <1>2, <2>1 DEF TransferInv, TypeOK
  <2>3. at' \in [Sends -> Labels] /\ task' \in [Sends -> Statuses]
    BY <1>2 DEF TransferInv, TypeOK, Labels
  <2> QED
    BY <2>2, <2>3
<1>4. TypeOK' /\ PathInv'
  BY <1>1, <1>3 DEF TransferInv, TypeOK, PathInv
<1>5. UploadsAlone
  <2>1. \A u \in Sends : u # s => at'[u] = at[u]
    BY <1>2 DEF TransferInv, TypeOK
  <2>2. handler[s] # NoFile => at'[s] = "failed"
    BY <1>1, <1>2 DEF TransferInv, UploadInv, Uploading, TypeOK
  <2> QED
    BY <1>1, <2>1, <2>2, WhoUploads DEF UploadsAlone
<1>6. SessionInv'
  BY <1>1, <1>2 DEF TransferInv, SessionInv, IsSaved, TypeOK
<1>7. SenderInv'
  <2>1. \A u \in Sends : u # s => at'[u] = at[u] /\ left'[u] = left[u]
    BY <1>2 DEF TransferInv, TypeOK
  <2>2. /\ at'[s] \in {"between", "failed"}
        /\ \/ left'[s] = left[s]
           \/ left'[s] = left[s] \ {sending[s]} /\ IsSaved(sending[s])
    BY <1>1, <1>2 DEF TransferInv, TypeOK, SenderInv
  <2> QED
    BY <1>1, <2>1, <2>2 DEF TransferInv, SenderInv, IsSaved
<1> QED
  BY <1>4, <1>5, <1>6, <1>7, UploadsRemain DEF TransferInv

(* A chunk is written behind the ones before it.                           *)
LEMMA WriteChunkKeeps ==
    ASSUME Premise, TransferInv, NEW s \in Sends, WriteChunk(s) PROVE TransferInv'
<1> PICK f \in Files : f = handler[s]
  BY DEF WriteChunk, TransferInv, TypeOK
<1>1. /\ handler[s] = f /\ f # NoFile /\ written[s] < sent[s] /\ Uploading(s, f)
      /\ written[s] \in Nat /\ sent[s] \in Nat /\ Size[f] \in Nat
  BY SizesAssumption DEF WriteChunk, TransferInv, TypeOK, UploadInv
<1>2. /\ written' = [written EXCEPT ![s] = @ + 1]
      /\ part' = [part EXCEPT ![f] = Content(f, written[s] + 1, TRUE)]
      /\ incoming' = [incoming EXCEPT ![s] = "running"]
      /\ UNCHANGED <<sender, sessions, handler, opened, wire, faults, downloads>>
  <2>1. opened[s] = InPart /\ opened[s] \notin Paths
    BY <1>1, NoPath DEF Uploading
  <2>2. Extend(part[f], written[s]) = Content(f, written[s] + 1, TRUE)
    BY <1>1, Extending DEF Uploading
  <2> QED
    BY <2>1, <2>2 DEF WriteChunk
<1>3. TypeOK'
  <2>1. Content(f, written[s] + 1, TRUE) \in Contents
    BY <1>1 DEF Content, Contents
  <2>2. part' \in [Files -> Contents]
    BY <1>2, <2>1 DEF TransferInv, TypeOK
  <2>3. written' \in [Sends -> Nat]
    BY <1>1, <1>2 DEF TransferInv, TypeOK
  <2>4. incoming' \in [Sends -> Statuses]
    BY <1>2 DEF TransferInv, TypeOK, Statuses
  <2> QED
    BY <1>2, <2>2, <2>3, <2>4 DEF TransferInv, TypeOK
<1>4. PartInv'
  <2>1. written[s] + 1 \in 0..Size[f]
    BY <1>1 DEF Uploading
  <2> QED
    BY <1>2, <2>1 DEF TransferInv, TypeOK, PartInv
<1>5. SavedInv' /\ PathInv' /\ OneUpload'
  BY <1>2 DEF TransferInv, SavedInv, PathInv, OneUpload
<1>6. UploadInv'
  <2>1. \A u \in Sends \ {s} : KeepsUpload(u)
    BY <1>1, <1>2 DEF KeepsUpload, TransferInv, TypeOK, OneUpload
  <2>2. Uploading(s, handler[s])'
    BY <1>1, <1>2 DEF Uploading, TransferInv, TypeOK
  <2> QED
    BY <2>1, <2>2, OthersRemain
<1>7. SessionInv'
  <2>1. at[s] \in {"uploading", "failed"} /\ incoming'[s] = "running"
    BY <1>1, <1>2 DEF Uploading, TransferInv, TypeOK
  <2>2. \A u \in Sends : u # s => incoming'[u] = incoming[u]
    BY <1>2 DEF TransferInv, TypeOK
  <2> QED
    BY <1>2, <2>1, <2>2 DEF TransferInv, SessionInv, IsSaved
<1>8. SenderInv'
  BY <1>2 DEF TransferInv, SenderInv, IsSaved
<1> QED
  BY <1>3, <1>4, <1>5, <1>6, <1>7, <1>8 DEF TransferInv

(* A handler gives up; what it wrote stays.                                *)
LEMMA AbandonKeeps ==
    ASSUME TransferInv, NEW s \in Sends, AbandonUpload(s) PROVE TransferInv'
<1>1. /\ handler' = [handler EXCEPT ![s] = NoFile] /\ written' = [written EXCEPT ![s] = 0]
      /\ opened' = [opened EXCEPT ![s] = InPart]
      /\ UNCHANGED <<sender, sessions, incoming, disk, wire, faults>>
  BY DEF AbandonUpload
<1>2. TypeOK'
  BY <1>1 DEF TransferInv, TypeOK
<1>3. PartInv' /\ SavedInv' /\ PathInv' /\ OneUpload'
  BY <1>1 DEF TransferInv, TypeOK, PartInv, SavedInv, PathInv, OneUpload
<1>4. UploadInv'
  <2>1. \A u \in Sends \ {s} : KeepsUpload(u)
    BY <1>1 DEF KeepsUpload, TransferInv, TypeOK
  <2> QED
    BY <1>1, <2>1, OthersRemain DEF TransferInv, TypeOK
<1>5. SessionInv' /\ SenderInv'
  BY <1>1 DEF TransferInv, SessionInv, SenderInv, IsSaved
<1> QED
  BY <1>2, <1>3, <1>4, <1>5 DEF TransferInv

-----------------------------------------------------------------------------
(* Saving a file.                                                          *)

(* All of the file has arrived in its .part file, or another one took that *)
(* away, which cannot be while uploads do not overlap.                     *)
LEMMA ReceivedWhole ==
    ASSUME TransferInv, NEW s \in Sends, NEW f \in Files, handler[s] = f, BodyReceived(s)
    PROVE  /\ part[f] = Whole(f) /\ part[f] # Nothing
           /\ path[s][f] \in Paths /\ path[s][f][1] = NameOf[f]
           /\ f \in expected[s] /\ session[s] \in {"accepted", "rejected"}
           /\ at[s] \in {"uploading", "failed"} /\ (at[s] = "uploading" => sending[s] = f)
<1>1. Uploading(s, f) /\ path[s][f] \in Paths /\ path[s][f][1] = NameOf[f]
  BY SizesAssumption DEF TransferInv, UploadInv, PathInv, TypeOK
<1>2. part[f] = Whole(f)
  BY <1>1 DEF BodyReceived, Uploading, Whole
<1>3. Whole(f) # Nothing
  BY ContentsDiffer DEF Whole
<1> QED
  BY <1>1, <1>2, <1>3 DEF Uploading

(* The saved files of a step that saves f: f, and what was saved before.   *)
LEMMA SavingAdds ==
    ASSUME Premise, TransferInv, NEW f \in Files, NEW p \in Paths, p[1] = NameOf[f],
           downloads' = [downloads EXCEPT ![p] = Whole(f)]
    PROVE  /\ downloads[p] \in {Nothing, Whole(f)}
           /\ SavedInv' /\ IsSaved(f)' /\ \A g \in Files : IsSaved(g) => IsSaved(g)'
<1>1. downloads[p] \in {Nothing, Whole(f)}
  BY DEF TransferInv, SavedInv, Premise
<1>2. SavedInv'
  BY DEF TransferInv, TypeOK, SavedInv
<1>3. IsSaved(f)'
  BY DEF TransferInv, TypeOK, IsSaved
<1>4. ASSUME NEW g \in Files, IsSaved(g) PROVE IsSaved(g)'
  <2>1. PICK q \in Paths : downloads[q] = Whole(g)
    BY <1>4 DEF IsSaved
  <2>2. CASE q = p
    <3>1. Whole(g) = Whole(f)
      BY <1>1, <2>1, <2>2, ContentsDiffer DEF Whole
    <3> QED
      BY <1>3, <3>1 DEF IsSaved
  <2>3. CASE q # p
    BY <2>1, <2>3 DEF TransferInv, TypeOK, IsSaved
  <2> QED
    BY <2>2, <2>3
<1> QED
  BY <1>1, <1>2, <1>3, <1>4

(* A file is saved, perhaps the last one of its session.                   *)
LEMMA FinishUploadKeeps ==
    ASSUME Premise, TransferInv, NEW s \in Sends, FinishUpload(s) PROVE TransferInv'
<1> PICK f \in Files : f = handler[s]
  BY DEF FinishUpload, TransferInv, TypeOK
<1> PICK p \in Paths : p = path[s][f]
  BY DEF TransferInv, TypeOK
<1>0. BodyReceived(s) /\ f # NoFile
  BY DEF FinishUpload
<1>1. /\ part[f] = Whole(f) /\ part[f] # Nothing /\ p[1] = NameOf[f] /\ f \in expected[s]
      /\ session[s] \in {"accepted", "rejected"}
      /\ at[s] \in {"uploading", "failed"} /\ (at[s] = "uploading" => sending[s] = f)
  BY <1>0, ReceivedWhole
<1>2. /\ handler' = [handler EXCEPT ![s] = NoFile] /\ written' = [written EXCEPT ![s] = 0]
      /\ downloads' = [downloads EXCEPT ![p] = Whole(f)] /\ part' = [part EXCEPT ![f] = Nothing]
      /\ opened' = [o \in Sends |->
                     IF o = s THEN InPart
                     ELSE IF handler[o] = f /\ opened[o] = InPart THEN p
                     ELSE IF opened[o] = p THEN Gone ELSE opened[o]]
      /\ wire' = [wire EXCEPT ![s] = "ok"]
      /\ UNCHANGED <<sender, faults, path, rejecting>>
  BY <1>0, <1>1 DEF FinishUpload, CloseSession
<1>3. \/ /\ expected[s] \subseteq {f}
         /\ session' = [session EXCEPT ![s] = "none"] /\ expected' = [expected EXCEPT ![s] = {}]
         /\ incoming' = [incoming EXCEPT ![s] = "completed"]
      \/ /\ expected' = [expected EXCEPT ![s] = @ \ {f}] /\ UNCHANGED <<session, incoming>>
  BY <1>1 DEF FinishUpload, CloseSession, LastFile
<1>4. /\ SavedInv' /\ IsSaved(f)' /\ \A g \in Files : IsSaved(g) => IsSaved(g)'
  BY <1>1, <1>2, SavingAdds
<1>5. TypeOK'
  <2>1. Whole(f) \in Contents /\ Nothing \in Contents
    BY SizesAssumption DEF Whole, Nothing, Content, Contents
  <2>2. part' \in [Files -> Contents] /\ downloads' \in [Paths -> Contents]
    BY <1>2, <2>1 DEF TransferInv, TypeOK
  <2>3. handler' \in [Sends -> Files \cup {NoFile}] /\ written' \in [Sends -> Nat]
    BY <1>2 DEF TransferInv, TypeOK
  <2>4. opened' \in [Sends -> Paths \cup {InPart, Gone}]
    BY <1>2 DEF TransferInv, TypeOK
  <2>5. wire' \in [Sends -> {"closed", "open", "eof", "ok", "refused", "broken"}]
    BY <1>2 DEF TransferInv, TypeOK
  <2>6. expected[s] \ {f} \in SUBSET Files
    BY DEF TransferInv, TypeOK
  <2>7. expected' \in [Sends -> SUBSET Files]
    BY <1>3, <2>6 DEF TransferInv, TypeOK
  <2>8. session' \in [Sends -> {"none", "pending", "accepted", "rejected"}]
    BY <1>3 DEF TransferInv, TypeOK
  <2>9. incoming' \in [Sends -> Statuses]
    BY <1>3 DEF TransferInv, TypeOK, Statuses
  <2> QED
    BY <1>2, <2>2, <2>3, <2>4, <2>5, <2>7, <2>8, <2>9 DEF TransferInv, TypeOK
<1>6. OneUpload' /\ PathInv'
  BY <1>2 DEF TransferInv, TypeOK, OneUpload, PathInv
<1>7. PartInv'
  BY <1>2 DEF TransferInv, TypeOK, PartInv
<1>8. UploadInv'
  <2>1. ASSUME NEW u \in Sends \ {s}, handler[u] # NoFile PROVE Uploading(u, handler[u])'
    <3>1. handler[u] # f /\ handler[u] \in Files /\ Uploading(u, handler[u])
      BY <1>0, <2>1 DEF TransferInv, OneUpload, TypeOK, UploadInv
    <3>2. opened'[u] = InPart
      BY <1>2, <3>1, NoPath DEF Uploading
    <3>3. UNCHANGED <<part[handler[u]], handler[u], written[u], sent[u], wire[u],
                      at[u], sending[u], expected[u], session[u]>>
      BY <1>2, <1>3, <3>1 DEF TransferInv, TypeOK
    <3> QED
      BY <3>1, <3>2, <3>3 DEF Uploading
  <2>2. handler'[s] = NoFile /\ \A u \in Sends \ {s} : handler'[u] = handler[u]
    BY <1>2 DEF TransferInv, TypeOK
  <2> QED
    BY <2>1, <2>2 DEF UploadInv
<1>9. SessionInv'
  <2>1. \A u \in Sends \ {s} : UNCHANGED <<session[u], expected[u], incoming[u], at[u]>>
    BY <1>2, <1>3 DEF TransferInv, TypeOK
  <2>2. \A u \in Sends : FilesOf[u] \subseteq Files
    BY SendsAssumption
  <2>3. ASSUME NEW u \in Sends \ {s}
        PROVE  /\ at'[u] \in {"idle", "preparing"} => session'[u] = "none" /\ incoming'[u] = "none"
               /\ expected'[u] \subseteq FilesOf[u]
               /\ session'[u] # "none" => /\ incoming'[u] # "completed"
                                          /\ \A g \in FilesOf[u] : g \in expected'[u] \/ IsSaved(g)'
               /\ incoming'[u] = "completed" => \A g \in FilesOf[u] : IsSaved(g)'
    BY <1>4, <2>1, <2>2, <2>3 DEF TransferInv, SessionInv
  <2>4. \A g \in FilesOf[s] : g \in expected[s] \/ IsSaved(g)'
    BY <1>1, <1>4, <2>2 DEF TransferInv, SessionInv
  <2>5. /\ at'[s] \in {"uploading", "failed"} /\ incoming[s] # "completed"
        /\ expected'[s] \subseteq expected[s] \ {f} /\ expected[s] \subseteq FilesOf[s]
        /\ \/ incoming'[s] = "completed" /\ session'[s] = "none" /\ expected[s] \subseteq {f}
           \/ incoming'[s] = incoming[s] /\ expected'[s] = expected[s] \ {f}
    BY <1>1, <1>2, <1>3 DEF TransferInv, TypeOK, SessionInv
  <2>6. /\ expected'[s] \subseteq FilesOf[s]
        /\ session'[s] # "none" => /\ incoming'[s] # "completed"
                                   /\ \A g \in FilesOf[s] : g \in expected'[s] \/ IsSaved(g)'
        /\ incoming'[s] = "completed" => \A g \in FilesOf[s] : IsSaved(g)'
    BY <1>4, <2>4, <2>5
  <2> QED
    BY <2>3, <2>5, <2>6 DEF SessionInv
<1>10. SenderInv'
  <2>1. \A u \in Sends : FilesOf[u] \subseteq Files
    BY SendsAssumption
  <2>2. \A u \in Sends : wire'[u] = "ok" => u = s \/ wire[u] = "ok"
    BY <1>2 DEF TransferInv, TypeOK
  <2> QED
    BY <1>1, <1>2, <1>4, <2>1, <2>2 DEF TransferInv, SenderInv
<1> QED
  BY <1>4, <1>5, <1>6, <1>7, <1>8, <1>9, <1>10 DEF TransferInv

-----------------------------------------------------------------------------
(* Crashes.                                                                *)

(* Sessions and uploads are gone, the disk is not.                         *)
LEMMA CrashReceiverKeeps ==
    ASSUME TransferInv, CrashReceiver PROVE TransferInv'
<1>1. /\ session' = [s \in Sends |-> "none"] /\ expected' = [s \in Sends |-> {}]
      /\ rejecting' = {} /\ handler' = [s \in Sends |-> NoFile]
      /\ written' = [s \in Sends |-> 0] /\ opened' = [s \in Sends |-> InPart]
      /\ wire' = Cut /\ UNCHANGED <<sender, path, incoming, disk>>
  BY DEF CrashReceiver
<1>2. TypeOK'
  BY <1>1 DEF TransferInv, TypeOK, Cut
<1>3. OneUpload' /\ PartInv' /\ SavedInv' /\ PathInv' /\ UploadInv'
  BY <1>1 DEF TransferInv, OneUpload, PartInv, SavedInv, PathInv, UploadInv
<1>4. SessionInv' /\ SenderInv'
  BY <1>1 DEF TransferInv, SessionInv, SenderInv, IsSaved, Cut
<1> QED
  BY <1>2, <1>3, <1>4 DEF TransferInv

(* Tasks stop where they are.                                              *)
LEMMA CrashSenderKeeps ==
    ASSUME TransferInv, CrashSender PROVE TransferInv'
<1>1. /\ at' = [s \in Sends |-> IF at[s] \in {"idle"} \cup Ended THEN at[s] ELSE "failed"]
      /\ late' = [s \in Sends |-> 0] /\ wire' = Cut
      /\ UNCHANGED <<task, cancelled, left, offset, sending, sent, sessions, upload, incoming, disk>>
  BY DEF CrashSender
<1>2. TypeOK'
  BY <1>1 DEF TransferInv, TypeOK, Labels, Cut
<1>3. OneUpload' /\ PartInv' /\ SavedInv' /\ PathInv'
  BY <1>1 DEF TransferInv, OneUpload, PartInv, SavedInv, PathInv
<1>4. UploadInv'
  <2> SUFFICES ASSUME NEW u \in Sends, handler[u] # NoFile PROVE Uploading(u, handler[u])'
    BY <1>1 DEF UploadInv
  <2>1. Uploading(u, handler[u])
    BY DEF TransferInv, UploadInv
  <2>2. at'[u] = "failed" /\ wire'[u] \in {wire[u], "broken"}
    BY <1>1, <2>1 DEF Uploading, Ended, Cut
  <2> QED
    BY <1>1, <2>1, <2>2 DEF Uploading
<1>5. SessionInv' /\ SenderInv'
  BY <1>1 DEF TransferInv, SessionInv, SenderInv, IsSaved, Ended
<1> QED
  BY <1>2, <1>3, <1>4, <1>5 DEF TransferInv

-----------------------------------------------------------------------------
(* It all holds before the first send.                                     *)
LEMMA TransferStarts == Init => TransferInv
<1> SUFFICES ASSUME Init PROVE TransferInv
  OBVIOUS
<1>1. TypeOK
  <2>1. Nothing \in Contents
    BY DEF Nothing, Content, Contents
  <2>2. \A f \in Files : <<NameOf[f], 0>> \in Paths
    BY BoundsAssumption DEF Paths
  <2>3. path \in [Sends -> [Files -> Paths]]
    BY <2>2 DEF Init
  <2>4. left \in [Sends -> SUBSET Files]
    BY SendsAssumption DEF Init
  <2> QED
    BY <2>1, <2>3, <2>4 DEF Init, TypeOK, Statuses, Labels
<1>2. OneUpload /\ PartInv /\ SavedInv /\ PathInv /\ UploadInv
  BY DEF Init, OneUpload, PartInv, SavedInv, PathInv, UploadInv
<1>3. SessionInv /\ SenderInv
  BY SendsAssumption DEF Init, SessionInv, SenderInv
<1> QED
  BY <1>1, <1>2, <1>3 DEF TransferInv

(* And every step keeps it.                                                *)
LEMMA TransferKept == Premise /\ TransferInv /\ [Next]_vars => TransferInv'
<1> SUFFICES ASSUME Premise, TransferInv, [Next]_vars PROVE TransferInv'
  OBVIOUS
<1>1. ASSUME NEW s \in Sends, Run(s) PROVE TransferInv'
  BY <1>1, PrepareKeeps, WaitKeeps, AskKeeps, AllSentKeeps, UploadFileKeeps, ReadChunkKeeps,
     WireKeeps, GetAnswerKeeps DEF Run
<1>2. ASSUME NEW s \in Sends, Receive(s) PROVE TransferInv'
  BY <1>2, WriteChunkKeeps, AbandonKeeps, FinishUploadKeeps DEF Receive
<1>3. ASSUME NEW s \in Sends, User(s) \/ LateProgress(s) \/ EndReject(s) \/ BreakWire(s)
      PROVE  TransferInv'
  BY <1>3, StartSendKeeps, ReportsKeep, AcceptKeeps, EndRejectKeeps, WireKeeps DEF User
<1>4. CASE UNCHANGED vars
  <2>1. UploadsAlone
    BY <1>4, WhoUploads DEF UploadsAlone, vars
  <2>2. TypeOK' /\ PathInv' /\ SessionInv' /\ SenderInv'
    BY <1>4 DEF vars, TransferInv, TypeOK, PathInv, SessionInv, SenderInv, IsSaved
  <2> QED
    BY <2>1, <2>2, UploadsRemain DEF TransferInv
<1> QED
  BY <1>1, <1>2, <1>3, <1>4, CrashReceiverKeeps, CrashSenderKeeps DEF Next

(* What is said of uploads, saved files, sessions and sends always holds.  *)
THEOREM TransferInvariant == ASSUME Premise PROVE Spec => []TransferInv
  BY TransferStarts, TransferKept, PTL DEF Spec

(* A send that either side shows as completed has all of its files among   *)
(* the saved ones, whole (CompletedIsSaved).                               *)
THEOREM CompletedSendsAreSaved == ASSUME Premise PROVE Spec => []CompletedIsSaved
<1>1. TransferInv => CompletedIsSaved
  BY DEF TransferInv, SessionInv, SenderInv, IsSaved, CompletedIsSaved
<1> QED
  BY <1>1, TransferInvariant, PTL

(* What has been received of a file is given up only by saving the file    *)
(* (NothingReceivedTwice): an upload that starts over finds nothing there, *)
(* and one that ends has all of it.                                        *)
THEOREM ReceivedIsKept == ASSUME Premise PROVE Spec => NothingReceivedTwice
<1> DEFINE GivenUpForSaved ==
      \A f \in Files : part'[f].length < part[f].length =>
         part[f] = Whole(f) /\ \E p \in Paths : downloads'[p] = Whole(f)
<1>1. TransferInv /\ [Next]_vars => [GivenUpForSaved]_vars
  <2> SUFFICES ASSUME TransferInv, Next PROVE GivenUpForSaved
    OBVIOUS
  <2>0. \A g \in Files : part[g].length \in Nat
    BY DEF TransferInv, TypeOK, Contents
  <2>1. ASSUME NEW s \in Sends, FinishUpload(s) PROVE GivenUpForSaved
    <3> PICK f \in Files : f = handler[s]
      BY <2>1 DEF FinishUpload, TransferInv, TypeOK
    <3> PICK p \in Paths : p = path[s][f]
      BY DEF TransferInv, TypeOK
    <3>1. part[f] = Whole(f) /\ part[f] # Nothing /\ p[1] = NameOf[f]
      BY <2>1, ReceivedWhole DEF FinishUpload
    <3>2. /\ part' = [part EXCEPT ![f] = Nothing]
          /\ downloads' = [downloads EXCEPT ![p] = Whole(f)]
      BY <2>1, <3>1 DEF FinishUpload
    <3>3. \E q \in Paths : downloads'[q] = Whole(f)
      BY <3>2 DEF TransferInv, TypeOK
    <3>4. \A g \in Files : g # f => part'[g] = part[g]
      BY <3>2 DEF TransferInv, TypeOK
    <3> QED
      BY <2>0, <3>1, <3>3, <3>4
  <2>2. ASSUME NEW s \in Sends, WriteChunk(s) PROVE GivenUpForSaved
    <3> PICK f \in Files : f = handler[s]
      BY <2>2 DEF WriteChunk, TransferInv, TypeOK
    <3>1. part' = part \/ part' = [part EXCEPT ![f] = Extend(part[f], written[s])]
      BY <2>2 DEF WriteChunk
    <3>2. Extend(part[f], written[s]).length = part[f].length + 1
      BY DEF Extend, Content
    <3>3. \A g \in Files : part'[g] = part[g] \/ part'[g].length = part[g].length + 1
      BY <3>1, <3>2 DEF TransferInv, TypeOK
    <3> QED
      BY <2>0, <3>3
  <2>3. ASSUME NEW s \in Sends, NEW f \in Files, UploadFile(s, f) PROVE GivenUpForSaved
    <3>1. \/ part' = part
          \/ part[f].length = 0 /\ part' = [part EXCEPT ![f] = Empty(f)]
      BY <2>3 DEF UploadFile, Accepts, OffsetMatches, TransferInv, TypeOK
    <3>2. Empty(f).length = 0
      BY DEF Empty, Content
    <3>3. \A g \in Files : part'[g] = part[g] \/ (part[g].length = 0 /\ part'[g].length = 0)
      BY <3>1, <3>2 DEF TransferInv, TypeOK
    <3> QED
      BY <2>0, <3>3
  <2>4. ASSUME UNCHANGED part PROVE GivenUpForSaved
    BY <2>0, <2>4
  <2>5. ASSUME NEW s \in Sends, Run(s) PROVE GivenUpForSaved
    BY <2>3, <2>4, <2>5 DEF Run, Prepare, Wait, Ask, AllSent, ReadChunk, EndBody, GetAnswer
  <2>6. ASSUME NEW s \in Sends, Receive(s) PROVE GivenUpForSaved
    BY <2>1, <2>2, <2>4, <2>6 DEF Receive, AbandonUpload
  <2>7. ASSUME NEW s \in Sends, User(s) \/ LateProgress(s) \/ EndReject(s) \/ BreakWire(s)
        PROVE  GivenUpForSaved
    BY <2>4, <2>7 DEF User, StartSend, CancelSend, CancelIncoming, Accept, BeginReject,
                      LateProgress, EndReject, BreakWire
  <2>8. CASE CrashReceiver \/ CrashSender
    BY <2>4, <2>8 DEF CrashReceiver, CrashSender
  <2> QED
    BY <2>5, <2>6, <2>7, <2>8 DEF Next
<1> QED
  BY <1>1, TransferInvariant, PTL DEF Spec, NothingReceivedTwice

-----------------------------------------------------------------------------
(* DirectTransfer implements Delivery.                                     *)

(* What Delivery sees of the reports of a send.                            *)
Reports(s) == <<incoming[s] = "completed", at[s] = "succeeded">>

(* Delivery's inbox has what is saved.                                     *)
LEMMA InboxIsSaved ==
    ASSUME TransferInv, NEW p \in Paths, NEW f \in Files
    PROVE  /\ Saved(p) = NoFile <=> downloads[p] = Nothing
           /\ Saved(p) = f <=> downloads[p] = Whole(f)
<1>1. \A g \in Files : Whole(g).file = g /\ Whole(g) # Nothing /\ g # NoFile
  BY SizesAssumption, ContentsDiffer DEF Whole, Content
<1>2. CASE downloads[p] = Nothing
  BY <1>1, <1>2 DEF Saved
<1>3. ASSUME NEW g \in Files, downloads[p] = Whole(g)
      PROVE  /\ Saved(p) = NoFile <=> downloads[p] = Nothing
             /\ Saved(p) = f <=> downloads[p] = Whole(f)
  <2>1. Saved(p) = g
    BY <1>1, <1>3 DEF Saved
  <2> QED
    BY <1>1, <1>3, <2>1
<1> QED
  BY <1>2, <1>3 DEF TransferInv, SavedInv

(* A send all of whose files are saved is delivered.                       *)
LEMMA SavedIsDelivered ==
    ASSUME TransferInv, NEW s \in Sends, \A f \in FilesOf[s] : IsSaved(f)
    PROVE  Promise!Delivered(s, [p \in Paths |-> Saved(p)])
<1> SUFFICES ASSUME NEW f \in FilesOf[s]
             PROVE  \E p \in Paths : [q \in Paths |-> Saved(q)][p] = f
  BY DEF Promise!Delivered
<1>1. f \in Files
  BY SendsAssumption
<1>2. PICK p \in Paths : downloads[p] = Whole(f)
  BY DEF IsSaved
<1> QED
  BY <1>1, <1>2, InboxIsSaved

(* A step that saves nothing and reports nothing is none of Delivery's.    *)
LEMMA Stutters ==
    ASSUME UNCHANGED downloads, \A s \in Sends : UNCHANGED Reports(s)
    PROVE  UNCHANGED Promise!vars
<1>1. \A s \in Sends : /\ (incoming'[s] = "completed") <=> (incoming[s] = "completed")
                       /\ (at'[s] = "succeeded") <=> (at[s] = "succeeded")
  BY DEF Reports
<1>2. \A p \in Paths : Saved(p)' = Saved(p)
  BY DEF Saved
<1> QED
  BY <1>1, <1>2 DEF Promise!vars

(* Reports change when the last file of a session is saved, and when the   *)
(* sender has sent all of a send.                                          *)
LEMMA RunReports ==
    ASSUME TransferInv, NEW s \in Sends, Run(s), ~AllSent(s)
    PROVE  UNCHANGED downloads /\ \A u \in Sends : UNCHANGED Reports(u)
<1>1. CASE Prepare(s)
  <2>1. at[s] = "preparing" /\ incoming[s] = "none"
    BY <1>1 DEF Prepare, TransferInv, SessionInv
  <2> QED
    BY <1>1, <2>1, Failing DEF Prepare, OpenSession, Goto, Reports, TransferInv, TypeOK
<1>2. CASE Wait(s)
  <2>1. session[s] # "none" => incoming[s] # "completed"
    BY DEF TransferInv, SessionInv
  <2> QED
    BY <1>2, <2>1, Failing DEF Wait, Goto, Reports, TransferInv, TypeOK
<1>3. CASE Ask(s)
  BY <1>3, Failing DEF Ask, Goto, Reports, TransferInv, TypeOK
<1>4. ASSUME NEW f \in Files, UploadFile(s, f)
      PROVE  UNCHANGED downloads /\ \A u \in Sends : UNCHANGED Reports(u)
  BY <1>4, Failing DEF UploadFile, Goto, Reports, TransferInv, TypeOK
<1>5. CASE ReadChunk(s) \/ EndBody(s) \/ GetAnswer(s)
  BY <1>5, Failing DEF ReadChunk, EndBody, GetAnswer, Goto, Reports, TransferInv, TypeOK
<1> QED
  BY <1>1, <1>2, <1>3, <1>4, <1>5 DEF Run

(* No other step of a send changes a report.                               *)
LEMMA OtherReports ==
    ASSUME Premise, TransferInv, NEW s \in Sends,
           User(s) \/ LateProgress(s) \/ EndReject(s) \/ BreakWire(s)
             \/ WriteChunk(s) \/ AbandonUpload(s)
    PROVE  UNCHANGED downloads /\ \A u \in Sends : UNCHANGED Reports(u)
<1>0. session[s] # "none" => incoming[s] # "completed"
  BY DEF TransferInv, SessionInv
<1>1. CASE User(s)
  BY <1>0, <1>1 DEF User, StartSend, CancelSend, CancelIncoming, Accept, BeginReject, Active,
                    Goto, Reports, TransferInv, TypeOK
<1>2. CASE LateProgress(s) \/ BreakWire(s) \/ AbandonUpload(s)
  BY <1>2 DEF LateProgress, BreakWire, AbandonUpload, Reports
<1>3. CASE EndReject(s)
  BY <1>0, <1>3 DEF EndReject, Reports, TransferInv, TypeOK
<1>4. CASE WriteChunk(s)
  <2>1. session[s] # "none" /\ opened[s] \notin Paths
    BY <1>4, NoPath DEF WriteChunk, TransferInv, UploadInv, Uploading
  <2> QED
    BY <1>0, <1>4, <2>1 DEF WriteChunk, Reports, TransferInv, TypeOK
<1> QED
  BY <1>1, <1>2, <1>3, <1>4

(* Nor does a crash.                                                       *)
LEMMA CrashReports ==
    ASSUME TransferInv, CrashReceiver \/ CrashSender
    PROVE  UNCHANGED downloads /\ \A u \in Sends : UNCHANGED Reports(u)
  BY DEF CrashReceiver, CrashSender, Ended, Reports, TransferInv, TypeOK

(* The sender's task completes: Delivery confirms the send.                *)
LEMMA AllSentConfirms ==
    ASSUME TransferInv, NEW s \in Sends, AllSent(s) PROVE Promise!Confirm(s)
<1>1. Promise!Delivered(s, [p \in Paths |-> Saved(p)])
  BY SavedIsDelivered DEF AllSent, TransferInv, SenderInv
<1>2. {u \in Sends : at'[u] = "succeeded"} = {u \in Sends : at[u] = "succeeded"} \cup {s}
  BY DEF AllSent, Goto, TransferInv, TypeOK
<1>3. UNCHANGED <<downloads, incoming>>
  BY DEF AllSent
<1>4. \A p \in Paths : Saved(p)' = Saved(p)
  BY <1>3 DEF Saved
<1> QED
  BY <1>1, <1>2, <1>3, <1>4 DEF Promise!Confirm

(* A file is saved: Delivery saves it, and receives the send it completes. *)
LEMMA FinishSaves ==
    ASSUME Premise, TransferInv, TransferInv', NEW s \in Sends, FinishUpload(s)
    PROVE  \E f \in Files, p \in Paths : Promise!Save(f, p)
<1> PICK f \in Files : f = handler[s]
  BY DEF FinishUpload, TransferInv, TypeOK
<1> PICK p \in Paths : p = path[s][f]
  BY DEF TransferInv, TypeOK
<1>1. part[f] = Whole(f) /\ part[f] # Nothing /\ p[1] = NameOf[f] /\ session[s] # "none"
  BY ReceivedWhole DEF FinishUpload
<1>2. downloads' = [downloads EXCEPT ![p] = Whole(f)] /\ UNCHANGED at
  BY <1>1 DEF FinishUpload
<1>3. incoming' = incoming \/ incoming' = [incoming EXCEPT ![s] = "completed"]
  BY <1>1 DEF FinishUpload
<1>4. Saved(p) \in {NoFile, f}
  BY <1>1, <1>2, SavingAdds, InboxIsSaved
<1>5. [q \in Paths |-> Saved(q)]' = [[q \in Paths |-> Saved(q)] EXCEPT ![p] = f]
  <2>1. Saved(p)' = f
    <3>1. downloads'[p] = Whole(f)
      BY <1>2 DEF TransferInv, TypeOK
    <3>2. Whole(f) # Nothing /\ Whole(f).file = f
      BY ContentsDiffer DEF Whole, Content
    <3> QED
      BY <3>1, <3>2 DEF Saved
  <2>2. \A q \in Paths : q # p => Saved(q)' = Saved(q)
    BY <1>2 DEF Saved, TransferInv, TypeOK
  <2> QED
    BY <2>1, <2>2
<1>6. \/ UNCHANGED {u \in Sends : incoming[u] = "completed"}
      \/ /\ {u \in Sends : incoming[u] = "completed"}'
              = {u \in Sends : incoming[u] = "completed"} \cup {s}
         /\ Promise!Delivered(s, [q \in Paths |-> Saved(q)]')
  <2>1. CASE incoming' = incoming
    BY <2>1
  <2>2. CASE incoming' = [incoming EXCEPT ![s] = "completed"]
    <3>1. {u \in Sends : incoming[u] = "completed"}'
            = {u \in Sends : incoming[u] = "completed"} \cup {s}
      BY <2>2 DEF TransferInv, TypeOK
    <3>2. \A g \in FilesOf[s] : IsSaved(g)'
      BY <2>2 DEF TransferInv, TypeOK, SessionInv
    <3>3. ASSUME NEW g \in FilesOf[s]
          PROVE  \E q \in Paths : [r \in Paths |-> Saved(r)]'[q] = g
      <4>1. g \in Files /\ Whole(g) # Nothing /\ Whole(g).file = g
        BY SendsAssumption, ContentsDiffer DEF Whole, Content
      <4>2. PICK q \in Paths : downloads'[q] = Whole(g)
        BY <3>2 DEF IsSaved
      <4>3. Saved(q)' = g
        BY <4>1, <4>2 DEF Saved
      <4> QED
        BY <4>3
    <3> QED
      BY <3>1, <3>3 DEF Promise!Delivered
  <2> QED
    BY <1>3, <2>1, <2>2
<1>7. UNCHANGED {u \in Sends : at[u] = "succeeded"}
  BY <1>2
<1>8. Promise!Save(f, p)
  BY <1>4, <1>5, <1>6, <1>7 DEF Promise!Save
<1> QED
  BY <1>8

(* Files are only ever saved whole, under paths of their own, and a send   *)
(* is reported as completed only when all of its files are there           *)
(* (Delivers): DirectTransfer implements Delivery.                         *)
THEOREM SendsDeliver == ASSUME Premise PROVE Spec => Delivers
<1>1. Init => Promise!Init
  BY DEF Init, Promise!Init, Saved
<1>2. TransferInv /\ TransferInv' /\ [Next]_vars => [Promise!Next]_(Promise!vars)
  <2> SUFFICES ASSUME TransferInv, TransferInv', [Next]_vars
               PROVE  Promise!Next \/ UNCHANGED Promise!vars
    OBVIOUS
  <2>1. ASSUME NEW s \in Sends, Run(s) PROVE Promise!Next \/ UNCHANGED Promise!vars
    BY <2>1, RunReports, Stutters, AllSentConfirms DEF Promise!Next
  <2>2. ASSUME NEW s \in Sends, FinishUpload(s) PROVE Promise!Next
    BY <2>2, FinishSaves DEF Promise!Next
  <2>3. ASSUME NEW s \in Sends,
               User(s) \/ LateProgress(s) \/ EndReject(s) \/ BreakWire(s)
                 \/ WriteChunk(s) \/ AbandonUpload(s)
        PROVE  UNCHANGED Promise!vars
    BY <2>3, OtherReports, Stutters
  <2>4. CASE CrashReceiver \/ CrashSender
    BY <2>4, CrashReports, Stutters
  <2>5. CASE UNCHANGED vars
    BY <2>5, Stutters DEF vars, Reports
  <2> QED
    BY <2>1, <2>2, <2>3, <2>4, <2>5 DEF Next, Receive
<1> QED
  BY <1>1, <1>2, TransferInvariant, PTL DEF Spec, Delivers, Promise!Spec

=============================================================================
