--------------------------- MODULE DirectTransfer ---------------------------
(***************************************************************************)
(* Sending files straight to another node, data_transfer/service.rs: the   *)
(* sender's task (run_direct_send_task), the receiver's HTTP handlers and  *)
(* its user, the connections between them, and the disk of the receiver,   *)
(* which keeps the .part file of an interrupted upload so that a later     *)
(* send of the same file resumes where it stopped.                         *)
(*                                                                         *)
(* A send is one task of the sender and, once prepared, one session of the *)
(* receiver.  Sends of the same file share one .part file: its name is     *)
(* made of the sender's fingerprint and the file's id.  A file is a number *)
(* of chunks; of what is on disk only the length matters, and whether it   *)
(* is exactly the first chunks in order.                                   *)
(*                                                                         *)
(* Tokens and the sender's address are left out: a session is only ever    *)
(* used by the send it was made for.                                       *)
(***************************************************************************)
EXTENDS Integers, FiniteSets

CONSTANTS
    Sends,       \* send tasks
    Files,       \* file ids
    FilesOf,     \* the files of a send
    NameOf,      \* the name of a file
    Size,        \* the number of its chunks
    MaxCopies,   \* highest index unique_download_path tries
    MaxBreaks,   \* bound on failing requests and connections
    MaxCrashes,  \* bound on crashes of either node
    MaxLate,     \* bound on progress updates outstanding for one send
    Exclusive,   \* uploads of one file never overlap in time
    NoFile       \* no file

ASSUME SendsAssumption == FilesOf \in [Sends -> SUBSET Files \ {{}}]
ASSUME SizesAssumption == Size \in [Files -> Nat] /\ NoFile \notin Files
ASSUME BoundsAssumption == /\ MaxCopies \in Nat /\ MaxBreaks \in Nat /\ MaxCrashes \in Nat
                           /\ MaxLate \in Nat
                           /\ Exclusive \in BOOLEAN

VARIABLES
    \* the sender
    task,        \* status of its task, as the window shows it
    cancelled,   \* the task's cancel flag
    at,          \* where run_direct_send_task is
    left,        \* files not sent yet
    offset,      \* where to resume each file, from the accepting answer
    sending,     \* the file being uploaded
    sent,        \* chunks of it handed to the connection, from its start
    late,        \* progress updates spawned and not run yet
    \* the receiver, in memory
    session,     \* status of the session, "none" when there is none
    expected,    \* files the session still waits for
    path,        \* where each file will be saved
    rejecting,   \* reject_incoming_task is between its two locks
    handler,     \* the file handle_upload is receiving
    written,     \* chunks of it handle_upload has written, from its start
    opened,      \* where its open file is now: InPart, a path, or Gone
    \* the receiver, on disk
    incoming,    \* status of its task
    part,        \* the .part files
    downloads,   \* the saved files
    \* between them
    wire,        \* the connection of the upload
    breaks, crashes

sender == <<task, cancelled, at, left, offset, sending, sent, late>>
sessions == <<session, expected, path, rejecting>>
upload == <<handler, written, opened>>
disk == <<part, downloads>>
faults == <<breaks, crashes>>
vars == <<sender, sessions, upload, incoming, disk, wire, faults>>

(* An open file follows its file through renames.                         *)
InPart == <<NoFile, 0>>
Gone == <<NoFile, 1>>

Paths == {NameOf[f] : f \in Files} \X (0..MaxCopies)

(* Contents: of which file, how many chunks, and whether they are its      *)
(* first ones in order.                                                    *)
Content(f, n, ok) == [file |-> f, length |-> n, intact |-> ok]
Nothing == Content(NoFile, 0, TRUE)
Whole(f) == Content(f, Size[f], TRUE)
Empty(f) == Content(f, 0, TRUE)

(* write_all of the chunk that follows the first n.                        *)
Extend(c, n) == Content(c.file, c.length + 1, c.intact /\ c.length = n)

Ended == {"succeeded", "failed"}

Init ==
    /\ task = [s \in Sends |-> "none"]
    /\ cancelled = [s \in Sends |-> FALSE]
    /\ at = [s \in Sends |-> "idle"]
    /\ left = [s \in Sends |-> FilesOf[s]]
    /\ offset = [s \in Sends |-> [f \in Files |-> 0]]
    /\ sending = [s \in Sends |-> NoFile]
    /\ sent = [s \in Sends |-> 0]
    /\ late = [s \in Sends |-> 0]
    /\ session = [s \in Sends |-> "none"]
    /\ expected = [s \in Sends |-> {}]
    /\ path = [s \in Sends |-> [f \in Files |-> <<NameOf[f], 0>>]]
    /\ rejecting = {}
    /\ handler = [s \in Sends |-> NoFile]
    /\ written = [s \in Sends |-> 0]
    /\ opened = [s \in Sends |-> InPart]
    /\ incoming = [s \in Sends |-> "none"]
    /\ part = [f \in Files |-> Nothing]
    /\ downloads = [p \in Paths |-> Nothing]
    /\ wire = [s \in Sends |-> "closed"]
    /\ breaks = 0 /\ crashes = 0

(* A request, a connection or a local file fails.                          *)
Break == breaks < MaxBreaks /\ breaks' = breaks + 1 /\ UNCHANGED crashes

-----------------------------------------------------------------------------
(* The sender's task.                                                      *)

Goto(s, label) == at' = [at EXCEPT ![s] = label]

(* An error ends run_direct_send_task, and finish_task_failure says        *)
(* canceled when the flag is set.                                          *)
Fail(s) ==
    /\ Goto(s, "failed")
    /\ task' = [task EXCEPT ![s] = IF cancelled[s] THEN "canceled" ELSE "failed"]

StartSend(s) ==
    /\ at[s] = "idle"
    /\ Goto(s, "preparing")
    /\ task' = [task EXCEPT ![s] = "pending"]
    /\ UNCHANGED <<cancelled, left, offset, sending, sent, late,
                   sessions, upload, incoming, disk, wire, faults>>

(* POST prepare-upload.  handle_prepare_upload makes a task and a pending  *)
(* session; the answer may not arrive, and nor may the request.            *)
OpenSession(s) ==
    /\ session' = [session EXCEPT ![s] = "pending"]
    /\ expected' = [expected EXCEPT ![s] = FilesOf[s]]
    /\ incoming' = [incoming EXCEPT ![s] = "pending"]
    /\ UNCHANGED <<path, rejecting>>

Prepare(s) ==
    /\ at[s] = "preparing"
    /\ \/ OpenSession(s) /\ Goto(s, "waiting") /\ UNCHANGED <<task, faults>>
       \/ OpenSession(s) /\ Fail(s) /\ Break
       \/ Fail(s) /\ Break /\ UNCHANGED <<sessions, incoming>>
    /\ UNCHANGED <<cancelled, left, offset, sending, sent, late, upload, disk, wire>>

CloseSession(s) ==
    /\ session' = [session EXCEPT ![s] = "none"]
    /\ expected' = [expected EXCEPT ![s] = {}]
    /\ UNCHANGED <<path, rejecting>>

(* Slip: waits on without a look at the flag.                              *)
Wait_Unchecked(s) ==
    /\ at[s] = "waiting"
    /\ Goto(s, "asking")
    /\ UNCHANGED <<task, cancelled, left, offset, sending, sent, late,
                   sessions, upload, incoming, disk, wire, faults>>

(* The head of the waiting loop.  A cancelled task tells the receiver to   *)
(* cancel the session (handle_cancel) and fails whether that worked or not. *)
Wait(s) ==
    /\ at[s] = "waiting"
    /\ IF ~cancelled[s]
       THEN Goto(s, "asking") /\ UNCHANGED <<task, sessions, incoming, faults>>
       ELSE /\ Fail(s)
            /\ \/ /\ session[s] # "none"
                  /\ incoming' = [incoming EXCEPT ![s] = "canceled"]
                  /\ CloseSession(s) /\ UNCHANGED faults
               \/ session[s] = "none" /\ UNCHANGED <<sessions, incoming, faults>>
               \/ Break /\ UNCHANGED <<sessions, incoming>>
    /\ UNCHANGED <<cancelled, left, offset, sending, sent, late, upload, disk, wire>>

(* After the sleep, GET upload-session-status.  An accepted session        *)
(* answers with the current length of every .part file; a rejected one is  *)
(* removed by being asked for.                                             *)
Ask(s) ==
    /\ at[s] = "asking"
    /\ \/ /\ session[s] = "pending" /\ Goto(s, "waiting")
          /\ UNCHANGED <<task, offset, sessions, faults>>
       \/ /\ session[s] = "accepted" /\ Goto(s, "between")
          /\ task' = [task EXCEPT ![s] = "running"]
          /\ offset' = [offset EXCEPT ![s] = [f \in Files |-> part[f].length]]
          /\ UNCHANGED <<sessions, faults>>
       \/ /\ session[s] = "rejected" /\ Fail(s) /\ CloseSession(s)
          /\ UNCHANGED <<offset, faults>>
       \/ /\ session[s] = "none" /\ Fail(s)
          /\ UNCHANGED <<offset, sessions, faults>>
       \/ Fail(s) /\ Break /\ UNCHANGED <<offset, sessions>>
    /\ UNCHANGED <<cancelled, left, sending, sent, late, upload, incoming, disk, wire>>

AllSent(s) ==
    /\ at[s] = "between" /\ left[s] = {}
    /\ Goto(s, "succeeded")
    /\ task' = [task EXCEPT ![s] = "completed"]
    /\ UNCHANGED <<cancelled, left, offset, sending, sent, late,
                   sessions, upload, incoming, disk, wire, faults>>

(* Slip: the offset asked for is taken as it is.                           *)
OffsetMatches_Trusted(s, f) == TRUE

(* handle_upload compares the offset with the .part file as it is now.     *)
OffsetMatches(s, f) == part[f].length = offset[s][f]

Accepts(s, f) == session[s] = "accepted" /\ f \in expected[s] /\ OffsetMatches(s, f)

(* The next file: POST upload.  handle_upload opens the .part file, for    *)
(* appending when something is there already and emptied otherwise, or     *)
(* refuses.                                                                *)
UploadFile(s, f) ==
    /\ at[s] = "between" /\ f \in left[s]
    /\ Exclusive => \A other \in Sends : handler[other] # f
    /\ \/ /\ Accepts(s, f)
          /\ Goto(s, "uploading")
          /\ task' = [task EXCEPT ![s] = "running"]
          /\ sending' = [sending EXCEPT ![s] = f]
          /\ sent' = [sent EXCEPT ![s] = offset[s][f]]
          /\ handler' = [handler EXCEPT ![s] = f]
          /\ written' = [written EXCEPT ![s] = offset[s][f]]
          /\ opened' = [opened EXCEPT ![s] = InPart]
          /\ part' = [part EXCEPT ![f] = IF offset[s][f] = 0 THEN Empty(f) ELSE @]
          /\ wire' = [wire EXCEPT ![s] = "open"]
          /\ UNCHANGED faults
       \/ /\ ~Accepts(s, f) /\ Fail(s)
          /\ UNCHANGED <<sending, sent, upload, part, wire, faults>>
       \/ /\ Fail(s) /\ Break
          /\ UNCHANGED <<sending, sent, upload, part, wire>>
    /\ UNCHANGED <<cancelled, left, offset, late, sessions, incoming, downloads>>

(* The body's stream looks at the flag at every chunk, and spawns a        *)
(* progress update for each chunk it lets through, which runs at once      *)
(* when MaxLate of them are still waiting to run.                          *)
ReadChunk(s) ==
    /\ at[s] = "uploading" /\ wire[s] = "open" /\ sent[s] < Size[sending[s]]
    /\ IF cancelled[s]
       THEN /\ Fail(s) /\ wire' = [wire EXCEPT ![s] = "broken"]
            /\ UNCHANGED <<sent, late>>
       ELSE /\ sent' = [sent EXCEPT ![s] = @ + 1]
            /\ IF late[s] < MaxLate
               THEN late' = [late EXCEPT ![s] = @ + 1] /\ UNCHANGED task
               ELSE task' = [task EXCEPT ![s] = "running"] /\ UNCHANGED late
            /\ UNCHANGED <<at, wire>>
    /\ UNCHANGED <<cancelled, left, offset, sending,
                   sessions, upload, incoming, disk, faults>>

EndBody(s) ==
    /\ at[s] = "uploading" /\ wire[s] = "open" /\ sent[s] >= Size[sending[s]]
    /\ wire' = [wire EXCEPT ![s] = "eof"]
    /\ UNCHANGED <<sender, sessions, upload, incoming, disk, faults>>

(* update_task_file_progress, from the spawned update.                     *)
LateProgress(s) ==
    /\ late[s] > 0
    /\ late' = [late EXCEPT ![s] = @ - 1]
    /\ task' = [task EXCEPT ![s] = "running"]
    /\ UNCHANGED <<cancelled, at, left, offset, sending, sent,
                   sessions, upload, incoming, disk, wire, faults>>

(* The answer to the upload: 200, anything else, or none any more.         *)
GetAnswer(s) ==
    /\ at[s] = "uploading" /\ wire[s] \in {"ok", "refused", "broken"}
    /\ IF wire[s] = "ok"
       THEN /\ Goto(s, "between") /\ left' = [left EXCEPT ![s] = @ \ {sending[s]}]
            /\ UNCHANGED task
       ELSE Fail(s) /\ UNCHANGED left
    /\ UNCHANGED <<cancelled, offset, sending, sent, late,
                   sessions, upload, incoming, disk, wire, faults>>

(* cancel_task on either side: the button is there while the task counts   *)
(* as active, and the flag is all it changes of what goes on.              *)
Active == {"pending", "running"}

CancelSend(s) ==
    /\ task[s] \in Active
    /\ task' = [task EXCEPT ![s] = "canceled"]
    /\ cancelled' = [cancelled EXCEPT ![s] = TRUE]
    /\ UNCHANGED <<at, left, offset, sending, sent, late,
                   sessions, upload, incoming, disk, wire, faults>>

CancelIncoming(s) ==
    /\ incoming[s] \in Active
    /\ incoming' = [incoming EXCEPT ![s] = "canceled"]
    /\ UNCHANGED <<sender, sessions, upload, disk, wire, faults>>

-----------------------------------------------------------------------------
(* The receiver.                                                           *)

(* unique_download_path: the first path nobody has saved to yet.           *)
FreePath(f, p) ==
    /\ p \in Paths /\ p[1] = NameOf[f] /\ downloads[p] = Nothing
    /\ \A i \in 0..(p[2] - 1) : downloads[<<p[1], i>>] # Nothing

Accept(s) ==
    /\ session[s] = "pending"
    /\ \E chosen \in [expected[s] -> Paths] :
          /\ \A f \in expected[s] : FreePath(f, chosen[f])
          /\ path' = [path EXCEPT ![s] = [f \in Files |->
                        IF f \in expected[s] THEN chosen[f] ELSE @[f]]]
    /\ session' = [session EXCEPT ![s] = "accepted"]
    /\ incoming' = [incoming EXCEPT ![s] = "pending"]
    /\ UNCHANGED <<sender, expected, rejecting, upload, disk, wire, faults>>

(* reject_incoming_task looks at the status under one lock and sets it     *)
(* under another, without looking again.                                   *)
BeginReject(s) ==
    /\ session[s] = "pending"
    /\ rejecting' = rejecting \cup {s}
    /\ UNCHANGED <<sender, session, expected, path, upload, incoming, disk, wire, faults>>

EndReject(s) ==
    /\ s \in rejecting
    /\ rejecting' = rejecting \ {s}
    /\ IF session[s] # "none"
       THEN /\ session' = [session EXCEPT ![s] = "rejected"]
            /\ incoming' = [incoming EXCEPT ![s] = "canceled"]
       ELSE UNCHANGED <<session, incoming>>
    /\ UNCHANGED <<sender, expected, path, upload, disk, wire, faults>>

(* handle_upload takes the next chunk off the connection; it may still     *)
(* find chunks of a connection that has broken.                            *)
WriteChunk(s) ==
    LET f == handler[s] IN
    /\ f # NoFile /\ written[s] < sent[s]
    /\ written' = [written EXCEPT ![s] = @ + 1]
    /\ part' = IF opened[s] = InPart
               THEN [part EXCEPT ![f] = Extend(@, written[s])] ELSE part
    /\ downloads' = IF opened[s] \in Paths
                    THEN [downloads EXCEPT ![opened[s]] = Extend(@, written[s])]
                    ELSE downloads
    /\ incoming' = [incoming EXCEPT ![s] = "running"]
    /\ UNCHANGED <<sender, sessions, handler, opened, wire, faults>>

(* A read error: the handler returns and leaves session, task and .part    *)
(* file as they are.                                                       *)
AbandonUpload(s) ==
    /\ handler[s] # NoFile /\ wire[s] = "broken"
    /\ handler' = [handler EXCEPT ![s] = NoFile]
    /\ written' = [written EXCEPT ![s] = 0] /\ opened' = [opened EXCEPT ![s] = InPart]
    /\ UNCHANGED <<sender, sessions, incoming, disk, wire, faults>>

(* Slip: the end of the body is not waited for.                            *)
BodyReceived_Early(s) == wire[s] \in {"open", "eof"}

BodyReceived(s) == wire[s] = "eof" /\ written[s] = sent[s]

(* Slip: one file received ends the session.                               *)
LastFile_Any(s, f) == TRUE

LastFile(s, f) == expected[s] \subseteq {f}

(* fs::rename replaces what is at the path; open files follow their file.  *)
(* The file is taken off the session, and the last one ends session and    *)
(* task.  When another upload has taken the .part file away the rename     *)
(* fails.                                                                  *)
FinishUpload(s) ==
    LET f == handler[s]
        p == path[s][f]
    IN /\ f # NoFile /\ BodyReceived(s)
       /\ handler' = [handler EXCEPT ![s] = NoFile]
       /\ written' = [written EXCEPT ![s] = 0]
       /\ IF part[f] # Nothing
          THEN /\ downloads' = [downloads EXCEPT ![p] = part[f]]
               /\ part' = [part EXCEPT ![f] = Nothing]
               /\ opened' = [o \in Sends |->
                     IF o = s THEN InPart
                     ELSE IF handler[o] = f /\ opened[o] = InPart THEN p
                     ELSE IF opened[o] = p THEN Gone ELSE opened[o]]
               /\ IF LastFile(s, f)
                  THEN /\ CloseSession(s)
                       /\ incoming' = [incoming EXCEPT ![s] = "completed"]
                  ELSE /\ expected' = [expected EXCEPT ![s] = @ \ {f}]
                       /\ UNCHANGED <<session, path, rejecting, incoming>>
               /\ wire' = [wire EXCEPT ![s] = "ok"]
          ELSE /\ wire' = [wire EXCEPT ![s] = "refused"]
               /\ opened' = [opened EXCEPT ![s] = InPart]
               /\ UNCHANGED <<sessions, incoming, disk>>
       /\ UNCHANGED <<sender, faults>>

-----------------------------------------------------------------------------
(* The connection of an upload breaks, or the sender's client gives up on  *)
(* it after its total timeout.  What was handed over and not read yet may  *)
(* still be read.                                                          *)
BreakWire(s) ==
    /\ at[s] = "uploading" /\ wire[s] \in {"open", "eof", "ok"}
    /\ Break
    /\ wire' = [wire EXCEPT ![s] = "broken"]
    /\ UNCHANGED <<sender, sessions, upload, incoming, disk>>

Cut == [s \in Sends |-> IF wire[s] \in {"open", "eof"} THEN "broken" ELSE wire[s]]

(* The receiver's process ends and starts again: sessions and handlers are *)
(* gone, the disk is not.                                                  *)
CrashReceiver ==
    /\ crashes < MaxCrashes /\ crashes' = crashes + 1
    /\ session' = [s \in Sends |-> "none"]
    /\ expected' = [s \in Sends |-> {}]
    /\ rejecting' = {}
    /\ handler' = [s \in Sends |-> NoFile]
    /\ written' = [s \in Sends |-> 0] /\ opened' = [s \in Sends |-> InPart]
    /\ wire' = Cut
    /\ UNCHANGED <<sender, path, incoming, disk, breaks>>

(* The sender's process ends: its tasks stop where they are.               *)
CrashSender ==
    /\ crashes < MaxCrashes /\ crashes' = crashes + 1
    /\ at' = [s \in Sends |-> IF at[s] \in {"idle"} \cup Ended THEN at[s] ELSE "failed"]
    /\ late' = [s \in Sends |-> 0]
    /\ wire' = Cut
    /\ UNCHANGED <<task, cancelled, left, offset, sending, sent,
                   sessions, upload, incoming, disk, breaks>>

Run(s) == \/ Prepare(s) \/ Wait(s) \/ Ask(s) \/ AllSent(s)
          \/ \E f \in Files : UploadFile(s, f)
          \/ ReadChunk(s) \/ EndBody(s) \/ GetAnswer(s)

Receive(s) == WriteChunk(s) \/ AbandonUpload(s) \/ FinishUpload(s)

User(s) == \/ StartSend(s) \/ CancelSend(s) \/ CancelIncoming(s)
           \/ Accept(s) \/ BeginReject(s)

Next == \/ \E s \in Sends : \/ Run(s) \/ Receive(s) \/ User(s)
                            \/ LateProgress(s) \/ EndReject(s) \/ BreakWire(s)
        \/ CrashReceiver \/ CrashSender

(* Tasks, handlers and spawned updates run on the runtime until they end.  *)
(* No user has to do anything, and nothing has to fail.                    *)
Spec == /\ Init /\ [][Next]_vars
        /\ \A s \in Sends : /\ WF_vars(Run(s)) /\ WF_vars(Receive(s))
                            /\ WF_vars(LateProgress(s)) /\ WF_vars(EndReject(s))

-----------------------------------------------------------------------------
(* A saved file as the abstract specification sees it.                     *)
Saved(p) == IF downloads[p] = Nothing THEN NoFile
            ELSE IF downloads[p] = Whole(downloads[p].file) THEN downloads[p].file
            ELSE "torn"

Promise == INSTANCE Delivery WITH
              inbox <- [p \in Paths |-> Saved(p)],
              received <- {s \in Sends : incoming[s] = "completed"},
              confirmed <- {s \in Sends : at[s] = "succeeded"}

(* Through cancellations, refusals, broken connections, crashes of either  *)
(* node and resumed uploads, files are only ever saved whole, and a send   *)
(* is completed on either side only once all of its files have been saved. *)
Delivers == Promise!Spec

(* A completed send has all its files among the saved ones.                *)
CompletedIsSaved ==
    \A s \in Sends :
        at[s] = "succeeded" \/ incoming[s] = "completed"
            => \A f \in FilesOf[s] : \E p \in Paths : downloads[p] = Whole(f)

(* What has been received of a file is given up only by saving the file:   *)
(* no resumed, refused or repeated upload starts over.                     *)
NothingReceivedTwice ==
    [][\A f \in Files : part'[f].length < part[f].length =>
          part[f] = Whole(f) /\ \E p \in Paths : downloads'[p] = Whole(f)]_vars

(* A task that has ended, as the window shows it, stays as it ended.       *)
EndedTaskStaysEnded ==
    [][\A s \in Sends : at[s] \in Ended /\ task[s] \notin Active =>
          task'[s] = task[s]]_vars

(* A send whose receiver has decided, or that the sender has cancelled,    *)
(* comes to an end, whatever is lost.                                      *)
DecidedSendEnds ==
    \A s \in Sends :
        (session[s] \in {"accepted", "rejected"} \/ cancelled[s]) ~> (at[s] \in Ended)
=============================================================================
