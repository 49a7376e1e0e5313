------------------------------ MODULE FileUpload ------------------------------
(***************************************************************************)
(* FileObject (objects/file.rs): the upload of a device's file in numbered *)
(* packets, through begin_upload and handle_transfers or the blocking      *)
(* upload, over requests that may fail with or without the device having   *)
(* seen them.                                                              *)
(*                                                                         *)
(* The file is a sequence of blocks, one per packet, and sizes are counted *)
(* in blocks.  Each begin_upload has its own handler, named by the ordinal *)
(* of the call.  After a read timeout the session may hand over a late     *)
(* reply: that of an earlier transfer of the same upload, less than a      *)
(* round of transfer numbers old.                                          *)
(***************************************************************************)
EXTENDS Naturals, Sequences

CONSTANTS
  FileBlocks,  \* number of packets the file takes
  U8,          \* number of values of the transfer number
  MaxUploads   \* bound: calls of begin_upload

ASSUME FileAssumption ==
  /\ FileBlocks \in Nat \ {0}
  /\ U8 \in Nat \ {0, 1}
  /\ MaxUploads \in Nat \ {0}

Uploads == 1..MaxUploads
Blocks  == 1..FileBlocks
File    == [b \in Blocks |-> b]

VARIABLES
  pc,        \* "idle", or "upload" inside upload()
  state,     \* FileObject::state
  file_size, transfer_number, content, handler,  \* of UploadInProgress
  served,    \* the device: blocks sent in its upload, NotServing without one,
             \* Endless when it has sent more than its file
  uploads,   \* begin_upload calls so far
  \* History, per upload.
  blocking,  \* was it begun by upload()?
  begun,     \* did begin_upload store the handler?
  calls,     \* calls of the handler
  given      \* what a call with SUCCESS handed over

transferVars == <<file_size, transfer_number, content, handler>>
vars == <<pc, state, transferVars, served, uploads, blocking, begun, calls,
          given>>

NotServing == FileBlocks + 1
Endless    == FileBlocks + 2

\* FileObject::new: the state the device reports; one in the middle of an
\* upload counts as loaded.
Init ==
  /\ pc = "idle"
  /\ state \in {"NonExistent", "Empty", "Loaded"}
  /\ file_size = 0 /\ transfer_number = 0 /\ content = <<>> /\ handler = 1
  /\ served \in 0..NotServing
  /\ uploads = 0
  /\ blocking = [u \in Uploads |-> FALSE]
  /\ begun = [u \in Uploads |-> FALSE]
  /\ calls = [u \in Uploads |-> 0]
  /\ given = [u \in Uploads |-> <<>>]

Call(u, data) ==
  /\ calls' = [calls EXCEPT ![u] = @ + 1]
  /\ given' = [given EXCEPT ![u] = data]

-----------------------------------------------------------------------------
(* begin_upload.  A call from upload() goes on with handle_transfers; after  *)
(* an error upload() returns it.                                             *)

Begin(byUpload) ==
  /\ pc = "idle" /\ uploads < MaxUploads
  /\ uploads' = uploads + 1
  /\ blocking' = [blocking EXCEPT ![uploads'] = byUpload]

Continue(byUpload) == pc' = IF byUpload THEN "upload" ELSE "idle"

\* Nothing is loaded, or an upload is in progress: Ok, the handler is dropped.
BeginIgnored(byUpload) ==
  /\ Begin(byUpload)
  /\ state # "Loaded"
  /\ Continue(byUpload)
  /\ UNCHANGED <<state, transferVars, served, begun, calls, given>>

\* INITIATE_UPLOAD fails, or its reply is lost or truncated.
BeginFails(byUpload) ==
  /\ Begin(byUpload)
  /\ state = "Loaded"
  /\ served' \in {served, 0}
  /\ pc' = "idle"
  /\ UNCHANGED <<state, transferVars, begun, calls, given>>

\* The device refuses: the handler gets the status.
BeginRefused(byUpload) ==
  /\ Begin(byUpload)
  /\ state = "Loaded"
  /\ Call(uploads', <<>>)
  /\ Continue(byUpload)
  /\ UNCHANGED <<state, transferVars, served, begun>>

\* The upload begins, with the size the device reports (which may turn out to
\* be wrong).
BeginUpload(byUpload) ==
  /\ Begin(byUpload)
  /\ state = "Loaded"
  /\ served' = 0
  /\ state' = "InProgress"
  /\ file_size' \in {FileBlocks, FileBlocks + 1}
  /\ transfer_number' = 0
  /\ content' = <<>>
  /\ handler' = uploads'
  /\ begun' = [begun EXCEPT ![uploads'] = TRUE]
  /\ Continue(byUpload)
  /\ UNCHANGED <<calls, given>>

-----------------------------------------------------------------------------
(* handle_transfers, called by the application or by the loop of upload().   *)

\* Mutant: the object is left in progress.
BugFinish(success, data) ==
  /\ Call(handler, IF success /\ Len(data) = file_size THEN data ELSE <<>>)
  /\ pc' = "idle"
  /\ UNCHANGED <<state, transferVars>>

\* finish: back to Loaded and the handler is called; success with the wrong
\* size becomes INVALID_PARAMETER.  The loop of upload() ends.
Finish(success, data) ==
  /\ state' = "Loaded"
  /\ Call(handler, IF success /\ Len(data) = file_size THEN data ELSE <<>>)
  /\ pc' = "idle"
  /\ UNCHANGED transferVars

\* Mutant: more packets are promised when there is no upload.
BugNothingToTransfer ==
  /\ pc = "upload" /\ state # "InProgress"
  /\ UNCHANGED vars

\* Not in progress: Ok(false); upload() finds no result, or the refusal.
NothingToTransfer ==
  /\ pc = "upload" /\ state # "InProgress"
  /\ pc' = "idle"
  /\ UNCHANGED <<state, transferVars, served, uploads, blocking, begun, calls,
                 given>>

\* The device's answer to a transfer request: it serves the next block, or the
\* last one again, if the number is theirs; "serve" is the block or 0.
NumberOf(b) == (b - 1) % U8
Serve ==
  IF served < FileBlocks /\ transfer_number = NumberOf(served + 1)
  THEN served + 1
  ELSE IF served \in Blocks /\ transfer_number = NumberOf(served)
  THEN served
  ELSE 0

\* The request does not reach the device, or its reply does not arrive whole:
\* the error is returned at once and the state is kept.
TransferFails ==
  /\ state = "InProgress"
  /\ served' \in {served} \cup ({Serve} \cap Blocks)
  /\ pc' = "idle"
  /\ UNCHANGED <<state, transferVars, uploads, blocking, begun, calls, given>>

\* An error reply: the device has no such upload (any more), or refuses.
TransferRefused ==
  /\ state = "InProgress"
  /\ served' \in {served, NotServing}
  /\ Finish(FALSE, <<>>)
  /\ UNCHANGED <<uploads, blocking, begun>>

\* ABORT or an unknown packet type.
TransferAborted ==
  /\ state = "InProgress"
  /\ served' = NotServing
  /\ Finish(FALSE, <<>>)
  /\ UNCHANGED <<uploads, blocking, begun>>

\* Mutant: the packet's number is not compared.
BugReceivePacket(b) ==
  IF b < FileBlocks
  THEN /\ content' = Append(content, b)
       /\ transfer_number' = (transfer_number + 1) % U8
       /\ UNCHANGED <<pc, state, file_size, handler, calls, given>>
  ELSE Finish(TRUE, Append(content, b))

\* A packet of block b: the wrong number ends the upload; the last packet
\* (LAST, FIRST_AND_LAST) completes it; another is appended.
ReceivePacket(b) ==
  IF NumberOf(b) # transfer_number
  THEN Finish(FALSE, <<>>)
  ELSE IF b < FileBlocks
  THEN /\ content' = Append(content, b)
       /\ transfer_number' = (transfer_number + 1) % U8
       /\ UNCHANGED <<pc, state, file_size, handler, calls, given>>
  ELSE Finish(TRUE, Append(content, b))

TransferPacket ==
  /\ state = "InProgress"
  /\ Serve \in Blocks
  /\ served' = Serve
  /\ ReceivePacket(Serve)
  /\ UNCHANGED <<uploads, blocking, begun>>

\* A last packet that was cut short: only its size tells.
TransferShortLast ==
  /\ state = "InProgress"
  /\ Serve = FileBlocks
  /\ served' = Serve
  /\ Finish(TRUE, content)
  /\ UNCHANGED <<uploads, blocking, begun>>

\* A device whose file does not end: where the last block is due it sends a
\* packet of the middle, then another for every number.  The content, too long
\* by now, is not followed further.
TransferEndless ==
  /\ state = "InProgress"
  /\ Serve = FileBlocks \/ served = Endless
  /\ served' = Endless
  /\ transfer_number' = (transfer_number + 1) % U8
  /\ UNCHANGED <<pc, state, file_size, content, handler, uploads, blocking, begun,
                 calls, given>>

\* The session hands over the late reply of an earlier transfer.
TransferLate(b) ==
  /\ state = "InProgress"
  /\ served \in Blocks
  /\ b <= served /\ Len(content) + 1 < b + U8
  /\ served' = IF Serve \in Blocks THEN Serve ELSE served
  /\ ReceivePacket(b)
  /\ UNCHANGED <<uploads, blocking, begun>>

-----------------------------------------------------------------------------

HandleTransfers ==
  \/ NothingToTransfer
  \/ TransferFails \/ TransferRefused \/ TransferAborted
  \/ TransferPacket \/ TransferShortLast \/ TransferEndless
  \/ \E b \in Blocks : TransferLate(b)

\* The bound on calls is reached and none is under way.
Finished == pc = "idle" /\ uploads = MaxUploads /\ UNCHANGED vars

Next ==
  \/ \E byUpload \in BOOLEAN :
       \/ BeginIgnored(byUpload) \/ BeginFails(byUpload)
       \/ BeginRefused(byUpload) \/ BeginUpload(byUpload)
  \/ HandleTransfers
  \/ Finished

Spec == Init /\ [][Next]_vars

\* upload() keeps calling handle_transfers: every request ends, by a reply or
\* by the session's timeout.
FairSpec == Spec /\ WF_vars(pc = "upload" /\ HandleTransfers)

-----------------------------------------------------------------------------
(* Properties *)

\* Every variable stays in its domain; the transfer number keeps its width and
\* the content never outgrows the file.
TypeOK ==
  /\ pc \in {"idle", "upload"}
  /\ state \in {"NonExistent", "Empty", "Loaded", "InProgress"}
  /\ file_size \in 0..FileBlocks + 1
  /\ transfer_number \in 0..U8 - 1
  /\ content \in Seq(Blocks) /\ Len(content) < FileBlocks
  /\ handler \in Uploads
  /\ served \in 0..Endless
  /\ uploads \in 0..MaxUploads
  /\ blocking \in [Uploads -> BOOLEAN]
  /\ begun \in [Uploads -> BOOLEAN]
  /\ calls \in [Uploads -> Nat]
  /\ given \in [Uploads -> Seq(Blocks)]

\* A handler called with data gets the device's file, block by block: lost,
\* repeated and late replies, retries by the application, wrapped transfer
\* numbers and packets cut short never make a wrong file a success.
WholeFile ==
  \A u \in Uploads : given[u] # <<>> => given[u] = File

\* EndUploadHandler: "Called once when an upload ends": of every upload that
\* was begun, the handler is stored in the object or has been called, once.
HandlerOnce ==
  \A u \in Uploads :
    begun[u] => calls[u] = IF state = "InProgress" /\ handler = u THEN 0 ELSE 1

\* upload() returns, whatever is lost, late, cut short or refused, unless the
\* device sends packets for ever: the loop has no limit of its own.
UploadReturns == pc = "upload" ~> (pc = "idle" \/ [](served = Endless))

\* README: "A File object upload returns to the loaded state when it ends": no
\* upload begun by upload() outlives the call.
UploadEndsLoaded ==
  state = "InProgress" /\ blocking[handler] => pc = "upload"

=============================================================================
