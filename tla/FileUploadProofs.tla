--------------------------- MODULE FileUploadProofs ---------------------------
(***************************************************************************)
(* The upload of a file, for every file size, every number of transfer     *)
(* numbers above one and any number of uploads.  The device is never more  *)
(* than one block ahead of the content (ContentInv), so that the transfer  *)
(* number, although it wraps, tells the next block from all others that    *)
(* may arrive.                                                             *)
(***************************************************************************)
EXTENDS FileUpload, Integers, TLAPS

USE FileAssumption

-----------------------------------------------------------------------------
(* Transfer numbers *)

\* Division with remainder.
LEMMA Remainder ==
  ASSUME NEW a \in Nat
  PROVE  \E q \in Int : a = U8 * q + (a % U8) /\ a % U8 \in 0..(U8 - 1)
<1>1. a = U8 * (a \div U8) + (a % U8) /\ a \div U8 \in Int
  OBVIOUS
<1>2. a % U8 \in 0..(U8 - 1)
  OBVIOUS
<1> QED
  BY <1>1, <1>2

\* Two numbers less than a round apart have different transfer numbers.
LEMMA WithinARound ==
  ASSUME NEW a \in Nat, NEW b \in Nat, a <= b, b < a + U8, a % U8 = b % U8
  PROVE  a = b
<1>1. PICK q \in Int : a = U8 * q + (a % U8) /\ a % U8 \in 0..(U8 - 1)
  BY Remainder
<1>2. PICK p \in Int : b = U8 * p + (b % U8)
  BY Remainder
<1>3. U8 * p - U8 * q = b - a /\ U8 * p \in Int /\ U8 * q \in Int
  BY <1>1, <1>2
<1>4. ASSUME p >= q + 1 PROVE FALSE
  <2>1. U8 * p >= U8 * (q + 1) /\ U8 * (q + 1) = U8 * q + U8
    BY <1>4
  <2> QED
    BY <1>3, <2>1
<1>5. ASSUME p + 1 <= q PROVE FALSE
  <2>1. U8 * q >= U8 * (p + 1) /\ U8 * (p + 1) = U8 * p + U8
    BY <1>5
  <2> QED
    BY <1>3, <2>1
<1>6. p = q
  BY <1>4, <1>5
<1> QED
  BY <1>1, <1>2, <1>6

\* The transfer number of the next block, from that of this one.
LEMMA NumberStep ==
  ASSUME NEW a \in Nat
  PROVE  ((a % U8) + 1) % U8 = (a + 1) % U8
<1>1. PICK q \in Int : a = U8 * q + (a % U8) /\ a % U8 \in 0..(U8 - 1)
  BY Remainder
<1>2. PICK p \in Int : a + 1 = U8 * p + ((a + 1) % U8) /\ (a + 1) % U8 \in 0..(U8 - 1)
  <2>1. a + 1 \in Nat
    OBVIOUS
  <2> QED
    BY <2>1, Remainder
<1> DEFINE r == a % U8
<1> DEFINE s == (a + 1) % U8
<1>3. U8 * q + r + 1 = U8 * p + s /\ r \in 0..(U8 - 1) /\ s \in 0..(U8 - 1)
  BY <1>1, <1>2
<1>4. /\ U8 * (q + 1) = U8 * q + U8 /\ U8 * (p + 1) = U8 * p + U8
      /\ U8 * (q + 2) = U8 * q + U8 + U8
      /\ U8 * q \in Int /\ U8 * p \in Int
  OBVIOUS
<1>5. p = q \/ p = q + 1
  <2>1. ASSUME p + 1 <= q PROVE FALSE
    <3>1. U8 * (p + 1) <= U8 * q
      BY <2>1
    <3> QED
      BY <1>3, <1>4, <3>1
  <2>2. ASSUME p >= q + 2 PROVE FALSE
    <3>1. U8 * p >= U8 * (q + 2)
      BY <2>2
    <3> QED
      BY <1>3, <1>4, <3>1
  <2> QED
    BY <2>1, <2>2
<1> HIDE DEF r, s
<1>6. CASE p = q
  <2>1. s = r + 1 /\ s \in 0..(U8 - 1)
    BY <1>3, <1>4, <1>6
  <2>2. s % U8 = s
    BY <2>1
  <2> QED
    BY <2>1, <2>2 DEF r, s
<1>7. CASE p = q + 1
  <2>1. r + 1 = U8 /\ s = 0
    BY <1>3, <1>4, <1>7
  <2>2. U8 % U8 = 0
    OBVIOUS
  <2> QED
    BY <2>1, <2>2 DEF r, s
<1> QED
  BY <1>5, <1>6, <1>7

-----------------------------------------------------------------------------
(* The inductive invariant *)

\* Of an upload in progress: the content is the file so far, the transfer
\* number is that of the next block, and the device has sent no more than
\* that block; one that sends more than its file never sends a last block.
ContentInv ==
  state = "InProgress" =>
    /\ file_size \in {FileBlocks, FileBlocks + 1}
    /\ \A i \in 1..Len(content) : content[i] = i
    /\ served # Endless => /\ transfer_number = Len(content) % U8
                           /\ served \in {Len(content), Len(content) + 1}

\* Uploads are counted: those to come have not begun and called nothing.
CountInv ==
  /\ \A u \in Uploads : u > uploads => ~begun[u] /\ calls[u] = 0
  /\ state = "InProgress" => handler <= uploads /\ begun[handler]

IInv == TypeOK /\ ContentInv /\ CountInv /\ WholeFile /\ HandlerOnce

\* The device serves the block after the content, also when its last reply
\* was lost and the request is made again.
LEMMA ServesNext ==
  ASSUME TypeOK, ContentInv, state = "InProgress", served # Endless
  PROVE  /\ Serve = Len(content) + 1 /\ Serve \in Blocks
         /\ NumberOf(Serve) = transfer_number
<1> DEFINE n == Len(content)
<1>1. n \in Nat /\ n < FileBlocks /\ n + 1 \in Blocks /\ n + 1 \in Nat
  BY DEF TypeOK, Blocks
<1>2. NumberOf(n + 1) = transfer_number
  BY <1>1 DEF NumberOf, ContentInv
<1>3. CASE served = n
  BY <1>1, <1>2, <1>3 DEF Serve
<1>4. CASE served = n + 1
  <2>1. (n + 1) % U8 # n % U8
    BY <1>1, WithinARound
  <2>2. NumberOf(n + 2) # transfer_number
    BY <1>1, <2>1 DEF NumberOf, ContentInv
  <2> QED
    BY <1>1, <1>2, <1>4, <2>2 DEF Serve
<1> QED
  BY <1>1, <1>2, <1>3, <1>4 DEF ContentInv

\* A device that has sent more than its file serves no block of it.
LEMMA ServesNone ==
  ASSUME TypeOK, Serve \in Blocks \/ served \in Blocks
  PROVE  served # Endless
BY DEF TypeOK, Serve, Blocks, Endless

\* A packet whose number is the expected one is the next block: a late reply
\* is less than a round of numbers old.
LEMMA TakesNext ==
  ASSUME TypeOK, ContentInv, state = "InProgress", served # Endless, NEW b \in Blocks,
         b <= served, Len(content) + 1 < b + U8, NumberOf(b) = transfer_number
  PROVE  b = Len(content) + 1
<1> DEFINE n == Len(content)
<1>1. n \in Nat /\ b - 1 \in Nat /\ b <= n + 1 /\ b \in Nat
  BY DEF TypeOK, ContentInv, Blocks
<1>2. b - 1 <= n /\ n < (b - 1) + U8 /\ (b - 1) % U8 = n % U8
  BY <1>1 DEF NumberOf, ContentInv
<1>3. b - 1 = n
  BY <1>1, <1>2, WithinARound
<1> QED
  BY <1>1, <1>3

\* The content and the last block make the file.
LEMMA LastCompletes ==
  ASSUME TypeOK, ContentInv, state = "InProgress", Len(content) + 1 = FileBlocks
  PROVE  Append(content, FileBlocks) = File /\ Append(content, FileBlocks) \in Seq(Blocks)
<1> DEFINE s == Append(content, FileBlocks)
<1>1. FileBlocks \in Blocks /\ content \in Seq(Blocks) /\ Len(content) \in Nat
  BY DEF Blocks, TypeOK
<1>2. /\ s \in Seq(Blocks) /\ Len(s) = FileBlocks
      /\ \A i \in 1..Len(content) : s[i] = content[i]
      /\ s[FileBlocks] = FileBlocks
  BY <1>1
<1>3. \A i \in Blocks : s[i] = i
  BY <1>1, <1>2 DEF ContentInv, Blocks
<1> HIDE DEF s
<1>4. s = [i \in Blocks |-> s[i]]
  <2>1. s \in [1..Len(s) -> Blocks]
    BY <1>2
  <2> QED
    BY <1>2, <2>1 DEF Blocks
<1> QED
  BY <1>2, <1>3, <1>4 DEF File, s

LEMMA NoBlocks == <<>> \in Seq(Blocks)
OBVIOUS

\* What finish does: the upload in progress ends, its handler is called, and
\* gets data only if they are the whole file.
LEMMA FinishEnds ==
  ASSUME IInv, state = "InProgress", NEW success \in BOOLEAN, NEW data \in Seq(Blocks),
         Finish(success, data), success /\ Len(data) = file_size => data = File,
         served' \in 0..Endless, UNCHANGED <<uploads, blocking, begun>>
  PROVE  IInv'
<1> DEFINE d == IF success /\ Len(data) = file_size THEN data ELSE <<>>
<1>1. d \in Seq(Blocks) /\ (d = <<>> \/ d = File)
  OBVIOUS
<1> HIDE DEF d
<1>2. /\ state' = "Loaded" /\ pc' = "idle" /\ UNCHANGED transferVars
      /\ calls' = [calls EXCEPT ![handler] = @ + 1]
      /\ given' = [given EXCEPT ![handler] = d]
  BY DEF Finish, Call, d
<1>3. handler \in Uploads /\ handler <= uploads /\ begun[handler] /\ calls[handler] = 0
  BY DEF IInv, TypeOK, CountInv, HandlerOnce
<1>4. TypeOK'
  BY <1>1, <1>2, <1>3 DEF IInv, TypeOK, transferVars
<1>5. ContentInv'
  BY <1>2 DEF ContentInv
<1>6. WholeFile'
  BY <1>1, <1>2, <1>3 DEF IInv, TypeOK, WholeFile
<1>7. CountInv'
  BY <1>2, <1>3 DEF IInv, TypeOK, CountInv, Uploads
<1>8. HandlerOnce'
  BY <1>2, <1>3 DEF IInv, TypeOK, HandlerOnce
<1> QED
  BY <1>4, <1>5, <1>6, <1>7, <1>8 DEF IInv

\* What taking the next packet does: the content grows by its block, or the
\* upload ends with the whole file.
LEMMA ReceiveKeeps ==
  ASSUME IInv, state = "InProgress", served # Endless, NEW b \in Blocks, ReceivePacket(b),
         NumberOf(b) = transfer_number => b = Len(content) + 1,
         served' = Len(content) + 1, UNCHANGED <<uploads, blocking, begun>>
  PROVE  IInv'
<1>0. Len(content) \in Nat /\ Len(content) < FileBlocks /\ content \in Seq(Blocks)
  BY DEF IInv, TypeOK
<1>1. served' \in 0..Endless
  BY <1>0 DEF Endless
<1>2. CASE NumberOf(b) # transfer_number
  <2>1. Finish(FALSE, <<>>)
    BY <1>2 DEF ReceivePacket
  <2> QED
    BY <1>1, <2>1, NoBlocks, FinishEnds
<1>3. CASE NumberOf(b) = transfer_number /\ b < FileBlocks
  <2>1. /\ content' = Append(content, b)
        /\ transfer_number' = (transfer_number + 1) % U8
        /\ UNCHANGED <<pc, state, file_size, handler, calls, given>>
    BY <1>3 DEF ReceivePacket
  <2>2. b = Len(content) + 1
    BY <1>3
  <2>3. /\ content' \in Seq(Blocks) /\ Len(content') = Len(content) + 1
        /\ \A i \in 1..Len(content) : content'[i] = content[i]
        /\ content'[Len(content) + 1] = b
    BY <1>0, <2>1
  <2>4. \A i \in 1..Len(content') : content'[i] = i
    BY <1>0, <2>2, <2>3 DEF IInv, ContentInv
  <2>5. transfer_number' = Len(content') % U8
    BY <1>0, <2>1, <2>3, NumberStep DEF IInv, ContentInv
  <2>6. transfer_number' \in 0..(U8 - 1)
    BY <1>0, <2>3, <2>5
  <2>7. Len(content') < FileBlocks
    BY <1>3, <2>2, <2>3
  <2>8. TypeOK'
    BY <1>1, <2>1, <2>3, <2>6, <2>7 DEF IInv, TypeOK
  <2>9. ContentInv'
    BY <1>0, <2>1, <2>3, <2>4, <2>5 DEF IInv, ContentInv
  <2> QED
    BY <2>1, <2>8, <2>9 DEF IInv, CountInv, WholeFile, HandlerOnce
<1>4. CASE NumberOf(b) = transfer_number /\ ~(b < FileBlocks)
  <2>1. b = FileBlocks /\ Len(content) + 1 = FileBlocks
    BY <1>0, <1>4 DEF Blocks
  <2>2. Finish(TRUE, Append(content, FileBlocks))
    BY <1>4, <2>1 DEF ReceivePacket
  <2>3. Append(content, FileBlocks) = File /\ Append(content, FileBlocks) \in Seq(Blocks)
    BY <2>1, LastCompletes DEF IInv
  <2> QED
    BY <1>1, <2>2, <2>3, FinishEnds
<1> QED
  BY <1>2, <1>3, <1>4

-----------------------------------------------------------------------------

LEMMA InitIInv == Init => IInv
<1> SUFFICES ASSUME Init PROVE IInv
  OBVIOUS
<1>1. /\ content \in Seq(Blocks) /\ Len(content) = 0
      /\ given \in [Uploads -> Seq(Blocks)]
      /\ \A u \in Uploads : given[u] = <<>>
  BY DEF Init
<1>2. /\ calls \in [Uploads -> Nat] /\ handler \in Uploads
      /\ file_size \in 0..(FileBlocks + 1)
      /\ transfer_number \in 0..(U8 - 1) /\ uploads \in 0..MaxUploads
  BY DEF Init, Uploads
<1>3. /\ blocking \in [Uploads -> BOOLEAN] /\ begun \in [Uploads -> BOOLEAN]
      /\ \A u \in Uploads : ~begun[u]
  BY DEF Init
<1>4. TypeOK
  <2>1. served \in 0..Endless
    BY DEF Init, NotServing, Endless
  <2> QED
    BY <1>1, <1>2, <1>3, <2>1 DEF Init, TypeOK
<1>5. ContentInv /\ CountInv /\ WholeFile /\ HandlerOnce
  BY <1>1, <1>3 DEF Init, ContentInv, CountInv, WholeFile, HandlerOnce
<1> QED
  BY <1>4, <1>5 DEF IInv

\* A call of begin_upload that changes nothing of an upload in progress.
LEMMA BeginKeeps ==
  ASSUME IInv, NEW byUpload \in BOOLEAN, Begin(byUpload), pc' \in {"idle", "upload"},
         UNCHANGED <<state, transferVars, begun, calls, given>>,
         state # "InProgress" \/ served' = served, served' \in 0..Endless
  PROVE  IInv'
<1>1. uploads' = uploads + 1 /\ uploads' \in Uploads /\ uploads \in Nat
  BY DEF Begin, IInv, TypeOK, Uploads
<1>2. blocking' \in [Uploads -> BOOLEAN]
  BY DEF Begin, IInv, TypeOK
<1>3. TypeOK'
  BY <1>1, <1>2 DEF IInv, TypeOK, transferVars, Uploads
<1>4. ContentInv'
  BY DEF IInv, ContentInv, transferVars
<1>5. CountInv'
  BY <1>1 DEF IInv, TypeOK, CountInv, transferVars, Uploads
<1> QED
  BY <1>3, <1>4, <1>5 DEF IInv, WholeFile, HandlerOnce, transferVars

LEMMA StepIInv == IInv /\ [Next]_vars => IInv'
<1> SUFFICES ASSUME IInv, [Next]_vars PROVE IInv'
  OBVIOUS
<1>a. TypeOK /\ ContentInv /\ CountInv /\ WholeFile /\ HandlerOnce
  BY DEF IInv
<1>b. served \in 0..Endless /\ NotServing \in 0..Endless /\ Endless \in 0..Endless /\ 0 \in 0..Endless
      /\ Len(content) \in Nat /\ Len(content) < FileBlocks
      /\ \A b \in Blocks : b \in 0..Endless
  BY <1>a DEF TypeOK, NotServing, Endless, Blocks
<1>1. ASSUME NEW byUpload \in BOOLEAN, BeginIgnored(byUpload) PROVE IInv'
  <2>1. pc' \in {"idle", "upload"}
    BY <1>1 DEF BeginIgnored, Continue
  <2> QED
    BY <1>1, <1>b, <2>1, BeginKeeps DEF BeginIgnored
<1>2. ASSUME NEW byUpload \in BOOLEAN, BeginFails(byUpload) PROVE IInv'
  BY <1>2, <1>b, BeginKeeps DEF BeginFails
<1>3. ASSUME NEW byUpload \in BOOLEAN, BeginRefused(byUpload) PROVE IInv'
  <2>1. uploads' = uploads + 1 /\ uploads' \in Uploads /\ uploads \in Nat
    BY <1>3, <1>a DEF BeginRefused, Begin, TypeOK, Uploads
  <2>2. blocking' \in [Uploads -> BOOLEAN]
    BY <1>3, <1>a DEF BeginRefused, Begin, TypeOK
  <2>3. pc' \in {"idle", "upload"}
    BY <1>3 DEF BeginRefused, Continue
  <2>4. /\ state = "Loaded" /\ UNCHANGED <<state, transferVars, served, begun>>
        /\ calls' = [calls EXCEPT ![uploads'] = @ + 1]
        /\ given' = [given EXCEPT ![uploads'] = <<>>]
    BY <1>3 DEF BeginRefused, Call
  <2>5. ~begun[uploads']
    BY <1>a, <2>1 DEF CountInv
  <2>6. TypeOK'
    <3>1. calls' \in [Uploads -> Nat]
      BY <1>a, <2>1, <2>4 DEF TypeOK
    <3>2. given' \in [Uploads -> Seq(Blocks)]
      BY <1>a, <2>1, <2>4, NoBlocks DEF TypeOK
    <3> QED
      BY <1>a, <2>1, <2>2, <2>3, <2>4, <3>1, <3>2 DEF TypeOK, transferVars, Uploads
  <2>7. ContentInv'
    BY <1>a, <2>4 DEF ContentInv
  <2>8. CountInv'
    BY <1>a, <2>1, <2>4 DEF TypeOK, CountInv, Uploads
  <2>9. WholeFile'
    BY <1>a, <2>1, <2>4 DEF TypeOK, WholeFile
  <2>10. HandlerOnce'
    BY <1>a, <2>1, <2>4, <2>5 DEF TypeOK, HandlerOnce
  <2> QED
    BY <2>6, <2>7, <2>8, <2>9, <2>10 DEF IInv
<1>4. ASSUME NEW byUpload \in BOOLEAN, BeginUpload(byUpload) PROVE IInv'
  <2>1. uploads' = uploads + 1 /\ uploads' \in Uploads /\ uploads \in Nat
    BY <1>4, <1>a DEF BeginUpload, Begin, TypeOK, Uploads
  <2>2. blocking' \in [Uploads -> BOOLEAN]
    BY <1>4, <1>a DEF BeginUpload, Begin, TypeOK
  <2>3. pc' \in {"idle", "upload"}
    BY <1>4 DEF BeginUpload, Continue
  <2>4. /\ state = "Loaded" /\ state' = "InProgress" /\ served' = 0
        /\ file_size' \in {FileBlocks, FileBlocks + 1}
        /\ transfer_number' = 0 /\ content' = <<>> /\ handler' = uploads'
        /\ begun' = [begun EXCEPT ![uploads'] = TRUE]
        /\ UNCHANGED <<calls, given>>
    BY <1>4 DEF BeginUpload
  <2>5. content' \in Seq(Blocks) /\ Len(content') = 0
    BY <2>4
  <2>6. begun' \in [Uploads -> BOOLEAN]
    BY <1>a, <2>4 DEF TypeOK
  <2>7. TypeOK'
    BY <1>a, <1>b, <2>1, <2>2, <2>3, <2>4, <2>5, <2>6 DEF TypeOK, Uploads
  <2>8. ContentInv'
    BY <2>4, <2>5 DEF ContentInv
  <2>9. CountInv'
    BY <1>a, <2>1, <2>4 DEF TypeOK, CountInv, Uploads
  <2>10. HandlerOnce'
    <3>1. calls[uploads'] = 0
      BY <1>a, <2>1 DEF CountInv
    <3> QED
      BY <1>a, <2>1, <2>4, <3>1 DEF TypeOK, HandlerOnce
  <2> QED
    BY <1>a, <2>4, <2>7, <2>8, <2>9, <2>10 DEF IInv, WholeFile
<1>5. CASE NothingToTransfer
  BY <1>5, <1>a DEF NothingToTransfer, IInv, TypeOK, ContentInv, CountInv, WholeFile,
     HandlerOnce, transferVars
<1>6. CASE TransferFails
  <2>1. /\ state = "InProgress" /\ pc' = "idle"
        /\ UNCHANGED <<state, transferVars, uploads, blocking, begun, calls, given>>
        /\ served' = served \/ (served' = Serve /\ Serve \in Blocks)
    BY <1>6 DEF TransferFails
  <2>2. served' = served \/ (served' = Len(content) + 1 /\ served # Endless)
    BY <1>a, <2>1, ServesNext, ServesNone
  <2>3. TypeOK'
    BY <1>a, <1>b, <2>1 DEF TypeOK, transferVars
  <2>4. ContentInv'
    BY <1>a, <2>1, <2>2 DEF ContentInv, transferVars
  <2> QED
    BY <1>a, <2>1, <2>3, <2>4 DEF IInv, CountInv, WholeFile, HandlerOnce, transferVars
<1>7. CASE TransferRefused
  <2>1. /\ state = "InProgress" /\ Finish(FALSE, <<>>) /\ served' \in 0..Endless
        /\ UNCHANGED <<uploads, blocking, begun>>
    BY <1>7, <1>b DEF TransferRefused
  <2> QED
    BY <2>1, NoBlocks, FinishEnds
<1>8. CASE TransferAborted
  <2>1. /\ state = "InProgress" /\ Finish(FALSE, <<>>) /\ served' \in 0..Endless
        /\ UNCHANGED <<uploads, blocking, begun>>
    BY <1>8, <1>b DEF TransferAborted
  <2> QED
    BY <2>1, NoBlocks, FinishEnds
<1>9. CASE TransferPacket
  <2>1. state = "InProgress" /\ ReceivePacket(Serve) /\ served' = Serve
        /\ Serve \in Blocks /\ UNCHANGED <<uploads, blocking, begun>>
    BY <1>9 DEF TransferPacket
  <2>2. Serve = Len(content) + 1 /\ served # Endless
    BY <1>a, <2>1, ServesNext, ServesNone
  <2> QED
    BY <2>1, <2>2, ReceiveKeeps
<1>10. CASE TransferShortLast
  <2>1. /\ state = "InProgress" /\ Finish(TRUE, content) /\ served' = Serve
        /\ Serve = FileBlocks /\ UNCHANGED <<uploads, blocking, begun>>
    BY <1>10 DEF TransferShortLast
  <2>2. Serve \in Blocks
    BY <2>1 DEF Blocks
  <2>3. Len(content) # file_size /\ content \in Seq(Blocks)
    BY <1>a, <1>b, <2>1 DEF ContentInv, TypeOK
  <2> QED
    BY <1>b, <2>1, <2>2, <2>3, FinishEnds
<1>11. ASSUME NEW b \in Blocks, TransferLate(b) PROVE IInv'
  <2>1. /\ state = "InProgress" /\ ReceivePacket(b) /\ served \in Blocks
        /\ b <= served /\ Len(content) + 1 < b + U8 /\ served # Endless
        /\ UNCHANGED <<uploads, blocking, begun>>
    BY <1>11, <1>a, ServesNone DEF TransferLate
  <2>2. served' = Len(content) + 1
    BY <1>11, <1>a, <2>1, ServesNext DEF TransferLate
  <2>3. NumberOf(b) = transfer_number => b = Len(content) + 1
    BY <1>a, <2>1, TakesNext
  <2> QED
    BY <2>1, <2>2, <2>3, ReceiveKeeps
<1>12. CASE TransferEndless
  <2>1. (transfer_number + 1) % U8 \in 0..(U8 - 1)
    BY <1>a DEF TypeOK
  <2> QED
    BY <1>12, <1>a, <1>b, <2>1 DEF TransferEndless, IInv, TypeOK, ContentInv, CountInv,
       WholeFile, HandlerOnce
<1>13. CASE UNCHANGED vars
  BY <1>13, <1>a DEF vars, IInv, TypeOK, ContentInv, CountInv, WholeFile, HandlerOnce,
     transferVars
<1> QED
  BY <1>1, <1>2, <1>3, <1>4, <1>5, <1>6, <1>7, <1>8, <1>9, <1>10, <1>11, <1>12, <1>13
  DEF Next, HandleTransfers, Finished

\* Every behaviour of the object keeps the invariant.
LEMMA Uploading == Spec => []IInv
<1>1. IInv /\ [Next]_vars => IInv'
  BY StepIInv
<1> QED
  BY <1>1, InitIInv, PTL DEF Spec

\* For every file size and any number of uploads, a handler called with
\* data gets the device's file: lost and late replies, retries, wrapped
\* transfer numbers and packets cut short never make a wrong file a success.
THEOREM UploadsWholeFile == Spec => []WholeFile
<1>1. IInv => WholeFile
  BY DEF IInv
<1> QED
  BY <1>1, Uploading, PTL

\* The handler of every upload that began is stored or has been called, once.
THEOREM CallsHandlerOnce == Spec => []HandlerOnce
<1>1. IInv => HandlerOnce
  BY DEF IInv
<1> QED
  BY <1>1, Uploading, PTL

=============================================================================
