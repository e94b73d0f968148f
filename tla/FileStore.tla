------------------------------ MODULE FileStore ------------------------------
(***************************************************************************)
(* What a file system with a write-back cache promises to an application   *)
(* that may lose power at any moment: a read returns what was written; a   *)
(* flush that succeeds makes durable all that was written; and after a     *)
(* power cut every file is as it was at one moment since the last flush,   *)
(* the same moment for all of them.  What it cannot promise: a write that  *)
(* extends a file may damage it, if the device fails (see spoiled).        *)
(***************************************************************************)
EXTENDS Integers, Sequences

CONSTANTS
  Files,      \* the names of files
  Bytes,      \* the bytes an application writes
  Zero,       \* the byte that fills the gaps
  Absent,     \* the content of a file that does not exist
  NoRequest,
  Writes,     \* the positions and lengths of writes
  MaxSize     \* bound on the sizes that are enumerated

VARIABLES
  files,    \* what a read returns
  durable,  \* what a power cut leaves
  request,  \* the write in progress: [file, pos, bytes]
  flushed,  \* the last request was a flush, and succeeded
  spoiled   \* the files that a failing device has damaged since power-up

storeVars == <<files, durable, request, flushed, spoiled>>

\* The content s with bytes at position pos, counted from 0.
Overwrite(s, pos, bytes) ==
  [k \in 1..(IF pos + Len(bytes) > Len(s) THEN pos + Len(bytes) ELSE Len(s)) |->
     IF k > pos /\ k <= pos + Len(bytes) THEN bytes[k - pos]
     ELSE IF k <= Len(s) THEN s[k] ELSE Zero]

StoreInit ==
  /\ files = [f \in Files |-> Absent]
  /\ durable = files
  /\ request = NoRequest
  /\ flushed = FALSE /\ spoiled = {}

\* What was changed before may reach the medium at any moment, all of it.
MaybeSync == durable' \in {durable, files}

\* A flush, a close or an unmount that succeeds.
Flush ==
  /\ request = NoRequest
  /\ durable' = files /\ flushed' = TRUE
  /\ UNCHANGED <<files, request, spoiled>>

Create(f) ==
  /\ files[f] = Absent /\ request = NoRequest
  /\ MaybeSync
  /\ files' = [files EXCEPT ![f] = <<>>]
  /\ flushed' = FALSE
  /\ UNCHANGED <<request, spoiled>>

Request(f, pos, bytes) ==
  /\ files[f] # Absent /\ request = NoRequest
  /\ request' = [file |-> f, pos |-> pos, bytes |-> bytes]
  /\ flushed' = FALSE
  /\ UNCHANGED <<files, durable, spoiled>>

\* A write beyond the end fills the gap with zeros, part by part.
Extend(size) ==
  /\ request # NoRequest
  /\ LET f == request.file IN
     /\ size >= Len(files[f]) /\ size <= request.pos
     /\ MaybeSync
     /\ files' = [files EXCEPT ![f] = [k \in 1..size |-> IF k <= Len(@) THEN @[k] ELSE Zero]]
  /\ UNCHANGED <<request, flushed, spoiled>>

\* The device fails meanwhile, unnoticed: the file has its size, and any content.
Spoil(size) ==
  /\ request # NoRequest
  /\ LET f == request.file IN
     /\ f \notin spoiled /\ spoiled' = spoiled \cup {f}
     /\ size >= Len(files[f]) /\ size <= request.pos
     /\ MaybeSync
     /\ \E content \in [1..size -> Bytes \cup {Zero}] : files' = [files EXCEPT ![f] = content]
  /\ UNCHANGED <<request, flushed>>

\* Then the bytes are written, part by part and in order.
Write(n) ==
  /\ request # NoRequest
  /\ LET f == request.file IN
     /\ n \in 1..Len(request.bytes)
     /\ request.pos <= Len(files[f])
     /\ MaybeSync
     /\ files' = [files EXCEPT ![f] = Overwrite(@, request.pos, SubSeq(request.bytes, 1, n))]
     /\ request' = IF n = Len(request.bytes) THEN NoRequest
                   ELSE [request EXCEPT !.pos = @ + n,
                                        !.bytes = SubSeq(@, n + 1, Len(@))]
  /\ UNCHANGED <<flushed, spoiled>>

\* The write returns early: there is no space.
Finish ==
  /\ request # NoRequest /\ request' = NoRequest
  /\ UNCHANGED <<files, durable, flushed, spoiled>>

\* An error of the device is returned: as far as the application can tell, it
\* has what a power cut would leave.
Fail ==
  /\ MaybeSync
  /\ files' = durable' /\ request' = NoRequest
  /\ flushed' = FALSE
  /\ UNCHANGED spoiled

PowerCut ==
  /\ files' = durable /\ request' = NoRequest
  /\ flushed' = FALSE /\ spoiled' = {}
  /\ UNCHANGED durable

StoreNext ==
  \/ Flush \/ Finish \/ Fail \/ PowerCut
  \/ \E f \in Files : Create(f)
  \/ \E f \in Files, w \in Writes, b \in Bytes : Request(f, w[1], [k \in 1..w[2] |-> b])
  \/ \E size \in 0..MaxSize : Extend(size) \/ Spoil(size)
  \/ \E n \in 1..MaxSize : Write(n)

StoreSpec == StoreInit /\ [][StoreNext]_storeVars
=============================================================================
