----------------------------- MODULE ReadFile -----------------------------
(***************************************************************************)
(* read_file of main.c: a whole file, which need not be seekable, is read  *)
(* into a buffer that grows as the bytes come, up to a limit on both. Any  *)
(* call of the C library may fail, and a read may return less than it was  *)
(* asked for; the error indicator of a stream, once set, stays set.        *)
(***************************************************************************)
EXTENDS Integers

CONSTANTS Limits,       \* what a caller takes at most
          First,        \* the first buffer, 4096 bytes in the code
          Lengths       \* the lengths of a file

ASSUME SizesAssumption == Limits \subseteq Nat /\ First \in Nat \ {0}
ASSUME LengthsAssumption == Lengths \subseteq Nat

VARIABLES
    limit,      \* the caller's
    length,     \* of the file
    pos, error, \* the bytes taken from the stream and its ferror, 0 or 1
    stream,     \* "none", "open" or "closed", and "twice" if closed again
    buffer,     \* the allocation: "none", "held", "freed", and "twice"
    n, cap,     \* the bytes read and the size of the buffer
    fault,      \* 1 once some call of the library has failed
    pass,       \* passes of the loop, modulo 2: one that changes nothing
                \* else is still a step
    call, result \* the next call, and what the caller gets

file == <<limit, length, pos, error>>
read_vars == <<limit, length, pos, error, stream, buffer, n, cap,
               fault, pass, call, result>>

Smaller(a, b) == IF a < b THEN a ELSE b

ReadInit ==
    /\ limit \in Limits /\ length \in Lengths
    /\ pos = 0 /\ error = 0 /\ n = 0 /\ cap = Smaller(limit, First)
    /\ stream = "none" /\ buffer = "none" /\ fault = 0 /\ pass = 0
    /\ call = "open" /\ result = "none"

-----------------------------------------------------------------------------

Close == stream' = IF stream = "open" THEN "closed" ELSE "twice"
Free  == buffer' = IF buffer = "held" THEN "freed" ELSE "twice"
Return(r) == call' = "done" /\ result' = r

(* Every early return after the allocation: free, fclose, no data.         *)
GiveUp == Free /\ Close /\ Return("null")

Open ==
    /\ call = "open"
    /\ \/ stream' = "open" /\ call' = "malloc" /\ UNCHANGED <<fault, result>>
       \/ fault' = 1 /\ Return("null") /\ UNCHANGED stream
    /\ UNCHANGED <<file, buffer, n, cap, pass>>

Allocate ==
    /\ call = "malloc"
    /\ \/ /\ buffer' = "held" /\ call' = "read"
          /\ UNCHANGED <<stream, fault, result>>
       \/ fault' = 1 /\ Close /\ Return("null") /\ UNCHANGED buffer
    /\ UNCHANGED <<file, n, cap, pass>>

(* Mutant: the doubling without a look at the limit.                       *)
LargerUnbounded(c) == c * 2

(* Twice the buffer, or the limit when that would pass it.                 *)
Larger(c) == IF c > limit \div 2 THEN limit ELSE c * 2

(* A failed realloc leaves the old buffer, which is freed.                 *)
Grow ==
    /\ call = "read" /\ n = cap /\ cap # limit
    /\ pass' = 1 - pass
    /\ \/ /\ cap' = Larger(cap)
          /\ UNCHANGED <<stream, buffer, fault, call, result>>
       \/ fault' = 1 /\ GiveUp /\ UNCHANGED cap
    /\ UNCHANGED <<file, n>>

(* fgetc for the byte beyond a full buffer of the largest size.            *)
GetBeyond ==
    \/ pos < length /\ pos' = pos + 1 /\ UNCHANGED <<error, fault>>
    \/ pos = length /\ UNCHANGED <<pos, error, fault>>
    \/ error' = 1 /\ fault' = 1 /\ UNCHANGED pos

(* Mutant: a full buffer of the largest size taken for the whole file.     *)
EofAssumed == TRUE
GotEof == pos' = pos

(* The end of the file must come after exactly these bytes, and without an *)
(* error in this read or in an earlier one.                                *)
Probe ==
    /\ call = "read" /\ n = cap /\ cap = limit
    /\ GetBeyond
    /\ IF GotEof /\ error' = 0
       THEN call' = "fclose" /\ UNCHANGED <<stream, buffer, result>>
       ELSE GiveUp
    /\ UNCHANGED <<limit, length, n, cap, pass>>

(* fread: everything asked for, or less at the end of the file, or less    *)
(* because of an error.                                                    *)
Fread(got) ==
    /\ pos' = pos + got
    /\ \/ got = Smaller(cap - n, length - pos) /\ UNCHANGED <<error, fault>>
       \/ got < cap - n /\ error' = 1 /\ fault' = 1

(* Mutant: if (!got && feof(f)): a read that fails for good is tried for   *)
(* ever.                                                                   *)
NothingReadAtEof(got) == got = 0 /\ error' = 0
NothingRead(got) == got = 0

Fill ==
    /\ call = "read" /\ n # cap
    /\ pass' = 1 - pass
    /\ \E got \in 0 .. Smaller(cap - n, length - pos) :
           /\ Fread(got)
           /\ n' = n + got
           /\ \/ ~NothingRead(got) /\ UNCHANGED <<stream, buffer, call, result>>
              \/ NothingRead(got) /\ error' = 1 /\ GiveUp
              \/ /\ NothingRead(got) /\ error' = 0
                 /\ call' = "fclose" /\ UNCHANGED <<stream, buffer, result>>
    /\ UNCHANGED <<limit, length, cap>>

(* The stream is gone whether or not fclose reports a failure.             *)
CloseFile ==
    /\ call = "fclose"
    /\ Close
    /\ \/ Return("data") /\ UNCHANGED <<buffer, fault>>
       \/ fault' = 1 /\ Free /\ Return("null")
    /\ UNCHANGED <<file, n, cap, pass>>

ReadNext == Open \/ Allocate \/ Grow \/ Probe \/ Fill \/ CloseFile

(* The function runs until it returns.                                     *)
ReadSpec == ReadInit /\ [][ReadNext]_read_vars /\ WF_read_vars(ReadNext)

-----------------------------------------------------------------------------

(* read_file, types and sizes: the buffer never passes the limit and never *)
(* holds more than it has room for.                                        *)
ReadTypeOK ==
    /\ limit \in Limits /\ length \in Lengths /\ pos \in Nat
    /\ n \in 0 .. cap /\ cap \in 0 .. limit
    /\ error \in {0, 1} /\ fault \in {0, 1} /\ pass \in {0, 1}
    /\ stream \in {"none", "open", "closed"}
    /\ buffer \in {"none", "held", "freed"}
    /\ call \in {"open", "malloc", "read", "fclose", "done"}
    /\ result \in {"none", "data", "null"}

(* read_file gives data exactly when nothing failed and the file is within *)
(* the limit, and then it gives all of it: an error in the middle of the   *)
(* file, even one that a later read recovers from, and a byte too many are *)
(* never taken for the end. Either way the stream is closed once, and the  *)
(* buffer is held only by a caller that got it.                            *)
ReadsWhole ==
    call = "done" =>
        /\ result = "data" <=> fault = 0 /\ length <= limit
        /\ result = "data" => n = length /\ n <= cap
        /\ buffer = "held" <=> result = "data"
        /\ stream \in {"none", "closed"} /\ buffer # "twice"

(* read_file returns for a file of any length: a buffer at the limit ends  *)
(* the loop, and any other pass reads a byte, grows the buffer or leaves.  *)
ReadEnds == <>(call = "done")

=============================================================================
