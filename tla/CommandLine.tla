---------------------------- MODULE CommandLine ----------------------------
(***************************************************************************)
(* main of main.c: the options, the PPS, the compressed picture, the       *)
(* decoder, the output file. Files may coincide: a trace may be named as   *)
(* the PPS or as the output. Any call of the C library may fail. Reading a *)
(* file is what module ReadFile shows of it: all of a file that is not too *)
(* long, or nothing.                                                       *)
(*                                                                         *)
(* The content of a file is what the program can tell apart: a PPS of some *)
(* kind, the payload of a frame or of one slice, and what was written.     *)
(***************************************************************************)
EXTENDS Options, Integers

CONSTANTS Commands,     \* the arguments after the program's name
          Files         \* what the named files hold at the start

Pps     == {"rgb", "ycc", "bad", "odd", "huge"}
Payload == {"frame", "slice"}
Other   == {"absent", "old", "long"}
(* Written by the program: "empty", "partial", "picture", "trace", a trace *)
(* with a "gap", and a picture "mixed" with a trace.                       *)

ASSUME CommandsAssumption == Commands \subseteq Seq(STRING)

(* Any word of a command may be taken for the name of a file.              *)
ASSUME FilesAssumption ==
    \A f \in Files :
        /\ \A name \in DOMAIN f : f[name] \in Pps \cup Payload \cup Other
        /\ \A a \in Commands : \A i \in DOMAIN a : a[i] \in DOMAIN f

(* No option is spelled as a setting.                                      *)
ASSUME WordsAssumption ==
    \A word \in {"--slice", "--stats", "--reading", "--trace"} : FindReading(word) = {}

VARIABLES
    args, off,      \* argv without its first element
    before, files,  \* the files at the start and now
    single, opt,    \* --slice, and the readings
    streams,        \* every stream opened so far
    trace, output,  \* streams, 0 for NULL
    config, data,   \* what was read
    decoded,        \* the status of the decoder is DSC_OK
    misused,        \* a closed or a missing stream was closed
    failed,         \* a call whose result the program looks at has failed
    pc, exitcode

inputs  == <<args, before>>
command == <<args, before, off, single, opt>>
later   == <<output, config, data, decoded>>
io      == <<files, streams, trace, output, misused>>
vars == <<args, off, before, files, single, opt, streams, trace, output,
          config, data, decoded, misused, failed, pc, exitcode>>

Init ==
    /\ args \in Commands /\ off = 1
    /\ before \in Files /\ files = before
    /\ single = FALSE /\ opt = Default
    /\ streams = <<>> /\ trace = 0 /\ output = 0
    /\ config = "none" /\ data = "none"
    /\ decoded = FALSE /\ misused = FALSE /\ failed = FALSE
    /\ pc = "options" /\ exitcode = 1

-----------------------------------------------------------------------------

Arg     == args[off]
Operand(k) == args[off + k - 1]

Begins(word) == Len(word) >= 2 /\ SubSeq(word, 1, 2) = "--"

HasSuffix(name, suffix) ==
    /\ Len(name) >= Len(suffix)
    /\ SubSeq(name, Len(name) - Len(suffix) + 1, Len(name)) = suffix

Opened(name) == [name |-> name, open |-> TRUE, lost |-> FALSE]

(* fclose, whatever it returns, of streams that the program has.           *)
Fclose(s, ids) == [i \in DOMAIN s |-> [s[i] EXCEPT !.open = @ /\ i \notin ids]]
Misuse(ids)    == \E i \in ids : ~streams[i].open

Pointer(stream) == IF stream = 0 THEN {} ELSE {stream}

Exit(code) == pc' = "exited" /\ exitcode' = code

(* The usage text; an open trace is closed before it, but for an unknown   *)
(* reading.                                                                *)
Usage(ids) ==
    /\ streams' = Fclose(streams, ids)
    /\ misused' = (misused \/ Misuse(ids))
    /\ Exit(2)
    /\ UNCHANGED <<files, trace, failed>>

Option(words) == pc = "options" /\ off <= Len(args) /\ Arg \in words

NoOption == off <= Len(args) => ~Begins(Arg)

Slice ==
    /\ Option({"--slice"})
    /\ single' = TRUE /\ off' = off + 1
    /\ UNCHANGED <<inputs, opt, io, config, data, decoded, failed, pc,
                   exitcode>>

(* --stats only adds to what is printed.                                   *)
Stats ==
    /\ Option({"--stats"})
    /\ off' = off + 1
    /\ UNCHANGED <<inputs, single, opt, io, config, data, decoded, failed, pc,
                   exitcode>>

Reading ==
    /\ Option({"--reading"}) /\ off < Len(args)
    /\ \/ \E r \in FindReading(Operand(2)) :
              /\ opt' = SetReading(opt, r) /\ off' = off + 2
              /\ UNCHANGED <<files, streams, trace, misused, failed, pc,
                           exitcode>>
       \/ /\ FindReading(Operand(2)) = {}
          /\ Usage({}) /\ UNCHANGED <<opt, off>>
    /\ UNCHANGED <<inputs, single, later>>

(* A second --trace closes the file of the first.                          *)
Trace ==
    /\ Option({"--trace"}) /\ off < Len(args)
    /\ misused' = (misused \/ Misuse(Pointer(trace)))
    /\ LET left == Fclose(streams, Pointer(trace))
       IN  \/ /\ streams' = Append(left, Opened(Operand(2)))
              /\ trace' = Len(streams) + 1
              /\ files' = [files EXCEPT ![Operand(2)] = "empty"]
              /\ off' = off + 2
              /\ UNCHANGED <<failed, pc, exitcode>>
           \/ /\ streams' = left /\ trace' = 0
              /\ failed' = TRUE /\ Exit(1)
              /\ UNCHANGED <<files, off>>
    /\ UNCHANGED <<inputs, single, opt, later>>

(* Anything else that begins as an option, also one without its operand.   *)
BadOption ==
    /\ pc = "options" /\ ~NoOption
    /\ Arg \notin {"--slice", "--stats"}
    /\ Arg \in {"--reading", "--trace"} => off = Len(args)
    /\ Usage(Pointer(trace))
    /\ UNCHANGED <<command, later>>

(* Three operands; the header of the trace stays in the stream's buffer.   *)
Operands ==
    /\ pc = "options" /\ NoOption
    /\ IF Len(args) - off + 1 = 3
       THEN /\ pc' = "pps"
            /\ UNCHANGED <<files, streams, trace, misused, failed, exitcode>>
       ELSE Usage(Pointer(trace))
    /\ UNCHANGED <<command, later>>

-----------------------------------------------------------------------------

(* A call that fails ends in the common clean-up, as does a refusal.       *)
Fails   == failed' = TRUE /\ pc' = "done"
Refused == pc' = "done" /\ UNCHANGED failed
Goes(next) == pc' = next /\ UNCHANGED failed

(* read_file: within 128 bytes.                                            *)
ReadPps ==
    /\ pc = "pps"
    /\ config' = files[Operand(1)]
    /\ \/ config' \in Pps \cup {"empty"} /\ Goes("configure")
       \/ config' \notin Pps \cup {"empty"} /\ Refused
       \/ Fails
    /\ UNCHANGED <<command, io, data, decoded, exitcode>>

(* dsc_parse_pps, dsc_plane_size, the suffix of the output and the limit   *)
(* on the pixels.                                                          *)
Parses  == config \notin {"bad", "empty"}
Sized   == config # "odd"
Yuv     == HasSuffix(Operand(3), ".yuv")
IsRgb   == config \in {"rgb", "huge"}
InLimit == config # "huge"

Configure ==
    /\ pc = "configure"
    /\ IF Parses /\ Sized /\ Yuv # IsRgb /\ InLimit
       THEN Goes("input")
       ELSE Refused
    /\ UNCHANGED <<command, io, config, data, decoded, exitcode>>

(* read_file: up to 256 MiB, whatever the file is.                         *)
ReadInput ==
    /\ pc = "input"
    /\ data' = files[Operand(2)]
    /\ \/ data' \notin {"absent", "long"} /\ Goes("planes")
       \/ data' \in {"absent", "long"} /\ Refused
       \/ Fails
    /\ UNCHANGED <<command, io, config, decoded, exitcode>>

AllocatePlanes ==
    /\ pc = "planes"
    /\ Goes("decode") \/ Fails
    /\ UNCHANGED <<command, io, config, data, decoded, exitcode>>

(* The decoder takes the payload that the mode asks for, and may still     *)
(* refuse it. Rows of the trace may be lost on the way: nobody looks at    *)
(* what the writes return.                                                 *)
Fits == data = IF single THEN "slice" ELSE "frame"

Decode ==
    /\ pc = "decode"
    /\ \/ Fits /\ decoded' = TRUE /\ Goes("open")
       \/ Fails /\ UNCHANGED decoded
    /\ \/ UNCHANGED streams
       \/ trace # 0 /\ streams' = [streams EXCEPT ![trace].lost = TRUE]
    /\ UNCHANGED <<command, files, trace, output, misused, config, data,
                   exitcode>>

OpenOutput ==
    /\ pc = "open"
    /\ \/ /\ streams' = Append(streams, Opened(Operand(3)))
          /\ output' = Len(streams) + 1
          /\ files' = [files EXCEPT ![Operand(3)] = "empty"]
          /\ Goes("write")
       \/ Fails /\ UNCHANGED <<files, streams, output>>
    /\ UNCHANGED <<command, trace, misused, config, data, decoded, exitcode>>

(* write_yuv and write_ppm: every write is checked.                        *)
WriteOutput ==
    /\ pc = "write"
    /\ files' = [files EXCEPT ![Operand(3)] = "partial"]
    /\ Goes("close") \/ Fails
    /\ UNCHANGED <<command, streams, trace, misused, later, exitcode>>

(* The pointer is cleared whether or not fclose fails, so that the         *)
(* clean-up leaves the stream alone.                                       *)
AfterCloseKept == output    \* a mutant: fclose is left to the clean-up too
AfterClose == 0

CloseOutput ==
    /\ pc = "close"
    /\ misused' = (misused \/ Misuse(Pointer(output)))
    /\ streams' = Fclose(streams, Pointer(output))
    /\ \/ /\ files' = [files EXCEPT ![Operand(3)] = "picture"]
          /\ output' = 0 /\ exitcode' = 0 /\ Goes("done")
       \/ /\ output' = AfterClose /\ Fails
          /\ UNCHANGED <<files, exitcode>>
    /\ UNCHANGED <<command, trace, config, data, decoded>>

(* What the trace leaves in its file: its rows, or, if the output has the  *)
(* same name, possibly some of them over the picture.                      *)
Traced(content, whole) ==
    IF content \in {"partial", "picture"} THEN {content, "mixed"}
    ELSE IF whole THEN {"trace"} ELSE {"gap"}

LeaveTrace(whole) ==
    LET name == streams[trace].name
    IN  \E c \in Traced(files[name], whole) :
            files' = [files EXCEPT ![name] = c]

(* The exit status of a trace that could not be closed.                    *)
TraceIgnored == exitcode    \* a mutant
TraceFailed == 1

Done ==
    /\ pc = "done"
    /\ misused' = (misused \/ Misuse(Pointer(output) \cup Pointer(trace)))
    /\ streams' = Fclose(streams, Pointer(output) \cup Pointer(trace))
    /\ pc' = "exited"
    /\ \/ trace = 0 /\ UNCHANGED <<files, failed, exitcode>>
       \/ /\ trace # 0 /\ LeaveTrace(~streams[trace].lost)
          /\ UNCHANGED <<failed, exitcode>>
       \/ /\ trace # 0 /\ LeaveTrace(FALSE)
          /\ failed' = TRUE /\ exitcode' = TraceFailed
    /\ UNCHANGED <<command, trace, later>>

(* The process is gone.                                                    *)
Exited == pc = "exited" /\ UNCHANGED vars

Next ==
    \/ Slice \/ Stats \/ Reading \/ Trace \/ BadOption \/ Operands
    \/ ReadPps \/ Configure \/ ReadInput \/ AllocatePlanes \/ Decode
    \/ OpenOutput \/ WriteOutput \/ CloseOutput \/ Done \/ Exited

Spec == Init /\ [][Next]_vars

-----------------------------------------------------------------------------

Follow(word) == {args[i + 1] : i \in {j \in 1 .. off - 2 : args[j] = word}}

(* main, exit status: 0 is given exactly when the decoder accepted the     *)
(* picture and no call failed that the program looks at, the closing of    *)
(* the two files included, and then the output is the whole picture,       *)
(* unless the trace goes to the same file. Until the decoder has accepted  *)
(* it no file but the traces is touched: an output that exists survives.   *)
HonestExit ==
    /\ pc = "exited" =>
          /\ exitcode = 0 <=> decoded /\ ~failed
          /\ exitcode = 0 =>
                \/ files[Operand(3)] = "picture"
                \/ Operand(3) \in Follow("--trace")
    /\ ~decoded =>
          \A name \in DOMAIN files \ Follow("--trace") :
              files[name] = before[name]

(* main, streams: however the options, the traces and the failures follow  *)
(* each other, no stream is closed twice and none is left open, except the *)
(* trace before an unknown reading, which the end of the process closes.   *)
StreamsClosedOnce ==
    /\ ~misused
    /\ pc = "exited" =>
          \A i \in DOMAIN streams :
              streams[i].open =>
                  /\ i = trace /\ exitcode = 2
                  /\ off < Len(args) /\ Arg = "--reading"

(* main, options: what the decoder is called with is, for every question,  *)
(* the reading that the last --reading of it names, or the default.        *)
LastReadingWins ==
    pc = "decode" =>
        \A f \in Fields :
            LET named == {i \in 2 .. off - 1 :
                             /\ args[i - 1] = "--reading"
                             /\ \E r \in FindReading(args[i]) : r.name = f}
            IN  IF named = {} THEN opt[f] = Default[f]
                ELSE \E i \in named :
                        /\ \A j \in named : j <= i
                        /\ \E k \in DOMAIN Values(f) :
                               /\ args[i] = Spelling(f, k)
                               /\ opt[f] = Enumerators[f][k]

=============================================================================
