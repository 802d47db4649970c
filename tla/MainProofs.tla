----------------------------- MODULE MainProofs -----------------------------
(***************************************************************************)
(* main.c: the command line, for every set of commands and files, and      *)
(* read_file, for every limit, every size of the first buffer, every       *)
(* length and any pattern of failures.                                     *)
(*                                                                         *)
(* Of the command line the invariant says what each phase has: the exit    *)
(* status it would end with, the streams that are open (the trace's and    *)
(* the output's), the settings that the words so far have named. Of        *)
(* read_file it says that every byte taken from the stream is in the       *)
(* buffer while the file is read, and that the only failures so far are    *)
(* those that the error indicator still shows.                             *)
(***************************************************************************)
EXTENDS CommandLine, ReadFile, TLAPS

-----------------------------------------------------------------------------
(* The command line.                                                       *)

Streams == [name : STRING, open : BOOLEAN, lost : BOOLEAN]

CommandTypeOK ==
    /\ args \in Commands /\ off \in 1 .. Len(args) + 1
    /\ before \in Files /\ DOMAIN files = DOMAIN before
    /\ DOMAIN opt = Fields
    /\ streams \in Seq(Streams)
    /\ trace \in 0 .. Len(streams) /\ output \in 0 .. Len(streams)
    /\ decoded \in BOOLEAN /\ misused \in BOOLEAN /\ failed \in BOOLEAN
    /\ exitcode \in {0, 1, 2}
    /\ pc \in {"options", "pps", "configure", "input", "planes", "decode",
               "open", "write", "close", "done", "exited"}

(* The exit status is 1 until the output is closed.                        *)
StatusInv ==
    /\ pc \in {"options", "pps", "configure", "input", "planes", "decode"} =>
          ~decoded /\ ~failed /\ output = 0 /\ exitcode = 1
    /\ pc = "open" => decoded /\ ~failed /\ output = 0 /\ exitcode = 1
    /\ pc \in {"write", "close"} => decoded /\ ~failed /\ output # 0 /\ exitcode = 1
    /\ pc = "done" => /\ exitcode = 0 <=> decoded /\ ~failed
                      /\ exitcode = 0 => files[Operand(3)] = "picture"
    /\ pc \notin {"options", "exited"} => Len(args) = off + 2

(* The streams that are open are the ones that the program has.            *)
StreamsInv ==
    /\ ~misused
    /\ pc # "exited" =>
          /\ \A i \in 1 .. Len(streams) : streams[i].open <=> i \in {trace, output}
          /\ trace = output => trace = 0
          /\ trace # 0 => streams[trace].name \in Follow("--trace")

Named(f) == {i \in 2 .. off - 1 : /\ args[i - 1] = "--reading"
                                  /\ \E r \in FindReading(args[i]) : r.name = f}

OptionsInv ==
    \A f \in Fields :
        IF Named(f) = {} THEN opt[f] = Default[f]
        ELSE \E i \in Named(f) :
                /\ \A j \in Named(f) : j <= i
                /\ \E k \in DOMAIN Values(f) :
                       args[i] = Spelling(f, k) /\ opt[f] = Enumerators[f][k]

(* Until the decoder accepts, only the traces' files are touched.          *)
Untouched ==
    ~decoded => \A name \in DOMAIN files \ Follow("--trace") : files[name] = before[name]

CommandInv ==
    CommandTypeOK /\ StatusInv /\ StreamsInv /\ OptionsInv /\ HonestExit /\ StreamsClosedOnce

(* fclose changes nothing about a stream but whether it is open.           *)
LEMMA StreamFacts ==
    ASSUME NEW s \in Seq(Streams), NEW ids
    PROVE  /\ Fclose(s, ids) \in Seq(Streams)
           /\ Len(Fclose(s, ids)) = Len(s)
           /\ \A i \in 1 .. Len(s) : /\ Fclose(s, ids)[i].open <=> s[i].open /\ i \notin ids
                                     /\ Fclose(s, ids)[i].name = s[i].name
PROOF
  <1> DEFINE R == Fclose(s, ids)
  <1>1. Len(s) \in Nat /\ DOMAIN s = 1 .. Len(s)
    OBVIOUS
  <1>2. R = [i \in 1 .. Len(s) |-> [s[i] EXCEPT !.open = @ /\ i \notin ids]]
    BY <1>1 DEF Fclose
  <1>3. \A i \in 1 .. Len(s) :
          /\ s[i] \in Streams
          /\ R[i] = [s[i] EXCEPT !.open = @ /\ i \notin ids]
    BY <1>2
  <1>4. \A i \in 1 .. Len(s) :
          /\ R[i] \in Streams /\ R[i].name = s[i].name
          /\ R[i].open <=> s[i].open /\ i \notin ids
    BY <1>3 DEF Streams
  <1>5. R \in Seq(Streams)
    <2> HIDE DEF R
    <2>1. R = [i \in 1 .. Len(s) |-> R[i]]
      BY <1>2
    <2> QED
      BY <1>1, <1>4, <2>1
  <1>6. Len(R) = Len(s)
    <2>1. DOMAIN R = 1 .. Len(s)
      BY <1>2
    <2> HIDE DEF R
    <2> QED
      BY <1>1, <1>5, <2>1
  <1> QED
    BY <1>4, <1>5, <1>6 DEF R

(* No word names two settings.                                             *)
LEMMA OneSetting ==
    ASSUME NEW arg, NEW r \in FindReading(arg), NEW s \in FindReading(arg)
    PROVE  r = s
PROOF
  BY SpellingsDiffer DEF FindReading

(* What find_reading returns is a row of the table with that spelling.     *)
LEMMA ReadingFacts ==
    ASSUME NEW arg, NEW r \in FindReading(arg)
    PROVE  /\ r.name \in Fields /\ r.row \in DOMAIN Values(r.name)
           /\ arg = Spelling(r.name, r.row)
PROOF
  BY DEF FindReading

(* Every question has a default.                                           *)
LEMMA DefaultFields == DOMAIN Default = Fields
PROOF
  BY DEF Default, Fields, Enumerators

(* The words of a command are strings and names of files; the index of the *)
(* next word is within them or just after them.                            *)
LEMMA CommandTypes ==
    ASSUME CommandTypeOK
    PROVE  /\ args \in Seq(STRING) /\ Len(args) \in Nat /\ DOMAIN args = 1 .. Len(args)
           /\ off \in Nat /\ off >= 1 /\ off <= Len(args) + 1
           /\ \A i \in 1 .. Len(args) : args[i] \in DOMAIN files /\ args[i] \in STRING
           /\ streams \in Seq(Streams) /\ Len(streams) \in Nat
           /\ DOMAIN streams = 1 .. Len(streams)
PROOF
  <1>1. args \in Commands /\ before \in Files /\ DOMAIN files = DOMAIN before
    BY DEF CommandTypeOK
  <1>2. args \in Seq(STRING) /\ Len(args) \in Nat /\ DOMAIN args = 1 .. Len(args)
    BY <1>1, CommandsAssumption
  <1>3. \A i \in 1 .. Len(args) : args[i] \in DOMAIN files /\ args[i] \in STRING
    BY <1>1, <1>2, FilesAssumption
  <1>4. off \in Nat /\ off >= 1 /\ off <= Len(args) + 1
    BY <1>2 DEF CommandTypeOK
  <1>5. streams \in Seq(Streams) /\ Len(streams) \in Nat /\ DOMAIN streams = 1 .. Len(streams)
    BY DEF CommandTypeOK
  <1> QED
    BY <1>2, <1>3, <1>4, <1>5

(* The words before a are among the words before b.                        *)
LEMMA MoreWords ==
    ASSUME NEW a \in Nat, NEW b \in Nat, b >= a
    PROVE  /\ \A j \in 1 .. a - 2 : j \in 1 .. b - 2
           /\ \A j \in 2 .. a - 1 : j \in 2 .. b - 1
           /\ \A j \in 2 .. b - 1 : j \in 2 .. a - 1 \/ (j \in a .. b - 1 /\ j >= 2)
PROOF
  OBVIOUS

(* The files named as traces stay so when more words are read.             *)
LEMMA FollowGrows ==
    ASSUME CommandTypeOK, CommandTypeOK', args' = args, off' >= off, NEW word
    PROVE  Follow(word) \subseteq Follow(word)'
PROOF
  <1>1. off \in Nat /\ off' \in Nat /\ off' >= off
    <2>1. CommandTypeOK' => off' \in Nat
      BY DEF CommandTypeOK
    <2> QED
      BY <2>1, CommandTypes
  <1>2. \A j \in 1 .. off - 2 : j \in 1 .. off' - 2
    BY <1>1, MoreWords
  <1> QED
    BY <1>2 DEF Follow

(* The settings named so far: words that are not settings add none.        *)
LEMMA SettingsKept ==
    ASSUME CommandTypeOK, args' = args, opt' = opt, off' \in Nat, off' >= off,
           \A i \in off .. off' - 1 : i >= 2 /\ args[i - 1] = "--reading" => FindReading(args[i]) = {},
           OptionsInv
    PROVE  OptionsInv'
PROOF
  <1>1. off \in Nat /\ off >= 1
    BY CommandTypes
  <1>2. ASSUME NEW f \in Fields
        PROVE  Named(f)' = Named(f)
    <2>1. /\ \A i \in 2 .. off - 1 : i \in 2 .. off' - 1
          /\ \A i \in 2 .. off' - 1 : i \in 2 .. off - 1 \/ (i \in off .. off' - 1 /\ i >= 2)
      BY <1>1, MoreWords
    <2> QED
      BY <2>1 DEF Named
  <1> HIDE DEF Named
  <1> QED
    BY <1>2 DEF OptionsInv

(* The command line starts in the invariant.                               *)
LEMMA InitCommand == Init => CommandInv
PROOF
  <1> SUFFICES ASSUME Init PROVE CommandInv
    OBVIOUS
  <1>1. args \in Seq(STRING) /\ Len(args) \in Nat
    BY CommandsAssumption DEF Init
  <1>2. CommandTypeOK
    <2>1. off \in 1 .. Len(args) + 1
      BY <1>1 DEF Init
    <2>2. decoded \in BOOLEAN /\ misused \in BOOLEAN /\ failed \in BOOLEAN
      BY DEF Init
    <2> QED
      BY <2>1, <2>2, DefaultFields DEF Init, CommandTypeOK
  <1>3. StatusInv
    BY DEF Init, StatusInv
  <1>4. StreamsInv
    BY DEF Init, StreamsInv
  <1>5. OptionsInv
    <2>1. \A f \in Fields : Named(f) = {}
      BY DEF Init, Named
    <2>2. \A f \in Fields : opt[f] = Default[f]
      BY DEF Init
    <2> HIDE DEF Named
    <2> QED
      BY <2>1, <2>2 DEF OptionsInv
  <1>6. HonestExit
    BY DEF Init, HonestExit
  <1>7. StreamsClosedOnce
    BY DEF Init, StreamsClosedOnce
  <1> QED
    BY <1>2, <1>3, <1>4, <1>5, <1>6, <1>7 DEF CommandInv

(* An action that leaves the files alone leaves them as they were at the   *)
(* start, but for the traces.                                              *)
LEMMA FilesKept ==
    ASSUME CommandTypeOK, CommandTypeOK', HonestExit, args' = args, off' >= off,
           before' = before, decoded' = decoded, files' = files
    PROVE  Untouched'
PROOF
  <1>1. Follow("--trace") \subseteq Follow("--trace")'
    BY FollowGrows
  <1>2. Untouched
    BY DEF Untouched, HonestExit
  <1> QED
    BY <1>1, <1>2 DEF Untouched

(* So do the settings after an action that reads no word.                  *)
LEMMA OptionsKept ==
    ASSUME CommandTypeOK, OptionsInv, UNCHANGED <<args, off, opt>>
    PROVE  OptionsInv'
PROOF
  <1>1. off' \in Nat /\ off' >= off /\ \A i \in off .. off' - 1 : FALSE
    BY CommandTypes
  <1> QED
    BY <1>1, SettingsKept

(* The streams before the program ends: the pointers are to open ones, so  *)
(* that closing them is no misuse.                                         *)
LEMMA OpenStreams ==
    ASSUME CommandInv, pc # "exited"
    PROVE  /\ ~misused /\ ~Misuse(Pointer(trace)) /\ ~Misuse(Pointer(output))
           /\ ~Misuse(Pointer(output) \cup Pointer(trace))
           /\ \A i \in 1 .. Len(streams) : streams[i].open <=> i \in {trace, output}
           /\ trace = output => trace = 0
           /\ trace # 0 => /\ trace \in 1 .. Len(streams)
                           /\ streams[trace].name \in Follow("--trace")
           /\ output # 0 => output \in 1 .. Len(streams)
           /\ trace \in 0 .. Len(streams) /\ output \in 0 .. Len(streams)
PROOF
  <1>1. /\ trace \in 0 .. Len(streams) /\ output \in 0 .. Len(streams)
        /\ Len(streams) \in Nat
    BY CommandTypes DEF CommandInv, CommandTypeOK
  <1>2. /\ trace # 0 => trace \in 1 .. Len(streams)
        /\ output # 0 => output \in 1 .. Len(streams)
    BY <1>1
  <1>3. /\ ~misused
        /\ \A i \in 1 .. Len(streams) : streams[i].open <=> i \in {trace, output}
        /\ trace = output => trace = 0
        /\ trace # 0 => streams[trace].name \in Follow("--trace")
    BY DEF CommandInv, StreamsInv
  <1>4. /\ trace # 0 => streams[trace].open
        /\ output # 0 => streams[output].open
    BY <1>2, <1>3
  <1>5. /\ ~Misuse(Pointer(trace)) /\ ~Misuse(Pointer(output))
        /\ ~Misuse(Pointer(output) \cup Pointer(trace))
    BY <1>4 DEF Misuse, Pointer
  <1> QED
    BY <1>1, <1>2, <1>3, <1>5

(* The usage text, with or without closing the trace.                      *)
LEMMA UsageKeeps ==
    ASSUME CommandInv, pc = "options", NEW ids,
           ids = Pointer(trace) \/ (ids = {} /\ off < Len(args) /\ Arg = "--reading"),
           Usage(ids), UNCHANGED <<command, later>>
    PROVE  CommandInv'
PROOF
  <1>1. CommandTypeOK /\ StatusInv /\ OptionsInv /\ HonestExit
    BY DEF CommandInv
  <1>2. ~decoded /\ ~failed /\ output = 0 /\ exitcode = 1
    BY <1>1 DEF StatusInv
  <1>3. /\ streams' = Fclose(streams, ids) /\ misused' = (misused \/ Misuse(ids))
        /\ pc' = "exited" /\ exitcode' = 2
        /\ UNCHANGED <<files, trace, failed, args, before, off, single, opt, output, decoded>>
    BY DEF Usage, Exit, command, later
  <1>4. /\ ~misused /\ ~Misuse(Pointer(trace))
        /\ \A i \in 1 .. Len(streams) : streams[i].open <=> i \in {trace, output}
        /\ trace \in 0 .. Len(streams) /\ output \in 0 .. Len(streams)
    BY OpenStreams
  <1>5. /\ streams' \in Seq(Streams) /\ Len(streams') = Len(streams)
        /\ \A i \in 1 .. Len(streams) : streams'[i].open <=> streams[i].open /\ i \notin ids
        /\ Len(streams) \in Nat
    BY <1>1, <1>3, CommandTypes, StreamFacts
  <1>6. misused' = FALSE
    <2>1. ~Misuse(ids)
      BY <1>4 DEF Misuse
    <2> QED
      BY <1>3, <1>4, <2>1
  <1>7. CommandTypeOK'
    BY <1>1, <1>3, <1>4, <1>5, <1>6 DEF CommandTypeOK
  <1>8. StatusInv' /\ StreamsInv'
    BY <1>3, <1>6 DEF StatusInv, StreamsInv
  <1>9. OptionsInv'
    BY <1>1, <1>3, OptionsKept
  <1>10. HonestExit'
    <2>0. off' >= off
      BY <1>1, <1>3, CommandTypes
    <2>1. Untouched'
      BY <1>1, <1>3, <1>7, <2>0, FilesKept
    <2> QED
      BY <1>2, <1>3, <2>1 DEF HonestExit, Untouched
  <1>11. StreamsClosedOnce'
    <2> SUFFICES ASSUME NEW i \in DOMAIN streams', streams'[i].open
                 PROVE  i = trace' /\ exitcode' = 2 /\ off' < Len(args') /\ Arg' = "--reading"
      BY <1>6 DEF StreamsClosedOnce
    <2>1. i \in 1 .. Len(streams)
      BY <1>5
    <2>2. i \in {trace, output} /\ i \notin ids
      BY <1>4, <1>5, <2>1
    <2>3. i = trace /\ trace # 0
      BY <1>2, <1>5, <2>1, <2>2
    <2>4. ids # Pointer(trace)
      BY <2>2, <2>3 DEF Pointer
    <2> QED
      BY <1>3, <2>3, <2>4 DEF Arg
  <1> QED
    BY <1>7, <1>8, <1>9, <1>10, <1>11 DEF CommandInv

(* An option that opens nothing: --slice, --stats and a known --reading.   *)
LEMMA OptionKeeps ==
    ASSUME CommandInv, pc = "options", off' \in off .. Len(args) + 1, OptionsInv',
           DOMAIN opt' = Fields,
           UNCHANGED <<inputs, files, streams, trace, output, misused, decoded, failed, pc, exitcode>>
    PROVE  CommandInv'
PROOF
  <1>1. CommandTypeOK /\ StatusInv /\ StreamsInv /\ HonestExit /\ StreamsClosedOnce
    BY DEF CommandInv
  <1>2. /\ UNCHANGED <<args, before, files, streams, trace, output, misused, decoded>>
        /\ UNCHANGED <<failed, pc, exitcode>>
    BY DEF inputs
  <1>3. off' \in Nat /\ off' >= off /\ off' \in 1 .. Len(args) + 1
    BY <1>1, CommandTypes
  <1>4. CommandTypeOK'
    BY <1>1, <1>2, <1>3 DEF CommandTypeOK
  <1>5. StatusInv'
    BY <1>1, <1>2 DEF StatusInv
  <1>6. StreamsInv'
    <2>1. Follow("--trace") \subseteq Follow("--trace")'
      BY <1>1, <1>2, <1>3, <1>4, FollowGrows
    <2> QED
      BY <1>1, <1>2, <2>1 DEF StreamsInv
  <1>7. HonestExit'
    <2>1. Untouched'
      BY <1>1, <1>2, <1>3, <1>4, FilesKept
    <2>2. pc' # "exited"
      BY <1>2
    <2> QED
      BY <2>1, <2>2 DEF HonestExit, Untouched
  <1>8. StreamsClosedOnce'
    BY <1>1, <1>2 DEF StreamsInv, StreamsClosedOnce
  <1> QED
    BY <1>4, <1>5, <1>6, <1>7, <1>8 DEF CommandInv

(* The word at off is an option, which is no setting.                      *)
LEMMA OptionWords ==
    ASSUME CommandTypeOK, NEW word \in {"--slice", "--stats", "--reading", "--trace"},
           Option({word})
    PROVE  /\ pc = "options" /\ off \in 1 .. Len(args) /\ args[off] = word
           /\ FindReading(args[off]) = {}
PROOF
  <1>1. off \in Nat /\ off >= 1 /\ Len(args) \in Nat
    BY CommandTypes
  <1>2. pc = "options" /\ off <= Len(args) /\ args[off] = word
    BY DEF Option, Arg
  <1> QED
    BY <1>1, <1>2, WordsAssumption

(* The index after one word or two.                                        *)
LEMMA NextWord ==
    ASSUME NEW a \in Nat
    PROVE  /\ a + 1 \in Nat /\ a + 1 >= a /\ \A i \in a .. a + 1 - 1 : i = a
           /\ a + 2 \in Nat /\ a + 2 >= a /\ \A i \in a .. a + 2 - 1 : i = a \/ i = a + 1
           /\ \A b \in Nat : a <= b => a + 1 \in a .. b + 1
           /\ \A b \in Nat : a < b => a + 2 \in a .. b + 1
           /\ a + 1 - 1 = a /\ a + 2 - 1 = a + 1
           /\ a >= 1 => a + 1 \in 2 .. a + 1
PROOF
  OBVIOUS

(* --slice and --stats.                                                    *)
LEMMA SliceKeeps == CommandInv /\ (Slice \/ Stats) => CommandInv'
PROOF
  <1> SUFFICES ASSUME CommandInv, Slice \/ Stats PROVE CommandInv'
    OBVIOUS
  <1>1. CommandTypeOK /\ OptionsInv
    BY DEF CommandInv
  <1>2. /\ off' = off + 1 /\ opt' = opt /\ args' = args /\ pc = "options"
        /\ UNCHANGED <<inputs, files, streams, trace, output, misused, decoded, failed, pc, exitcode>>
        /\ off \in 1 .. Len(args) /\ FindReading(args[off]) = {}
    BY <1>1, OptionWords DEF Slice, Stats, inputs, io, command, later
  <1>3. off \in Nat /\ Len(args) \in Nat /\ off <= Len(args)
    BY <1>1, <1>2, CommandTypes
  <1>4. off' \in Nat /\ off' >= off /\ off' \in off .. Len(args) + 1
    BY <1>2, <1>3, NextWord
  <1>5. \A i \in off .. off' - 1 : FindReading(args[i]) = {}
    BY <1>2, <1>3, NextWord
  <1>6. OptionsInv'
    BY <1>1, <1>2, <1>4, <1>5, SettingsKept
  <1>7. DOMAIN opt' = Fields
    BY <1>1, <1>2 DEF CommandTypeOK
  <1> QED
    BY <1>2, <1>4, <1>6, <1>7, OptionKeeps

(* --reading: the setting it names becomes the last one of its question,   *)
(* and no other question has it.                                           *)
LEMMA ReadingKeeps == CommandInv /\ Reading => CommandInv'
PROOF
  <1> SUFFICES ASSUME CommandInv, Reading PROVE CommandInv'
    OBVIOUS
  <1>1. CommandTypeOK /\ OptionsInv
    BY DEF CommandInv
  <1>2. /\ pc = "options" /\ off \in 1 .. Len(args) /\ args[off] = "--reading" /\ off < Len(args)
        /\ FindReading(args[off]) = {} /\ UNCHANGED <<inputs, single, later>>
    BY <1>1, OptionWords DEF Reading
  <1>3. off \in Nat /\ off >= 1 /\ Len(args) \in Nat /\ Operand(2) = args[off + 1]
    BY <1>1, CommandTypes DEF Operand
  <1>4. ASSUME NEW r \in FindReading(Operand(2)), opt' = SetReading(opt, r), off' = off + 2,
               UNCHANGED <<files, streams, trace, misused, failed, pc, exitcode>>
        PROVE  CommandInv'
    <2>1. UNCHANGED <<inputs, files, streams, trace, output, misused, decoded, failed, pc, exitcode>>
      BY <1>2, <1>4 DEF later
    <2>2. args' = args
      BY <1>2 DEF inputs
    <2>3. off' \in Nat /\ off' >= off /\ off' \in off .. Len(args) + 1 /\ off' - 1 = off + 1
      BY <1>2, <1>3, <1>4, NextWord
    <2>4. /\ r.name \in Fields /\ r.row \in DOMAIN Values(r.name)
          /\ args[off + 1] = Spelling(r.name, r.row)
      BY <1>3, ReadingFacts
    <2>5. /\ DOMAIN opt' = Fields
          /\ \A f \in Fields : opt'[f] = IF f = r.name THEN Enumerators[r.name][r.row] ELSE opt[f]
      BY <1>1, <1>4, <2>4 DEF CommandTypeOK, SetReading
    <2>6. ASSUME NEW f \in Fields
          PROVE  Named(f)' = IF f = r.name THEN Named(f) \cup {off + 1} ELSE Named(f)
      <3>1. \A s \in FindReading(args[off + 1]) : s = r
        BY <1>3, OneSetting
      <3>2. /\ \A i \in 2 .. off - 1 : i \in 2 .. off' - 1
            /\ \A i \in 2 .. off' - 1 : i \in 2 .. off - 1 \/ (i \in off .. off' - 1 /\ i >= 2)
        BY <1>3, <2>3, MoreWords
      <3>3. \A i \in off .. off' - 1 : i = off \/ i = off + 1
        BY <1>3, <1>4, NextWord
      <3>4. off + 1 \in 2 .. off' - 1 /\ off + 1 - 1 = off
        <4>1. off' - 1 = off + 1 /\ off >= 1
          BY <1>3, <2>3
        <4> QED
          BY <1>3, <4>1, NextWord
      <3>5. Named(f)' = {i \in 2 .. off' - 1 : /\ args[i - 1] = "--reading"
                                              /\ \E s \in FindReading(args[i]) : s.name = f}
        BY <2>2 DEF Named
      <3>6. off + 1 \in Named(f)' <=> f = r.name
        BY <1>2, <1>3, <3>1, <3>4, <3>5
      <3>7. \A i : i \in Named(f) => i \in Named(f)'
        BY <3>2, <3>5 DEF Named
      <3>8. \A i : i \in Named(f)' => i \in Named(f) \/ i = off + 1
        BY <1>2, <3>2, <3>3, <3>5 DEF Named
      <3>9. off + 1 \notin Named(f)
        BY <1>3 DEF Named
      <3> HIDE DEF Named
      <3> QED
        BY <3>6, <3>7, <3>8, <3>9
    <2>7. OptionsInv'
      <3> SUFFICES ASSUME NEW f \in Fields
                   PROVE  IF Named(f)' = {} THEN opt'[f] = Default[f]
                          ELSE \E i \in Named(f)' :
                                  /\ \A j \in Named(f)' : j <= i
                                  /\ \E k \in DOMAIN Values(f) :
                                         args'[i] = Spelling(f, k) /\ opt'[f] = Enumerators[f][k]
        BY DEF OptionsInv
      <3>1. CASE f # r.name
        BY <1>1, <2>2, <2>5, <2>6, <3>1 DEF OptionsInv
      <3>2. CASE f = r.name
        <4>1. \A j \in Named(f) : j <= off + 1
          BY <1>3 DEF Named
        <4>2. off + 1 <= off + 1
          BY <1>3
        <4> HIDE DEF Named
        <4> QED
          BY <2>2, <2>4, <2>5, <2>6, <3>2, <4>1, <4>2
      <3> QED
        BY <3>1, <3>2
    <2> QED
      BY <1>2, <2>1, <2>3, <2>5, <2>7, OptionKeeps
  <1>5. CASE Usage({}) /\ UNCHANGED <<opt, off>>
    BY <1>2, <1>5, UsageKeeps DEF Arg, inputs, command
  <1> QED
    BY <1>4, <1>5 DEF Reading

(* A new stream comes after the others and is open.                        *)
LEMMA OpenedStream ==
    ASSUME NEW s \in Seq(Streams), NEW name \in STRING,
           NEW more, more = Append(s, Opened(name))
    PROVE  /\ more \in Seq(Streams) /\ Len(more) = Len(s) + 1
           /\ \A i \in 1 .. Len(s) : more[i] = s[i]
           /\ more[Len(s) + 1].open /\ more[Len(s) + 1].name = name
PROOF
  <1> DEFINE o == Opened(name)
  <1>1. o \in Streams /\ o.open /\ o.name = name
    BY DEF Opened, Streams
  <1> HIDE DEF o
  <1>2. Len(s) \in Nat
    OBVIOUS
  <1>3. /\ Append(s, o) \in Seq(Streams) /\ Len(Append(s, o)) = Len(s) + 1
        /\ \A i \in 1 .. Len(s) : Append(s, o)[i] = s[i]
        /\ Append(s, o)[Len(s) + 1] = o
    BY <1>1, <1>2
  <1>4. more = Append(s, o)
    BY DEF o
  <1> QED
    BY <1>1, <1>3, <1>4

(* The numbers up to k + 1.                                                *)
LEMMA OneMore ==
    ASSUME NEW k \in Nat
    PROVE  /\ k + 1 \in 1 .. k + 1
           /\ \A i \in 1 .. k + 1 : i \in 1 .. k \/ i = k + 1
           /\ \A i \in 0 .. k : i \in 0 .. k + 1 /\ i # k + 1
PROOF
  OBVIOUS

(* --trace: the stream before it is closed, and no other is open.          *)
LEMMA TraceKeeps == CommandInv /\ Trace => CommandInv'
PROOF
  <1> SUFFICES ASSUME CommandInv, Trace PROVE CommandInv'
    OBVIOUS
  <1>1. CommandTypeOK /\ OptionsInv /\ StatusInv /\ HonestExit
    BY DEF CommandInv
  <1>2. /\ pc = "options" /\ off \in 1 .. Len(args) /\ args[off] = "--trace" /\ off < Len(args)
        /\ FindReading(args[off]) = {}
        /\ UNCHANGED <<args, before, single, opt, output, config, data, decoded>>
        /\ misused' = (misused \/ Misuse(Pointer(trace)))
    BY <1>1, OptionWords DEF Trace, inputs, later
  <1>3. /\ off \in Nat /\ off >= 1 /\ Len(args) \in Nat /\ Operand(2) = args[off + 1]
        /\ off + 1 \in 1 .. Len(args)
        /\ args[off + 1] \in STRING /\ args[off + 1] \in DOMAIN files
    <2>1. off \in Nat /\ off >= 1 /\ Len(args) \in Nat /\ Operand(2) = args[off + 1]
      BY <1>1, CommandTypes DEF Operand
    <2>2. off + 1 \in 1 .. Len(args)
      BY <1>2, <2>1
    <2> QED
      BY <1>1, <2>1, <2>2, CommandTypes
  <1>4. ~decoded /\ ~failed /\ output = 0 /\ exitcode = 1
    BY <1>1, <1>2 DEF StatusInv
  <1>5. /\ ~misused /\ ~Misuse(Pointer(trace))
        /\ \A i \in 1 .. Len(streams) : streams[i].open <=> i \in {trace, output}
        /\ trace \in 0 .. Len(streams)
    BY <1>2, OpenStreams
  <1>6. misused' = FALSE
    BY <1>2, <1>5
  <1> DEFINE left == Fclose(streams, Pointer(trace))
  <1>7. /\ left \in Seq(Streams) /\ Len(left) = Len(streams) /\ Len(streams) \in Nat
        /\ \A i \in 1 .. Len(streams) :
             left[i].open <=> streams[i].open /\ i \notin Pointer(trace)
    BY <1>1, CommandTypes, StreamFacts
  <1> HIDE DEF left
  <1>8. \A i \in 1 .. Len(streams) : ~left[i].open
    <2> SUFFICES ASSUME NEW i \in 1 .. Len(streams), left[i].open PROVE FALSE
      OBVIOUS
    <2>1. i # 0 /\ i \in {trace, output} /\ i \notin Pointer(trace)
      BY <1>5, <1>7
    <2> QED
      BY <1>4, <2>1 DEF Pointer
  <1>9. ASSUME streams' = Append(left, Opened(Operand(2))), trace' = Len(streams) + 1,
               files' = [files EXCEPT ![Operand(2)] = "empty"], off' = off + 2,
               UNCHANGED <<failed, pc, exitcode>>
        PROVE  CommandInv'
    <2> DEFINE more == Append(left, Opened(args[off + 1]))
    <2>1. /\ more \in Seq(Streams) /\ Len(more) = Len(streams) + 1
          /\ \A i \in 1 .. Len(streams) : more[i] = left[i]
          /\ more[Len(streams) + 1].open
          /\ more[Len(streams) + 1].name = args[off + 1]
          /\ Len(streams) + 1 \in 1 .. Len(streams) + 1
          /\ \A i \in 1 .. Len(streams) + 1 : i \in 1 .. Len(streams) \/ i = Len(streams) + 1
          /\ \A i \in 0 .. Len(streams) : i \in 0 .. Len(streams) + 1 /\ i # Len(streams) + 1
      <3>1. more = Append(left, Opened(args[off + 1]))
        OBVIOUS
      <3> HIDE DEF more
      <3>2. /\ more \in Seq(Streams) /\ Len(more) = Len(left) + 1
            /\ \A i \in 1 .. Len(left) : more[i] = left[i]
            /\ more[Len(left) + 1].open /\ more[Len(left) + 1].name = args[off + 1]
        <4> DEFINE word == args[off + 1]
        <4>1. word \in STRING /\ left \in Seq(Streams) /\ more = Append(left, Opened(word))
          BY <1>3, <1>7, <3>1
        <4> HIDE DEF word
        <4>2. /\ more \in Seq(Streams) /\ Len(more) = Len(left) + 1
              /\ \A i \in 1 .. Len(left) : more[i] = left[i]
              /\ more[Len(left) + 1].open /\ more[Len(left) + 1].name = word
          BY <4>1, OpenedStream
        <4> QED
          BY <4>2 DEF word
      <3> QED
        BY <1>7, <3>2, OneMore
    <2>2. streams' = more
      BY <1>3, <1>9
    <2> HIDE DEF more
    <2>3. off' \in Nat /\ off' >= off /\ off' \in 1 .. Len(args) + 1
      BY <1>2, <1>3, <1>9
    <2>4. DOMAIN files' = DOMAIN files
      BY <1>9
    <2>5. /\ 0 \in 0 .. Len(streams') /\ trace' \in 0 .. Len(streams')
          /\ trace' # 0 /\ trace' \in 1 .. Len(streams')
      BY <1>7, <1>9, <2>1, <2>2
    <2>6. CommandTypeOK'
      BY <1>1, <1>2, <1>4, <1>6, <1>9, <2>1, <2>2, <2>3, <2>4, <2>5 DEF CommandTypeOK
    <2>7. StatusInv'
      BY <1>2, <1>4, <1>9 DEF StatusInv
    <2>8. args[off + 1] \in Follow("--trace")'
      <3>1. off \in 1 .. off' - 2
        BY <1>3, <1>9
      <3> QED
        BY <1>2, <3>1 DEF Follow
    <2>9. StreamsInv'
      <3>1. ASSUME NEW i \in 1 .. Len(streams')
            PROVE  streams'[i].open <=> i \in {trace', output'}
        <4>1. CASE i \in 1 .. Len(streams)
          <5>1. ~streams'[i].open
            BY <1>8, <2>1, <2>2, <4>1
          <5>2. i # trace' /\ i # output'
            BY <1>2, <1>4, <1>7, <1>9, <4>1
          <5> QED
            BY <5>1, <5>2
        <4>2. CASE i = Len(streams) + 1
          BY <1>9, <2>1, <2>2, <4>2
        <4> QED
          BY <2>1, <2>2, <4>1, <4>2
      <3>2. streams'[trace'].name \in Follow("--trace")'
        BY <1>9, <2>1, <2>2, <2>8
      <3>3. trace' # output'
        BY <1>2, <1>4, <2>5
      <3> QED
        BY <1>6, <3>1, <3>2, <3>3 DEF StreamsInv
    <2>10. OptionsInv'
      <3>1. \A i \in off .. off' - 1 : i = off \/ i = off + 1
        BY <1>3, <1>9, NextWord
      <3>2. \A i \in off .. off' - 1 : i >= 2 /\ args[i - 1] = "--reading" => FindReading(args[i]) = {}
        <4>1. off + 1 - 1 = off /\ args[off] # "--reading"
          BY <1>2, <1>3
        <4> QED
          BY <1>2, <3>1, <4>1
      <3> QED
        BY <1>1, <1>2, <2>3, <3>2, SettingsKept
    <2>11. HonestExit'
      <3>1. Follow("--trace") \subseteq Follow("--trace")'
        BY <1>1, <1>2, <2>3, <2>6, FollowGrows
      <3>2. \A name \in DOMAIN files \ Follow("--trace") : files[name] = before[name]
        BY <1>1, <1>4 DEF HonestExit
      <3>3. \A name \in DOMAIN files' \ Follow("--trace")' : files'[name] = before'[name]
        BY <1>2, <1>3, <1>9, <2>4, <2>8, <3>1, <3>2
      <3>4. pc' # "exited"
        BY <1>2, <1>9
      <3> QED
        BY <3>3, <3>4 DEF HonestExit
    <2>12. StreamsClosedOnce'
      BY <1>2, <1>6, <1>9 DEF StreamsClosedOnce
    <2> QED
      BY <2>6, <2>7, <2>9, <2>10, <2>11, <2>12 DEF CommandInv
  <1>10. ASSUME streams' = left, trace' = 0, failed' = TRUE, Exit(1), UNCHANGED <<files, off>>
         PROVE  CommandInv'
    <2>1. pc' = "exited" /\ exitcode' = 1
      BY <1>10 DEF Exit
    <2>2. CommandTypeOK'
      BY <1>1, <1>2, <1>4, <1>6, <1>7, <1>10, <2>1 DEF CommandTypeOK
    <2>3. StatusInv' /\ StreamsInv'
      BY <1>6, <2>1 DEF StatusInv, StreamsInv
    <2>4. OptionsInv'
      BY <1>1, <1>2, <1>10, OptionsKept
    <2>5. HonestExit'
      <3>1. off' >= off
        BY <1>3, <1>10
      <3>2. Untouched'
        BY <1>1, <1>2, <1>10, <2>2, <3>1, FilesKept
      <3> QED
        BY <1>2, <1>4, <2>1, <3>2 DEF HonestExit, Untouched
    <2>6. StreamsClosedOnce'
      <3>1. DOMAIN streams' = 1 .. Len(streams)
        BY <1>7, <1>10
      <3> QED
        BY <1>6, <1>8, <1>10, <3>1 DEF StreamsClosedOnce
    <2> QED
      BY <2>2, <2>3, <2>4, <2>5, <2>6 DEF CommandInv
  <1> QED
    BY <1>9, <1>10 DEF Trace, left

(* The end of the options.                                                 *)
LEMMA OperandsKeep == CommandInv /\ (BadOption \/ Operands) => CommandInv'
PROOF
  <1> SUFFICES ASSUME CommandInv, BadOption \/ Operands PROVE CommandInv'
    OBVIOUS
  <1>1. pc = "options" /\ UNCHANGED <<command, later>>
    BY DEF BadOption, Operands
  <1>2. CASE Usage(Pointer(trace))
    BY <1>1, <1>2, UsageKeeps
  <1>3. ASSUME Len(args) - off + 1 = 3, pc' = "pps",
               UNCHANGED <<files, streams, trace, misused, failed, exitcode>>
        PROVE  CommandInv'
    <2>1. /\ CommandTypeOK /\ OptionsInv /\ StatusInv /\ StreamsInv /\ HonestExit
          /\ off \in Nat /\ Len(args) \in Nat
      BY CommandTypes DEF CommandInv
    <2>2. UNCHANGED <<args, before, off, opt, single, output, decoded>>
      BY <1>1 DEF command, later
    <2>3. Len(args) = off + 2 /\ off' >= off
      BY <1>3, <2>1, <2>2
    <2>4. CommandTypeOK'
      BY <1>3, <2>1, <2>2 DEF CommandTypeOK
    <2>5. StatusInv'
      BY <1>1, <1>3, <2>1, <2>2, <2>3 DEF StatusInv
    <2>6. StreamsInv'
      BY <1>1, <1>3, <2>1, <2>2 DEF StreamsInv, Follow
    <2>7. OptionsInv'
      BY <2>1, <2>2, OptionsKept
    <2>8. HonestExit'
      <3>1. Untouched'
        BY <1>3, <2>1, <2>2, <2>3, <2>4, FilesKept
      <3> QED
        BY <1>3, <3>1 DEF HonestExit, Untouched
    <2>9. StreamsClosedOnce'
      BY <1>3, <2>1 DEF StreamsInv, StreamsClosedOnce
    <2> QED
      BY <2>4, <2>5, <2>6, <2>7, <2>8, <2>9 DEF CommandInv
  <1> QED
    BY <1>2, <1>3 DEF BadOption, Operands

(* Reading and checking the input, up to the call of the decoder, opens    *)
(* and closes nothing.                                                     *)
LEMMA QuietKeeps ==
    ASSUME CommandInv, pc \in {"pps", "configure", "input", "planes"},
           \/ pc' \in {"configure", "input", "planes", "decode"} /\ failed' = failed
           \/ pc' = "done" /\ (failed' = failed \/ failed' = TRUE),
           UNCHANGED <<command, io, decoded, exitcode>>
    PROVE  CommandInv'
PROOF
  <1>1. /\ CommandTypeOK /\ OptionsInv /\ StatusInv /\ StreamsInv /\ HonestExit
        /\ off \in Nat
    BY CommandTypes DEF CommandInv
  <1>2. /\ UNCHANGED <<args, before, off, opt, single, files, streams, trace, output, misused>>
        /\ UNCHANGED <<decoded, exitcode>>
    BY DEF command, io
  <1>3. /\ ~decoded /\ ~failed /\ output = 0 /\ exitcode = 1 /\ Len(args) = off + 2
        /\ failed' \in BOOLEAN
    BY <1>1 DEF StatusInv, CommandTypeOK
  <1>4. /\ pc' \in {"options", "pps", "configure", "input", "planes", "decode",
                    "open", "write", "close", "done", "exited"}
        /\ pc' # "exited"
    OBVIOUS
  <1>5. CommandTypeOK'
    BY <1>1, <1>2, <1>3, <1>4 DEF CommandTypeOK
  <1>6. StatusInv'
    BY <1>2, <1>3 DEF StatusInv
  <1>7. StreamsInv'
    BY <1>1, <1>2, <1>4 DEF StreamsInv, Follow
  <1>8. OptionsInv'
    BY <1>1, <1>2, OptionsKept
  <1>9. HonestExit'
    <2>1. off' >= off
      BY <1>1, <1>2
    <2>2. Untouched'
      BY <1>1, <1>2, <1>5, <2>1, FilesKept
    <2> QED
      BY <1>4, <2>2 DEF HonestExit, Untouched
  <1>10. StreamsClosedOnce'
    BY <1>4, <1>7 DEF StreamsInv, StreamsClosedOnce
  <1> QED
    BY <1>5, <1>6, <1>7, <1>8, <1>9, <1>10 DEF CommandInv

(* The four phases of it.                                                  *)
LEMMA InputKeeps ==
    CommandInv /\ (ReadPps \/ Configure \/ ReadInput \/ AllocatePlanes) => CommandInv'
PROOF
  <1> SUFFICES ASSUME CommandInv, ReadPps \/ Configure \/ ReadInput \/ AllocatePlanes
               PROVE  CommandInv'
    OBVIOUS
  <1>1. /\ pc \in {"pps", "configure", "input", "planes"}
        /\ \/ pc' \in {"configure", "input", "planes", "decode"} /\ failed' = failed
           \/ pc' = "done" /\ (failed' = failed \/ failed' = TRUE)
        /\ UNCHANGED <<command, io, decoded, exitcode>>
    BY DEF ReadPps, Configure, ReadInput, AllocatePlanes, Fails, Refused, Goes
  <1> QED
    BY <1>1, QuietKeeps

(* A stream may lose what was written to it.                               *)
LEMMA LostStream ==
    ASSUME NEW s \in Seq(Streams), NEW t \in 1 .. Len(s), NEW e \in Streams,
           NEW r \in [1 .. Len(s) -> Streams], e.open = s[t].open, e.name = s[t].name,
           \A i \in 1 .. Len(s) : r[i] = IF i = t THEN e ELSE s[i]
    PROVE  /\ r \in Seq(Streams) /\ Len(r) = Len(s)
           /\ \A i \in 1 .. Len(s) : r[i].open = s[i].open /\ r[i].name = s[i].name
PROOF
  <1>1. Len(s) \in Nat
    OBVIOUS
  <1>2. r \in Seq(Streams)
    BY <1>1
  <1>3. DOMAIN r = 1 .. Len(s) /\ Len(r) = Len(s)
    BY <1>1, <1>2
  <1> QED
    BY <1>2, <1>3

(* The decoder accepts or refuses.                                         *)
LEMMA DecodeKeeps == CommandInv /\ Decode => CommandInv'
PROOF
  <1> SUFFICES ASSUME CommandInv, Decode PROVE CommandInv'
    OBVIOUS
  <1>1. /\ CommandTypeOK /\ OptionsInv /\ StatusInv /\ StreamsInv /\ HonestExit
        /\ off \in Nat /\ Len(streams) \in Nat /\ streams \in Seq(Streams)
    BY CommandTypes DEF CommandInv
  <1>2. /\ UNCHANGED <<args, before, off, opt, single, files, trace, output, misused, exitcode>>
        /\ pc = "decode"
    BY DEF Decode, command
  <1>3. \/ decoded' = TRUE /\ pc' = "open" /\ failed' = failed
        \/ decoded' = decoded /\ pc' = "done" /\ failed' = TRUE
    BY DEF Decode, Goes, Fails
  <1>4. /\ ~decoded /\ ~failed /\ output = 0 /\ exitcode = 1 /\ Len(args) = off + 2
        /\ failed' \in BOOLEAN /\ decoded' \in BOOLEAN
    BY <1>1, <1>2, <1>3 DEF StatusInv, CommandTypeOK
  <1>5. /\ trace \in 0 .. Len(streams)
        /\ trace # 0 => trace \in 1 .. Len(streams)
    BY <1>2, OpenStreams
  <1>6. /\ streams' \in Seq(Streams) /\ Len(streams') = Len(streams)
        /\ \A i \in 1 .. Len(streams) : /\ streams'[i].open = streams[i].open
                                        /\ streams'[i].name = streams[i].name
    <2>1. CASE streams' = streams
      BY <1>1, <2>1
    <2>2. CASE trace # 0 /\ streams' = [streams EXCEPT ![trace].lost = TRUE]
      <3>1. trace \in 1 .. Len(streams)
        BY <1>5, <2>2
      <3> DEFINE e == [streams[trace] EXCEPT !.lost = TRUE]
      <3>2. streams \in [1 .. Len(streams) -> Streams] /\ streams' = [streams EXCEPT ![trace] = e]
        BY <1>1, <2>2
      <3>3. e \in Streams /\ e.open = streams[trace].open /\ e.name = streams[trace].name
        BY <3>1, <3>2 DEF Streams
      <3> HIDE DEF e
      <3>4. /\ streams' \in [1 .. Len(streams) -> Streams]
            /\ \A i \in 1 .. Len(streams) : streams'[i] = IF i = trace THEN e ELSE streams[i]
        BY <3>1, <3>2, <3>3
      <3> QED
        BY <1>1, <3>1, <3>3, <3>4, LostStream
    <2> QED
      BY <2>1, <2>2 DEF Decode
  <1>7. CommandTypeOK'
    BY <1>1, <1>2, <1>3, <1>4, <1>6 DEF CommandTypeOK
  <1>8. StatusInv'
    BY <1>2, <1>3, <1>4 DEF StatusInv
  <1>9. StreamsInv'
    <2>1. Follow("--trace")' = Follow("--trace")
      BY <1>2 DEF Follow
    <2> QED
      BY <1>1, <1>2, <1>5, <1>6, <2>1 DEF StreamsInv
  <1>10. OptionsInv'
    BY <1>1, <1>2, OptionsKept
  <1>11. HonestExit'
    <2>1. ~decoded' => decoded' = decoded
      BY <1>3
    <2>2. off' >= off
      BY <1>1, <1>2
    <2>3. ~decoded' => Untouched'
      BY <1>1, <1>2, <1>7, <2>1, <2>2, FilesKept
    <2> QED
      BY <1>3, <2>3 DEF HonestExit, Untouched
  <1>12. StreamsClosedOnce'
    BY <1>3, <1>9 DEF StreamsInv, StreamsClosedOnce
  <1> QED
    BY <1>7, <1>8, <1>9, <1>10, <1>11, <1>12 DEF CommandInv

(* The name of the output is the third operand.                            *)
LEMMA OutputName ==
    ASSUME CommandInv, pc \in {"open", "write", "close", "done"}
    PROVE  /\ Len(args) = off + 2 /\ Operand(3) = args[off + 2]
           /\ Operand(3) \in STRING /\ Operand(3) \in DOMAIN files
PROOF
  <1>1. CommandTypeOK /\ StatusInv
    BY DEF CommandInv
  <1>2. off \in Nat /\ Len(args) = off + 2
    BY <1>1, CommandTypes DEF StatusInv
  <1>3. off + 2 \in 1 .. Len(args) /\ Operand(3) = args[off + 2]
    BY <1>2 DEF Operand
  <1> QED
    BY <1>1, <1>2, <1>3, CommandTypes

(* Opening and writing the output.                                         *)
LEMMA OutputKeeps == CommandInv /\ (OpenOutput \/ WriteOutput) => CommandInv'
PROOF
  <1> SUFFICES ASSUME CommandInv, OpenOutput \/ WriteOutput PROVE CommandInv'
    OBVIOUS
  <1>1. /\ CommandTypeOK /\ OptionsInv /\ StatusInv /\ StreamsInv /\ HonestExit
        /\ off \in Nat /\ Len(streams) \in Nat /\ streams \in Seq(Streams)
    BY CommandTypes DEF CommandInv
  <1>2. /\ UNCHANGED <<args, before, off, opt, single, trace, misused, decoded, exitcode>>
        /\ pc \in {"open", "write"}
    BY DEF OpenOutput, WriteOutput, command, later
  <1>3. /\ decoded /\ ~failed /\ exitcode = 1 /\ Len(args) = off + 2
        /\ pc = "open" => output = 0
        /\ pc = "write" => output # 0
    BY <1>1, <1>2 DEF StatusInv
  <1>4. /\ \A i \in 1 .. Len(streams) : streams[i].open <=> i \in {trace, output}
        /\ trace \in 0 .. Len(streams) /\ output \in 0 .. Len(streams) /\ ~misused
    BY <1>2, OpenStreams
  <1>5. DOMAIN files' = DOMAIN files
    BY DEF OpenOutput, WriteOutput
  <1>6. /\ \/ pc' = "write" /\ failed' = failed /\ output' # 0
           \/ pc' = "close" /\ failed' = failed /\ output' = output /\ pc = "write"
           \/ pc' = "done" /\ failed' = TRUE /\ output' = output /\ streams' = streams
        /\ \/ streams' = streams /\ output' = output
           \/ /\ streams' = Append(streams, Opened(Operand(3)))
              /\ output' = Len(streams) + 1 /\ pc = "open"
    BY <1>1 DEF OpenOutput, WriteOutput, Goes, Fails, later
  <1>7. /\ streams' \in Seq(Streams) /\ output' \in 0 .. Len(streams')
        /\ trace \in 0 .. Len(streams')
        /\ \A i \in 1 .. Len(streams') : streams'[i].open <=> i \in {trace, output'}
        /\ trace = output' => trace = 0
        /\ trace # 0 => streams'[trace].name \in Follow("--trace")
    <2>1. CASE streams' = streams /\ output' = output
      BY <1>1, <1>2, <1>4, <2>1 DEF StreamsInv
    <2>2. CASE /\ streams' = Append(streams, Opened(Operand(3)))
               /\ output' = Len(streams) + 1 /\ pc = "open"
      <3> DEFINE name == Operand(3)
      <3>1. name \in STRING /\ streams' = Append(streams, Opened(name))
        BY <1>2, <2>2, OutputName
      <3> HIDE DEF name
      <3>2. /\ streams' \in Seq(Streams) /\ Len(streams') = Len(streams) + 1
            /\ \A i \in 1 .. Len(streams) : streams'[i] = streams[i]
            /\ streams'[Len(streams) + 1].open
        BY <1>1, <3>1, OpenedStream
      <3>3. /\ Len(streams) + 1 \in 1 .. Len(streams) + 1
            /\ \A i \in 1 .. Len(streams) + 1 : i \in 1 .. Len(streams) \/ i = Len(streams) + 1
            /\ \A i \in 0 .. Len(streams) : i \in 0 .. Len(streams) + 1 /\ i # Len(streams) + 1
        BY <1>1, OneMore
      <3>4. output' \in 0 .. Len(streams') /\ output' # 0
        BY <1>1, <2>2, <3>2
      <3>5. trace \in 0 .. Len(streams') /\ trace # output'
        BY <1>4, <2>2, <3>2, <3>3
      <3>6. \A i \in 1 .. Len(streams') : streams'[i].open <=> i \in {trace, output'}
        <4> TAKE i \in 1 .. Len(streams')
        <4>1. CASE i \in 1 .. Len(streams)
          <5>1. i # output' /\ i # 0
            BY <1>1, <2>2, <4>1
          <5>2. streams'[i].open <=> i \in {trace, output}
            BY <1>4, <3>2, <4>1
          <5> QED
            BY <1>3, <2>2, <5>1, <5>2
        <4>2. CASE i = Len(streams) + 1
          BY <2>2, <3>2, <4>2
        <4> QED
          BY <3>2, <3>3, <4>1, <4>2
      <3>7. trace # 0 => streams'[trace].name \in Follow("--trace")
        <4>1. trace # 0 => /\ trace \in 1 .. Len(streams)
                           /\ streams[trace].name \in Follow("--trace")
          BY <1>2, OpenStreams
        <4> QED
          BY <3>2, <4>1
      <3> QED
        BY <3>2, <3>4, <3>5, <3>6, <3>7
    <2> QED
      BY <1>6, <2>1, <2>2
  <1>8. CommandTypeOK'
    BY <1>1, <1>2, <1>3, <1>4, <1>5, <1>6, <1>7 DEF CommandTypeOK
  <1>9. StatusInv'
    BY <1>2, <1>3, <1>6 DEF StatusInv
  <1>10. StreamsInv'
    <2>1. Follow("--trace")' = Follow("--trace")
      BY <1>2 DEF Follow
    <2> QED
      BY <1>2, <1>4, <1>7, <2>1 DEF StreamsInv
  <1>11. OptionsInv'
    BY <1>1, <1>2, OptionsKept
  <1>12. HonestExit'
    BY <1>2, <1>3, <1>6 DEF HonestExit
  <1>13. StreamsClosedOnce'
    BY <1>6, <1>10 DEF StreamsInv, StreamsClosedOnce
  <1> QED
    BY <1>8, <1>9, <1>10, <1>11, <1>12, <1>13 DEF CommandInv

(* Closing the output: exit status 0 goes with the whole picture.          *)
LEMMA CloseKeeps == CommandInv /\ CloseOutput => CommandInv'
PROOF
  <1> SUFFICES ASSUME CommandInv, CloseOutput PROVE CommandInv'
    OBVIOUS
  <1>1. /\ CommandTypeOK /\ OptionsInv /\ StatusInv /\ StreamsInv /\ HonestExit
        /\ off \in Nat /\ Len(streams) \in Nat /\ streams \in Seq(Streams)
    BY CommandTypes DEF CommandInv
  <1>2. /\ UNCHANGED <<args, before, off, opt, single, trace, decoded>>
        /\ pc = "close" /\ pc' = "done" /\ output' = 0
        /\ misused' = (misused \/ Misuse(Pointer(output)))
        /\ streams' = Fclose(streams, Pointer(output))
        /\ \/ /\ files' = [files EXCEPT ![Operand(3)] = "picture"]
              /\ exitcode' = 0 /\ failed' = failed
           \/ files' = files /\ exitcode' = exitcode /\ failed' = TRUE
    BY DEF CloseOutput, command, Goes, Fails, AfterClose
  <1>3. decoded /\ ~failed /\ exitcode = 1 /\ Len(args) = off + 2 /\ output # 0
    BY <1>1, <1>2 DEF StatusInv
  <1>4. /\ \A i \in 1 .. Len(streams) : streams[i].open <=> i \in {trace, output}
        /\ trace \in 0 .. Len(streams) /\ output \in 1 .. Len(streams)
        /\ ~misused' /\ misused' \in BOOLEAN
        /\ trace # output
        /\ trace # 0 => /\ trace \in 1 .. Len(streams)
                        /\ streams[trace].name \in Follow("--trace")
    BY <1>2, <1>3, OpenStreams
  <1>5. Operand(3) \in DOMAIN files
    BY <1>2, OutputName
  <1>6. DOMAIN files' = DOMAIN files /\ exitcode' \in {0, 1, 2} /\ failed' \in BOOLEAN
    <2>1. failed \in BOOLEAN
      BY <1>1 DEF CommandTypeOK
    <2> QED
      BY <1>2, <1>3, <2>1
  <1>7. /\ streams' \in Seq(Streams) /\ Len(streams') = Len(streams)
        /\ \A i \in 1 .. Len(streams) :
             /\ streams'[i].open <=> streams[i].open /\ i \notin Pointer(output)
             /\ streams'[i].name = streams[i].name
    BY <1>1, <1>2, StreamFacts
  <1>8. CommandTypeOK'
    <2>1. 0 \in 0 .. Len(streams')
      BY <1>1, <1>7
    <2> QED
      BY <1>1, <1>2, <1>4, <1>6, <1>7, <2>1 DEF CommandTypeOK
  <1>9. StatusInv'
    <2>1. Operand(3)' = Operand(3)
      BY <1>2 DEF Operand
    <2>2. exitcode' = 0 => files'[Operand(3)] = "picture"
      BY <1>2, <1>3, <1>5
    <2>3. exitcode' = 0 <=> decoded' /\ ~failed'
      BY <1>2, <1>3
    <2> QED
      BY <1>2, <1>3, <2>1, <2>2, <2>3 DEF StatusInv
  <1>10. StreamsInv'
    <2>1. Follow("--trace")' = Follow("--trace")
      BY <1>2 DEF Follow
    <2>2. \A i \in 1 .. Len(streams) : streams'[i].open <=> i \in {trace, 0}
      <3> TAKE i \in 1 .. Len(streams)
      <3>1. i # 0 /\ (i \in Pointer(output) <=> i = output)
        BY <1>1, <1>3 DEF Pointer
      <3> QED
        BY <1>4, <1>7, <3>1
    <2> QED
      BY <1>2, <1>4, <1>7, <2>1, <2>2 DEF StreamsInv
  <1>11. OptionsInv'
    BY <1>1, <1>2, OptionsKept
  <1>12. HonestExit'
    BY <1>2, <1>3 DEF HonestExit
  <1>13. StreamsClosedOnce'
    BY <1>2, <1>10 DEF StreamsInv, StreamsClosedOnce
  <1> QED
    BY <1>8, <1>9, <1>10, <1>11, <1>12, <1>13 DEF CommandInv

(* The common clean-up. The trace may share its file with the output.      *)
LEMMA DoneKeeps == CommandInv /\ Done => CommandInv'
PROOF
  <1> SUFFICES ASSUME CommandInv, Done PROVE CommandInv'
    OBVIOUS
  <1> DEFINE ids == Pointer(output) \cup Pointer(trace)
  <1>1. /\ CommandTypeOK /\ OptionsInv /\ StatusInv /\ HonestExit
        /\ off \in Nat /\ Len(streams) \in Nat /\ streams \in Seq(Streams)
    BY CommandTypes DEF CommandInv
  <1>2. /\ UNCHANGED <<args, before, off, opt, single, trace, output, decoded>>
        /\ pc = "done" /\ pc' = "exited"
        /\ misused' = (misused \/ Misuse(ids)) /\ streams' = Fclose(streams, ids)
    BY DEF Done, command, later
  <1>3. \/ failed' = failed /\ exitcode' = exitcode
        \/ failed' = TRUE /\ exitcode' = 1
    BY DEF Done, TraceFailed
  <1>4. /\ \A i \in 1 .. Len(streams) : streams[i].open <=> i \in {trace, output}
        /\ trace \in 0 .. Len(streams) /\ output \in 0 .. Len(streams)
        /\ ~misused' /\ misused' \in BOOLEAN
        /\ trace # 0 => streams[trace].name \in Follow("--trace")
    BY <1>2, OpenStreams
  <1>5. \/ files' = files
        \/ /\ trace # 0
           /\ \E c : files' = [files EXCEPT ![streams[trace].name] = c]
    BY DEF Done, LeaveTrace
  <1>6. /\ DOMAIN files' = DOMAIN files
        /\ \A name \in DOMAIN files \ Follow("--trace") : files'[name] = files[name]
    BY <1>4, <1>5
  <1>7. /\ streams' \in Seq(Streams) /\ Len(streams') = Len(streams)
        /\ \A i \in 1 .. Len(streams) : streams'[i].open <=> streams[i].open /\ i \notin ids
    BY <1>1, <1>2, StreamFacts
  <1>8. CommandTypeOK'
    <2>1. failed' \in BOOLEAN /\ exitcode' \in {0, 1, 2}
      BY <1>1, <1>3 DEF CommandTypeOK
    <2> QED
      BY <1>1, <1>2, <1>4, <1>6, <1>7, <2>1 DEF CommandTypeOK
  <1>9. StatusInv' /\ StreamsInv'
    BY <1>2, <1>4 DEF StatusInv, StreamsInv
  <1>10. OptionsInv'
    BY <1>1, <1>2, OptionsKept
  <1>11. Operand(3)' = Operand(3) /\ Follow("--trace")' = Follow("--trace")
    BY <1>2 DEF Operand, Follow
  <1>12. HonestExit'
    <2>1. exitcode' = 0 <=> decoded' /\ ~failed'
      BY <1>1, <1>2, <1>3 DEF StatusInv
    <2>2. exitcode' = 0 => \/ files'[Operand(3)] = "picture"
                           \/ Operand(3) \in Follow("--trace")
      <3>1. exitcode' = 0 => exitcode = 0
        BY <1>3
      <3>2. exitcode = 0 => files[Operand(3)] = "picture"
        BY <1>1, <1>2 DEF StatusInv
      <3>3. Operand(3) \in DOMAIN files
        BY <1>2, OutputName
      <3> QED
        BY <1>6, <3>1, <3>2, <3>3
    <2>3. ~decoded' => \A name \in DOMAIN files' \ Follow("--trace") :
                           files'[name] = before'[name]
      BY <1>1, <1>2, <1>6 DEF HonestExit
    <2> QED
      BY <1>11, <2>1, <2>2, <2>3 DEF HonestExit
  <1>13. StreamsClosedOnce'
    <2> SUFFICES ASSUME NEW i \in DOMAIN streams' PROVE ~streams'[i].open
      BY <1>4 DEF StreamsClosedOnce
    <2>1. i \in 1 .. Len(streams)
      BY <1>7
    <2>2. i # 0
      BY <1>1, <2>1
    <2> QED
      BY <1>4, <1>7, <2>1, <2>2 DEF Pointer
  <1> QED
    BY <1>8, <1>9, <1>10, <1>12, <1>13 DEF CommandInv

(* Every action keeps the invariant.                                       *)
LEMMA StepCommand == CommandInv /\ [Next]_vars => CommandInv'
PROOF
  <1> SUFFICES ASSUME CommandInv, [Next]_vars PROVE CommandInv'
    OBVIOUS
  <1>1. CASE UNCHANGED vars
    <2>1. /\ UNCHANGED <<args, off, before, files, opt, streams, trace, output, decoded>>
          /\ UNCHANGED <<misused, failed, pc, exitcode>>
      BY <1>1 DEF vars
    <2>2. CommandTypeOK'
      BY <2>1 DEF CommandInv, CommandTypeOK
    <2>3. Operand(3)' = Operand(3) /\ Follow("--trace")' = Follow("--trace")
      BY <2>1 DEF Operand, Follow
    <2>4. StatusInv' /\ StreamsInv' /\ HonestExit'
      BY <2>1, <2>3 DEF CommandInv, StatusInv, StreamsInv, HonestExit
    <2>5. OptionsInv'
      BY <2>1, OptionsKept DEF CommandInv
    <2>6. StreamsClosedOnce'
      BY <2>1 DEF CommandInv, StreamsClosedOnce, Arg
    <2> QED
      BY <2>2, <2>4, <2>5, <2>6 DEF CommandInv
  <1>2. CASE Slice \/ Stats
    BY <1>2, SliceKeeps
  <1>3. CASE Reading
    BY <1>3, ReadingKeeps
  <1>4. CASE Trace
    BY <1>4, TraceKeeps
  <1>5. CASE BadOption \/ Operands
    BY <1>5, OperandsKeep
  <1>6. CASE ReadPps \/ Configure \/ ReadInput \/ AllocatePlanes
    BY <1>6, InputKeeps
  <1>7. CASE Decode
    BY <1>7, DecodeKeeps
  <1>8. CASE OpenOutput \/ WriteOutput
    BY <1>8, OutputKeeps
  <1>9. CASE CloseOutput
    BY <1>9, CloseKeeps
  <1>10. CASE Done
    BY <1>10, DoneKeeps
  <1> QED
    BY <1>1, <1>2, <1>3, <1>4, <1>5, <1>6, <1>7, <1>8, <1>9, <1>10 DEF Next, Exited

(* The invariant of the command line.                                      *)
LEMMA CommandInvariant == Spec => []CommandInv
PROOF
  BY InitCommand, StepCommand, PTL DEF Spec

(* main returns 0 exactly when the decoder accepted and no call failed     *)
(* that it looks at, and then the output is the picture; until the decoder *)
(* accepts only the traces are touched.                                    *)
THEOREM HonestStatus == Spec => []HonestExit
PROOF
  <1>1. CommandInv => HonestExit
    BY DEF CommandInv
  <1> QED
    BY <1>1, CommandInvariant, PTL

(* main closes every stream that it opens, and none twice, but for the     *)
(* trace before an unknown reading.                                        *)
THEOREM StreamsClosed == Spec => []StreamsClosedOnce
PROOF
  <1>1. CommandInv => StreamsClosedOnce
    BY DEF CommandInv
  <1> QED
    BY <1>1, CommandInvariant, PTL

(* main calls the decoder with the reading that the last --reading of each *)
(* question names, or its default.                                         *)
THEOREM LastReadingCounts == Spec => []LastReadingWins
PROOF
  <1>1. OptionsInv => LastReadingWins
    BY DEF OptionsInv, LastReadingWins, Named
  <1>2. CommandInv => LastReadingWins
    BY <1>1 DEF CommandInv
  <1> QED
    BY <1>2, CommandInvariant, PTL

-----------------------------------------------------------------------------
(* read_file.                                                              *)

Held ==
    /\ call = "open" => stream = "none" /\ buffer = "none" /\ fault = 0 /\ error = 0
    /\ call = "malloc" => stream = "open" /\ buffer = "none" /\ fault = 0 /\ error = 0
    /\ call \in {"read", "fclose"} => stream = "open" /\ buffer = "held"
    /\ call # "done" => result = "none"

Taken ==
    /\ pos <= length
    /\ call # "done" => pos = n /\ fault = error
    /\ call = "fclose" => fault = 0 /\ n = length

ReadInv == ReadTypeOK /\ Held /\ Taken /\ ReadsWhole

(* The buffer grows towards the limit and not past it.                     *)
LEMMA LargerWithin ==
    ASSUME NEW l \in Nat, limit = l, NEW c \in 0 .. l
    PROVE  Larger(c) \in c .. l
  BY DEF Larger

(* The buffer of the first malloc is within the limit.                     *)
LEMMA SmallerIs ==
    ASSUME NEW a \in Nat, NEW b \in Nat
    PROVE  Smaller(a, b) \in Nat /\ Smaller(a, b) <= a /\ Smaller(a, b) <= b
  BY DEF Smaller

LEMMA InitReadInv == ReadInit => ReadInv
<1> SUFFICES ASSUME ReadInit PROVE ReadInv
  OBVIOUS
<1>1. limit \in Nat /\ First \in Nat /\ length \in Nat
  BY SizesAssumption, LengthsAssumption DEF ReadInit
<1>2. cap \in 0 .. limit
  BY <1>1, SmallerIs DEF ReadInit
<1>3. ReadTypeOK
  <2>1. n \in 0 .. cap
    BY <1>1, <1>2 DEF ReadInit
  <2> QED
    BY <1>1, <1>2, <2>1 DEF ReadInit, ReadTypeOK
<1> QED
  BY <1>1, <1>3 DEF ReadInv, Held, Taken, ReadsWhole, ReadInit

LEMMA NextReadInv == ReadInv /\ [ReadNext]_read_vars => ReadInv'
<1> SUFFICES ASSUME ReadInv, [ReadNext]_read_vars PROVE ReadInv'
  OBVIOUS
<1>t. /\ limit \in Nat /\ length \in Nat /\ pos \in Nat /\ n \in Nat
      /\ cap \in Nat /\ cap <= limit /\ n <= cap
  BY SizesAssumption, LengthsAssumption DEF ReadInv, ReadTypeOK
<1>1. CASE Open
  BY <1>1, <1>t DEF Open, Return, ReadInv, ReadTypeOK, Held, Taken, ReadsWhole, file
<1>2. CASE Allocate
  BY <1>2, <1>t DEF Allocate, Close, Return, ReadInv, ReadTypeOK, Held, Taken,
     ReadsWhole, file
<1>3. CASE Grow
  <2>1. Larger(cap) \in cap .. limit
    BY <1>t, LargerWithin
  <2> QED
    BY <1>3, <1>t, <2>1 DEF Grow, GiveUp, Free, Close, Return, ReadInv, ReadTypeOK,
       Held, Taken, ReadsWhole, file
<1>4. CASE Probe
  BY <1>4, <1>t DEF Probe, GetBeyond, GotEof, GiveUp, Free, Close, Return,
     ReadInv, ReadTypeOK, Held, Taken, ReadsWhole
<1>5. CASE Fill
  <2>1. PICK got \in 0 .. Smaller(cap - n, length - pos) :
            /\ Fread(got)
            /\ n' = n + got
            /\ \/ ~NothingRead(got) /\ UNCHANGED <<stream, buffer, call, result>>
               \/ NothingRead(got) /\ error' = 1 /\ GiveUp
               \/ /\ NothingRead(got) /\ error' = 0
                  /\ call' = "fclose" /\ UNCHANGED <<stream, buffer, result>>
    BY <1>5 DEF Fill
  <2>2. /\ cap - n \in Nat /\ cap # n /\ length - pos \in Nat
        /\ call = "read" /\ pos = n /\ fault = error
    BY <1>5, <1>t DEF Fill, ReadInv, Taken
  <2>3. got \in Nat /\ got <= cap - n /\ got <= length - pos
    <3>1. /\ Smaller(cap - n, length - pos) \in Nat
          /\ Smaller(cap - n, length - pos) <= cap - n
          /\ Smaller(cap - n, length - pos) <= length - pos
      BY <2>2, SmallerIs
    <3> QED
      BY <1>t, <3>1
  <2>4. /\ pos' = pos + got /\ pos' = n' /\ fault' = error'
        /\ error' \in {0, 1} /\ fault' \in {0, 1}
        /\ limit' = limit /\ length' = length /\ cap' = cap /\ pass' \in {0, 1}
    BY <1>5, <2>1, <2>2 DEF Fill, Fread, ReadInv, ReadTypeOK
  <2>5. CASE got # 0
    BY <1>t, <2>1, <2>2, <2>3, <2>4, <2>5
    DEF NothingRead, ReadInv, ReadTypeOK, Held, Taken, ReadsWhole
  <2>6. CASE got = 0 /\ error' = 1
    BY <1>t, <2>1, <2>2, <2>3, <2>4, <2>6
    DEF NothingRead, GiveUp, Free, Close, Return, ReadInv, ReadTypeOK, Held, Taken,
        ReadsWhole
  <2>7. CASE got = 0 /\ error' = 0
    <3>1. got = Smaller(cap - n, length - pos)
      BY <2>1, <2>7 DEF Fread
    <3>2. length = pos
      BY <1>t, <2>2, <2>7, <3>1 DEF Smaller
    <3>3. call' = "fclose" /\ UNCHANGED <<stream, buffer, result>>
      BY <2>1, <2>7 DEF NothingRead
    <3> QED
      BY <1>t, <2>2, <2>3, <2>4, <2>7, <3>2, <3>3
      DEF ReadInv, ReadTypeOK, Held, Taken, ReadsWhole
  <2> QED
    BY <2>3, <2>4, <2>5, <2>6, <2>7
<1>6. CASE CloseFile
  <2>1. /\ stream = "open" /\ buffer = "held" /\ fault = 0 /\ n = length
        /\ stream' = "closed" /\ UNCHANGED <<file, n, cap, pass>> /\ call' = "done"
    BY <1>6 DEF CloseFile, Close, Return, ReadInv, Held, Taken
  <2>2. CASE result' = "data" /\ UNCHANGED <<buffer, fault>>
    BY <1>t, <2>1, <2>2 DEF ReadInv, ReadTypeOK, Held, Taken, ReadsWhole, file
  <2>3. CASE fault' = 1 /\ buffer' = "freed" /\ result' = "null"
    BY <1>t, <2>1, <2>3 DEF ReadInv, ReadTypeOK, Held, Taken, ReadsWhole, file
  <2> QED
    BY <1>6, <2>1, <2>2, <2>3 DEF CloseFile, Free, Return
<1>7. CASE UNCHANGED read_vars
  BY <1>7 DEF read_vars, ReadInv, ReadTypeOK, Held, Taken, ReadsWhole
<1> QED
  BY <1>1, <1>2, <1>3, <1>4, <1>5, <1>6, <1>7 DEF ReadNext

(* read_file: data exactly when nothing failed and the file is within the *)
(* limit, and then all of it, with the stream closed once.                 *)
THEOREM ReadsAllOrNothing == ReadSpec => []ReadsWhole
<1>1. ReadInit => ReadInv
  BY InitReadInv
<1>2. ReadInv /\ [ReadNext]_read_vars => ReadInv'
  BY NextReadInv
<1>3. ReadInv => ReadsWhole
  BY DEF ReadInv
<1> QED
  BY <1>1, <1>2, <1>3, PTL DEF ReadSpec

(* The buffer holds what was read and stays within the caller's limit.     *)
THEOREM BufferWithinLimit == ReadSpec => []ReadTypeOK
<1>1. ReadInit => ReadInv
  BY InitReadInv
<1>2. ReadInv /\ [ReadNext]_read_vars => ReadInv'
  BY NextReadInv
<1>3. ReadInv => ReadTypeOK
  BY DEF ReadInv
<1> QED
  BY <1>1, <1>2, <1>3, PTL DEF ReadSpec

(* The steps left at most: each pass of the loop takes a byte or makes the *)
(* buffer larger, or is the last.                                          *)
ReadsLeft ==
    CASE call = "open"   -> 2 * limit + 4
      [] call = "malloc" -> 2 * limit + 3
      [] call = "read"   -> (limit - n) + (limit - cap) + 2
      [] call = "fclose" -> 1
      [] OTHER           -> 0

(* A buffer that can grow is not empty, so that doubling makes it larger.  *)
Growing == ReadInv /\ (cap = limit \/ cap > 0)

LEMMA LargerGrows ==
    ASSUME NEW l \in Nat, limit = l, NEW c \in 1 .. l, c # l
    PROVE  Larger(c) \in c + 1 .. l
  BY DEF Larger

LEMMA ReadsLeftIsNat == Growing => ReadsLeft \in Nat
<1> SUFFICES ASSUME Growing PROVE ReadsLeft \in Nat
  OBVIOUS
<1>1. limit \in Nat /\ cap \in 0 .. limit /\ n \in 0 .. cap
  BY SizesAssumption DEF Growing, ReadInv, ReadTypeOK
<1> QED
  BY <1>1 DEF ReadsLeft

LEMMA ReadsLeftFall ==
    ASSUME Growing, ReadNext
    PROVE  ReadsLeft' < ReadsLeft /\ (cap' = limit' \/ cap' > 0)
<1>1. /\ limit \in Nat /\ cap \in Nat /\ n \in Nat /\ cap <= limit /\ n <= cap
      /\ length \in Nat /\ pos \in Nat /\ pos <= length
      /\ cap = limit \/ cap > 0
  BY SizesAssumption, LengthsAssumption DEF Growing, ReadInv, ReadTypeOK, Taken
<1>2. limit' = limit
  BY DEF ReadNext, Open, Allocate, Grow, Probe, Fill, CloseFile, file
<1>3. /\ call = "open"   => ReadsLeft = 2 * limit + 4
      /\ call = "malloc" => ReadsLeft = 2 * limit + 3
      /\ call = "read"   => ReadsLeft = (limit - n) + (limit - cap) + 2
      /\ call = "fclose" => ReadsLeft = 1
  BY DEF ReadsLeft
<1>4. /\ call' = "malloc" => ReadsLeft' = 2 * limit + 3
      /\ call' = "read"   => ReadsLeft' = (limit - n') + (limit - cap') + 2
      /\ call' = "fclose" => ReadsLeft' = 1
      /\ call' = "done"   => ReadsLeft' = 0
  BY <1>2 DEF ReadsLeft
<1>5. CASE Open
  <2>1. call = "open" /\ call' \in {"malloc", "done"} /\ cap' = cap
    BY <1>5 DEF Open, Return
  <2> QED
    BY <1>1, <1>2, <1>3, <1>4, <2>1
<1>6. CASE Allocate
  <2>1. call = "malloc" /\ call' \in {"read", "done"} /\ cap' = cap /\ n' = n
    BY <1>6 DEF Allocate, Return
  <2> QED
    BY <1>1, <1>2, <1>3, <1>4, <2>1
<1>7. CASE Grow
  <2>1. call = "read" /\ cap # limit /\ n' = n
    BY <1>7 DEF Grow
  <2>2. \/ cap' = Larger(cap) /\ call' = "read"
        \/ call' = "done" /\ cap' = cap
    BY <1>7, <2>1 DEF Grow, GiveUp, Return
  <2>3. Larger(cap) \in cap + 1 .. limit
    BY <1>1, <2>1, LargerGrows
  <2> QED
    BY <1>1, <1>2, <1>3, <1>4, <2>1, <2>2, <2>3
<1>8. CASE Probe
  <2>1. call = "read" /\ call' \in {"fclose", "done"} /\ cap' = cap /\ n' = n
    BY <1>8 DEF Probe, GiveUp, Return
  <2> QED
    BY <1>1, <1>2, <1>3, <1>4, <2>1
<1>9. CASE Fill
  <2>1. call = "read" /\ n # cap /\ cap' = cap
    BY <1>9 DEF Fill
  <2>2. PICK got \in 0 .. Smaller(cap - n, length - pos) :
           /\ n' = n + got
           /\ \/ got # 0 /\ call' = call
              \/ got = 0 /\ call' \in {"done", "fclose"}
    BY <1>9 DEF Fill, NothingRead, GiveUp, Return
  <2>3. got \in Nat /\ got <= cap - n
    BY <1>1, <2>2, SmallerIs
  <2> QED
    BY <1>1, <1>2, <1>3, <1>4, <2>1, <2>2, <2>3
<1>10. CASE CloseFile
  <2>1. call = "fclose" /\ call' = "done" /\ cap' = cap
    BY <1>10 DEF CloseFile, Return
  <2> QED
    BY <1>1, <1>2, <1>3, <1>4, <2>1
<1> QED
  BY <1>5, <1>6, <1>7, <1>8, <1>9, <1>10 DEF ReadNext

(* read_file (main.c:26-64), for a file of any length, however its reads   *)
(* fail: a natural number falls with every call, so that the loop ends.    *)
THEOREM ReadLoopEnds == ReadSpec => [](ReadsLeft \in Nat) /\ [][ReadsLeft' < ReadsLeft]_read_vars
<1>1. ReadInit => Growing
  <2> SUFFICES ASSUME ReadInit PROVE Growing
    OBVIOUS
  <2>1. limit \in Nat /\ First \in Nat \ {0} /\ cap = Smaller(limit, First)
    BY SizesAssumption DEF ReadInit
  <2>2. cap = limit \/ cap > 0
    BY <2>1 DEF Smaller
  <2> QED
    BY <2>2, InitReadInv DEF Growing
<1>2. Growing /\ [ReadNext]_read_vars => Growing'
  <2> SUFFICES ASSUME Growing, [ReadNext]_read_vars PROVE Growing'
    OBVIOUS
  <2>1. ReadInv'
    BY NextReadInv DEF Growing
  <2>2. CASE ReadNext
    BY <2>1, <2>2, ReadsLeftFall DEF Growing
  <2>3. CASE UNCHANGED read_vars
    BY <2>1, <2>3 DEF Growing, read_vars
  <2> QED
    BY <2>2, <2>3
<1>3. Growing /\ [ReadNext]_read_vars => [ReadsLeft' < ReadsLeft]_read_vars
  BY ReadsLeftFall
<1> QED
  BY <1>1, <1>2, <1>3, ReadsLeftIsNat, PTL DEF ReadSpec

=============================================================================
