------------------------------ MODULE FileStore ------------------------------
(***************************************************************************)
(* Files: the C streams of src/stdc/file_io.cpp on the files of the RAM    *)
(* file system (src/fs/ramfs.cpp) behind src/fs/vfs.cpp.  Nothing creates  *)
(* a folder, so every file is an entry of the root's table; the table is   *)
(* taken as the dictionary HashTable shows it to be.                       *)
(*                                                                         *)
(* One thread makes all the calls.  A lock it waits for is held by a       *)
(* stream it has open itself, so the wait never ends: "spins".             *)
(***************************************************************************)
EXTENDS Integers, Sequences, FiniteSets

CONSTANTS
  Names, Files,    \* file names; file objects
  Streams,         \* FILE pointers
  Bytes,           \* bytes programs write
  Closed,          \* a FILE pointer not in use
  MaxSize,         \* bound: bytes in a file
  MaxIndex         \* bound: a stream's index

ASSUME FileAssumption ==
  /\ Bytes \subseteq 0 .. 255
  /\ MaxSize \in Nat \ {0} /\ MaxIndex \in Nat \ {0} /\ MaxSize <= MaxIndex
  \* a new file can always be allocated
  /\ IsFiniteSet(Names) /\ IsFiniteSet(Files) /\ Cardinality(Names) <= Cardinality(Files)

\* k_FILE_HANDLE
HandleType ==
  [file : Files, index : 0 .. MaxIndex, eof : BOOLEAN,
   read : BOOLEAN, write : BOOLEAN, append : BOOLEAN]

ASSUME ClosedIsNoHandle == Closed \notin HandleType

VARIABLES
  files,     \* the root's files: name -> file
  data,      \* the bytes of a file
  locked,    \* files whose spinlock is taken
  stream,    \* k_FILE_HANDLE of a stream, or Closed
  halted,    \* "none", or why the machine stopped
  ret        \* what the last fgetc, remove or rename returned, and should have

vars == <<files, data, locked, stream, halted, ret>>

Eof == -1
NoRet == [call |-> "none", value |-> 0, ok |-> TRUE]

Exists(n) == n \in DOMAIN files
Stored == {files[n] : n \in DOMAIN files}
OpenStreams == {s \in Streams : stream[s] # Closed}
OpenFiles == {stream[s].file : s \in OpenStreams}

Running == halted = "none"

Halt(why) ==
  /\ halted' = why
  /\ UNCHANGED <<files, data, locked, stream, ret>>

Init ==
  /\ files = [n \in {} |-> n] /\ data = [f \in Files |-> <<>>] /\ locked = {}
  /\ stream = [s \in Streams |-> Closed]
  /\ halted = "none" /\ ret = NoRet

-----------------------------------------------------------------------------
(* RamFS::FileHandle.                                                      *)

\* read: how many bytes come back
ReadCount(d, n, offset) ==
  IF offset > Len(d) THEN 0
  ELSE IF n < Len(d) - offset THEN n ELSE Len(d) - offset

\* write: a file that is too short grows, zeros filling the gap.
WriteAt(d, buf, offset) ==
  LET needed == Len(buf) + offset
  IN [i \in 1 .. (IF needed > Len(d) THEN needed ELSE Len(d)) |->
        IF i \in offset + 1 .. needed THEN buf[i - offset]
        ELSE IF i <= Len(d) THEN d[i] ELSE 0]

\* A byte as char, which is signed.
Char(b) == IF b > 127 THEN b - 256 ELSE b

\* getc: its test lets offset = size through.  The byte there is whatever the
\* heap holds; in an empty file it is at address 0, which is not mapped.
Getc(d, offset) ==
  IF offset > Len(d) THEN {Eof}
  ELSE IF offset = Len(d) THEN {Char(b) : b \in Bytes \cup {0}}
  ELSE {Char(d[offset + 1])}

GetcFaults(d, offset) == Len(d) = 0 /\ offset = 0

-----------------------------------------------------------------------------
(* fopen and fclose.                                                       *)

Modes == {"r", "r+", "w", "w+", "wx", "a", "a+"}

\* parse_mode and the flags fopen derives from it
Reads(m) == m \in {"r", "r+", "w+", "a+"}
Writes(m) == m \in {"r+", "w", "w+", "wx"}
Appends(m) == m \in {"a", "a+"}
Truncates(m) == m \in {"w", "w+", "wx"}

Handle(f, m, index) ==
  [file |-> f, index |-> index, eof |-> FALSE,
   read |-> Reads(m), write |-> Writes(m), append |-> Appends(m)]

NewFile == CHOOSE f \in Files : f \notin Stored \cup OpenFiles

\* The file fopen works on: found, or created unless the mode only reads; none
\* when the mode insists on a new file and there is one.
Resolved(n, m) ==
  IF Exists(n) THEN IF m = "wx" THEN {} ELSE {files[n]}
  ELSE IF m \in {"r", "r+"} THEN {} ELSE {NewFile}

FOpenShared(s, n, m) ==                               \* fault: try_lock for lock
  /\ Running /\ stream[s] = Closed
  /\ \E f \in Resolved(n, m) :
       LET d == IF Truncates(m) \/ ~Exists(n) THEN <<>> ELSE data[f] IN
       /\ files' = [x \in DOMAIN files \cup {n} |-> IF x = n THEN f ELSE files[x]]
       /\ data' = [data EXCEPT ![f] = d]
       /\ locked' = locked \cup {f}
       /\ stream' = [stream EXCEPT ![s] = Handle(f, m, IF Appends(m) THEN Len(d) ELSE 0)]
       /\ ret' = NoRet /\ UNCHANGED halted

FOpen(s, n, m) ==
  /\ Running /\ stream[s] = Closed
  /\ \E f \in Resolved(n, m) :
       LET d == IF Truncates(m) \/ ~Exists(n) THEN <<>> ELSE data[f] IN
       \/ f \in locked /\ Halt("spins")
       \/ /\ f \notin locked
          /\ files' = [x \in DOMAIN files \cup {n} |-> IF x = n THEN f ELSE files[x]]
          /\ data' = [data EXCEPT ![f] = d]
          /\ locked' = locked \cup {f}
          /\ stream' = [stream EXCEPT ![s] = Handle(f, m, IF Appends(m) THEN Len(d) ELSE 0)]
          /\ ret' = NoRet /\ UNCHANGED halted

FClose(s) ==
  /\ Running /\ s \in OpenStreams
  /\ locked' = locked \ {stream[s].file}
  /\ stream' = [stream EXCEPT ![s] = Closed]
  /\ ret' = NoRet /\ UNCHANGED <<files, data, halted>>

-----------------------------------------------------------------------------
(* Reading and writing through an open stream.                             *)

Data(s) == data[stream[s].file]
Size(s) == Len(Data(s))

\* The call moves the stream to index i, with the end-of-file flag e.
Seeked(s, i, e) ==
  /\ i <= MaxIndex
  /\ stream' = [stream EXCEPT ![s].index = i, ![s].eof = e]
  /\ UNCHANGED <<files, data, locked, halted>>

FRead(s, n) ==
  LET h == stream[s] IN
  /\ Running /\ s \in OpenStreams
  /\ \/ ~h.read /\ Halt("Trying to read from write mode file")
     \/ /\ h.read /\ ~h.eof /\ ret' = NoRet
        /\ IF h.index > Size(s) THEN Seeked(s, h.index, TRUE)
           ELSE Seeked(s, h.index + ReadCount(Data(s), n, h.index), FALSE)

FGetc(s) ==
  LET h == stream[s] IN
  /\ Running /\ s \in OpenStreams
  /\ \/ ~h.read /\ Halt("Trying to read from write mode file")
     \/ /\ h.read /\ ~h.eof /\ GetcFaults(Data(s), h.index)
        /\ Halt("Page Fault")
     \/ /\ h.read
        /\ \E c \in IF h.eof THEN {Eof} ELSE Getc(Data(s), h.index) :
             ret' = [call |-> "fgetc", value |-> c, ok |-> h.index < Size(s)]
        /\ h.eof \/ ~GetcFaults(Data(s), h.index)
        /\ Seeked(s, IF h.eof THEN h.index ELSE h.index + 1, h.eof)

\* Up to n characters, one getc each, until the index passes the end.
FGets(s, n) ==
  LET h == stream[s]
      stop == IF h.index + n > Size(s) + 1
              THEN IF h.index > Size(s) THEN h.index + 1 ELSE Size(s) + 1
              ELSE h.index + n
  IN
  /\ Running /\ s \in OpenStreams
  /\ \/ ~h.read /\ Halt("Trying to read from write mode file")
     \/ h.read /\ GetcFaults(Data(s), h.index) /\ Halt("Page Fault")
     \/ /\ h.read /\ ~GetcFaults(Data(s), h.index)
        /\ Seeked(s, stop, h.eof \/ stop > Size(s))
        /\ ret' = NoRet

Ungetc(s, c) ==
  LET h == stream[s] IN
  /\ Running /\ s \in OpenStreams
  /\ \/ ~h.read /\ Halt("Trying to ungetc into read mode file")
     \/ h.read /\ h.index > 0 /\ GetcFaults(Data(s), h.index - 1) /\ Halt("Page Fault")
     \/ /\ h.read /\ h.index > 0 /\ ~GetcFaults(Data(s), h.index - 1)
        /\ Getc(Data(s), h.index - 1) # {c}
        /\ Halt("fungetc unimplemented")
     \/ /\ h.read /\ h.index > 0 /\ ~GetcFaults(Data(s), h.index - 1)
        /\ c \in Getc(Data(s), h.index - 1)
        /\ Seeked(s, h.index - 1, h.eof)
        /\ ret' = NoRet

FWriteAppendAtIndex(s, buf) ==                        \* fault: append is write
  LET h == stream[s]
      start == IF h.eof THEN Size(s) ELSE h.index
  IN
  /\ Running /\ s \in OpenStreams
  /\ (h.write \/ h.append) /\ start + Len(buf) <= MaxSize
  /\ data' = [data EXCEPT ![h.file] = WriteAt(@, buf, start)]
  /\ stream' = [stream EXCEPT ![s].index = start + Len(buf)]
  /\ ret' = NoRet /\ UNCHANGED <<files, locked, halted>>

FWrite(s, buf) ==
  LET h == stream[s]
      start == IF h.append \/ h.eof THEN Size(s) ELSE h.index
  IN
  /\ Running /\ s \in OpenStreams
  /\ \/ ~(h.write \/ h.append) /\ Halt("Trying to write into read mode file")
     \/ /\ (h.write \/ h.append) /\ start + Len(buf) <= MaxSize
        /\ data' = [data EXCEPT ![h.file] = WriteAt(@, buf, start)]
        /\ stream' = [stream EXCEPT ![s].index = start + Len(buf)]
        /\ ret' = NoRet /\ UNCHANGED <<files, locked, halted>>

FSeekNoClamp(s, offset, origin) ==                    \* fault: before the start
  LET h == stream[s]
      to == IF origin = "SEEK_SET" THEN offset
            ELSE IF origin = "SEEK_CUR" THEN h.index + offset ELSE Size(s)
  IN
  /\ Running /\ s \in OpenStreams /\ h.read
  /\ ret' = NoRet /\ Seeked(s, to, to >= Size(s))

FSeekKeepsEof(s, offset, origin) ==                   \* fault: the flag not cleared
  LET h == stream[s]
      to == IF origin = "SEEK_SET" THEN offset
            ELSE IF origin = "SEEK_CUR" THEN h.index + offset ELSE Size(s)
  IN
  /\ Running /\ s \in OpenStreams /\ h.read /\ ret' = NoRet
  /\ IF to < 0 THEN Seeked(s, 0, h.eof) ELSE Seeked(s, to, h.eof \/ to >= Size(s))

FSeek(s, offset, origin) ==
  LET h == stream[s]
      to == IF origin = "SEEK_SET" THEN offset
            ELSE IF origin = "SEEK_CUR" THEN h.index + offset ELSE Size(s)
  IN
  /\ Running /\ s \in OpenStreams
  /\ \/ ~h.read /\ Halt("Trying to fseek write mode file")
     \/ /\ h.read /\ ret' = NoRet
        /\ IF to < 0 THEN Seeked(s, 0, FALSE) ELSE Seeked(s, to, to >= Size(s))

ClearErr(s) ==
  /\ Running /\ s \in OpenStreams
  /\ Seeked(s, stream[s].index, FALSE)
  /\ ret' = NoRet

-----------------------------------------------------------------------------
(* remove and rename.                                                      *)

Result(call, ok) == ret' = [call |-> call, value |-> IF ok THEN 1 ELSE 0, ok |-> ok]

Remove(n) ==
  /\ Running
  /\ \/ /\ ~Exists(n) /\ Result("remove", FALSE)
        /\ UNCHANGED <<files, data, locked, stream, halted>>
     \/ Exists(n) /\ files[n] \in locked /\ Halt("spins")
     \/ /\ Exists(n) /\ files[n] \notin locked
        /\ files' = [x \in DOMAIN files \ {n} |-> files[x]]
        /\ data' = [data EXCEPT ![files[n]] = <<>>]
        /\ Result("remove", TRUE) /\ UNCHANGED <<locked, stream, halted>>

RenameOver(n, m) ==                                   \* fault: an existing name goes
  /\ Running /\ Exists(n) /\ n # m /\ files[n] \notin locked
  /\ files' = [x \in (DOMAIN files \ {n}) \cup {m} |-> IF x = m THEN files[n] ELSE files[x]]
  /\ Result("rename", TRUE) /\ UNCHANGED <<data, locked, stream, halted>>

Rename(n, m) ==
  /\ Running
  /\ \/ /\ ~Exists(n) \/ Exists(m)
        /\ Result("rename", FALSE)
        /\ UNCHANGED <<files, data, locked, stream, halted>>
     \/ Exists(n) /\ ~Exists(m) /\ files[n] \in locked /\ Halt("spins")
     \/ /\ Exists(n) /\ ~Exists(m) /\ files[n] \notin locked
        /\ files' = [x \in (DOMAIN files \ {n}) \cup {m} |->
                       IF x = m THEN files[n] ELSE files[x]]
        /\ Result("rename", TRUE) /\ UNCHANGED <<data, locked, stream, halted>>

-----------------------------------------------------------------------------
Buffers == {<<b>> : b \in Bytes}

Chars == {Eof} \cup {Char(b) : b \in Bytes \cup {0}}

Next ==
  \/ \E s \in Streams :
       \/ \E n \in Names, m \in Modes : FOpen(s, n, m)
       \/ \E n \in 1 .. 2 : FRead(s, n) \/ FGets(s, n)
       \/ FGetc(s) \/ ClearErr(s) \/ FClose(s)
       \/ \E c \in Chars : Ungetc(s, c)
       \/ \E buf \in Buffers : FWrite(s, buf)
       \/ \E i \in -1 .. MaxIndex, o \in {"SEEK_SET", "SEEK_CUR", "SEEK_END"} : FSeek(s, i, o)
  \/ \E n \in Names : Remove(n) \/ \E m \in Names : Rename(n, m)

Spec == Init /\ [][Next]_vars

-----------------------------------------------------------------------------
(* Properties.                                                             *)

\* Type invariant.
TypeOK ==
  /\ DOMAIN files \subseteq Names /\ files \in [DOMAIN files -> Files]
  /\ data \in [Files -> Seq(Bytes \cup {0})]
  /\ \A f \in Files : Len(data[f]) <= MaxSize
  /\ locked \subseteq Files
  /\ stream \in [Streams -> HandleType \cup {Closed}]

\* A file is locked exactly while one stream has it open, and it is then still in
\* the table: fopen's plain pointer never outlives the file it points to.
LockedWhileOpen ==
  /\ TypeOK
  /\ locked = OpenFiles /\ OpenFiles \subseteq Stored
  /\ \A s, t \in OpenStreams : s # t => stream[s].file # stream[t].file

\* A set end-of-file flag means that the index is at the end or past it, as
\* fwrite takes it to.  Only ungetc, which steps back and leaves the flag alone
\* (:90-92), makes a flag stale.
StaleEof(s) == s \in OpenStreams /\ stream[s].eof /\ stream[s].index < Size(s)

EofAtEnd ==
  [][\A s \in OpenStreams : StaleEof(s)' =>
       StaleEof(s) \/ stream'[s].index = stream[s].index - 1]_vars

\* Wherever it was moved, a stream opened for append leaves the bytes that are
\* there alone.
AppendKeeps ==
  [][\A s \in OpenStreams : stream[s].append =>
       SubSeq(data'[stream[s].file], 1, Size(s)) = Data(s)]_vars

\* The promise of the C library (see FileAccess).
NamesOf(streams) == {n \in DOMAIN files : \E s \in streams : stream[s].file = files[n]}

Modifies(s) == stream[s].write \/ stream[s].append

Promise == INSTANCE FileAccess WITH
  Bytes   <- Bytes \cup {0},
  bytes   <- [n \in DOMAIN files |-> data[files[n]]],
  readers <- NamesOf({s \in OpenStreams : ~Modifies(s)}),
  writers <- NamesOf({s \in OpenStreams : Modifies(s)})

FileAccessSpec == Promise!Spec

-----------------------------------------------------------------------------
(* What comments and callers say.                                          *)

\* tedit_main.cpp:27 "while((c=fgetc(f))!=EOF){//reading per-character ... should
\* be ~fine~": fgetc returns EOF when no byte is left, and not before.
FgetcStopsAtEnd == ret.call = "fgetc" => (ret.value = Eof <=> ~ret.ok)

\* loslib.c:168,175 take remove(...) == 0 and rename(...) == 0 for success.
ZeroMeansDone == ret.call \in {"remove", "rename"} => (ret.value = 0 <=> ret.ok)
=============================================================================
