--------------------------- MODULE FileStore_proofs ---------------------------
(***************************************************************************)
(* Proofs about FileStore for every set of names, streams and bytes and    *)
(* every bound on files and indexes.                                       *)
(***************************************************************************)
EXTENDS FileStore, TLAPS, FiniteSetTheorems, FunctionTheorems, SequenceTheorems

Cells == Bytes \cup {0}
Contents == Seq(Cells)

\* No file has two names.
OneName == \A m, n \in DOMAIN files : files[m] = files[n] => m = n

\* The inductive invariant.
Inv == LockedWhileOpen /\ OneName

-----------------------------------------------------------------------------
(* The contents of a file.                                                 *)

\* What RamFS::FileHandle::write leaves is a sequence of bytes as long as the old
\* contents or the end of what was written, whichever is more.
LEMMA WriteType ==
  ASSUME NEW d \in Contents, NEW buf \in Contents, NEW offset \in Nat
  PROVE  /\ WriteAt(d, buf, offset) \in Contents
         /\ Len(WriteAt(d, buf, offset)) =
              IF Len(buf) + offset > Len(d) THEN Len(buf) + offset ELSE Len(d)
  <1> DEFINE needed == Len(buf) + offset
             n == IF needed > Len(d) THEN needed ELSE Len(d)
             w == [i \in 1 .. n |-> IF i \in offset + 1 .. needed THEN buf[i - offset]
                                    ELSE IF i <= Len(d) THEN d[i] ELSE 0]
  <1>1. Len(d) \in Nat /\ Len(buf) \in Nat /\ n \in Nat
    BY LenProperties DEF Contents
  <1>2. \A i \in 1 .. Len(d) : d[i] \in Cells
    BY ElementOfSeq DEF Contents
  <1>3. \A i \in 1 .. Len(buf) : buf[i] \in Cells
    BY ElementOfSeq DEF Contents
  <1>4. ASSUME NEW i \in 1 .. n PROVE w[i] \in Cells
    <2>1. CASE i \in offset + 1 .. needed
      <3>1. i - offset \in 1 .. Len(buf)
        BY <1>1, <2>1
      <3> QED BY <1>3, <2>1, <3>1
    <2>2. CASE i \notin offset + 1 .. needed
      BY <1>1, <1>2, <2>2 DEF Cells
    <2> QED BY <2>1, <2>2
  <1>5. w = WriteAt(d, buf, offset)
    BY DEF WriteAt
  <1>6. DOMAIN w = 1 .. n
    OBVIOUS
  <1>7. w \in [1 .. n -> Cells]
    BY <1>4
  <1> HIDE DEF n, w
  <1>8. w \in Contents /\ Len(w) = n
    BY <1>1, <1>6, <1>7 DEF Contents
  <1> QED BY <1>5, <1>8 DEF n

\* What is written from the end on leaves the old contents alone.
LEMMA WriteAtEnd ==
  ASSUME NEW d \in Contents, NEW buf \in Contents
  PROVE  SubSeq(WriteAt(d, buf, Len(d)), 1, Len(d)) = d
  <1> DEFINE w == WriteAt(d, buf, Len(d))
             t == SubSeq(w, 1, Len(d))
  <1>1. Len(d) \in Nat /\ Len(buf) \in Nat
    BY LenProperties DEF Contents
  <1>2. w \in Contents /\ Len(w) = IF Len(buf) + Len(d) > Len(d) THEN Len(buf) + Len(d) ELSE Len(d)
    BY <1>1, WriteType
  <1>3. \A i \in 1 .. Len(d) : w[i] = d[i]
    BY <1>1 DEF WriteAt
  <1> HIDE DEF w
  <1>4. Len(w) >= Len(d) /\ Len(w) \in Nat
    BY <1>1, <1>2
  <1>5. \A i \in 1 .. Len(d) : i \in 1 .. Len(w)
    BY <1>1, <1>4
  <1>6. t \in Contents /\ Len(t) = Len(d) /\ \A i \in 1 .. Len(d) : t[i] = w[i]
    BY <1>1, <1>2, <1>4, <1>5, SubSeqProperties DEF Contents
  <1> HIDE DEF t
  <1>7. t = d
    BY <1>3, <1>6, SeqEqual DEF Contents
  <1> QED BY <1>7 DEF t, w

-----------------------------------------------------------------------------
(* What fopen finds or makes.                                              *)

\* When a name is free there is a file that no name has.
LEMMA NewFileIsNew ==
  ASSUME Inv, NEW n \in Names \ DOMAIN files
  PROVE  NewFile \in Files /\ NewFile \notin Stored \cup OpenFiles
  <1>1. DOMAIN files \subseteq Names \ {n} /\ files \in [DOMAIN files -> Files]
    BY DEF Inv, LockedWhileOpen, TypeOK
  <1>2. IsFiniteSet(Names) /\ IsFiniteSet(Files) /\ Cardinality(Names) <= Cardinality(Files)
    BY FileAssumption
  <1>3. /\ IsFiniteSet(Names \ {n}) /\ Cardinality(Names \ {n}) = Cardinality(Names) - 1
    BY <1>2, FS_RemoveElement
  <1>4. /\ IsFiniteSet(DOMAIN files) /\ Cardinality(DOMAIN files) <= Cardinality(Names \ {n})
    BY <1>1, <1>3, FS_Subset
  <1>5. ~(Files \subseteq Stored)
    <2> SUFFICES ASSUME Files \subseteq Stored PROVE FALSE
      OBVIOUS
    <2>1. files \in Surjection(DOMAIN files, Files)
      BY <1>1 DEF Surjection, Stored
    <2>2. Cardinality(Files) <= Cardinality(DOMAIN files)
      BY <1>4, <2>1, FS_Surjection
    <2>3. Cardinality(Names) \in Nat /\ Cardinality(Files) \in Nat /\ Cardinality(DOMAIN files) \in Nat
      BY <1>2, <1>4, FS_CardinalityType
    <2> QED BY <1>2, <1>3, <1>4, <2>2, <2>3
  <1>6. \E f \in Files : f \notin Stored \cup OpenFiles
    BY <1>5 DEF Inv, LockedWhileOpen
  <1> QED BY <1>6 DEF NewFile

\* A file fopen works on has no other name than the one it was opened by.
LEMMA ResolvedType ==
  ASSUME Inv, NEW n \in Names, NEW m \in Modes, NEW f \in Resolved(n, m)
  PROVE  /\ f \in Files
         /\ Exists(n) => f = files[n]
         /\ ~Exists(n) => f \notin Stored
         /\ \A l \in DOMAIN files : files[l] = f => l = n
  <1>1. CASE Exists(n)
    <2>1. f = files[n]
      BY <1>1 DEF Resolved
    <2> QED BY <1>1, <2>1 DEF Inv, OneName, Exists, LockedWhileOpen, TypeOK
  <1>2. CASE ~Exists(n)
    <2>1. f = NewFile
      BY <1>2 DEF Resolved
    <2> QED BY <1>2, <2>1, NewFileIsNew DEF Exists, Stored
  <1> QED BY <1>1, <1>2

-----------------------------------------------------------------------------
(* The steps, described by what the proofs need of them.                   *)

\* A stream's handle: open, and with a file, an index and four flags.
LEMMA OpenType ==
  ASSUME TypeOK, NEW s \in OpenStreams
  PROVE  /\ s \in Streams /\ stream[s] \in HandleType /\ stream[s] # Closed
         /\ stream[s].file \in Files /\ stream[s].file \in OpenFiles
         /\ stream[s].index \in Nat /\ stream[s].index <= MaxIndex
         /\ stream[s].eof \in BOOLEAN
         /\ Data(s) \in Contents /\ Size(s) \in Nat /\ Size(s) <= MaxSize
  <1>1. s \in Streams /\ stream[s] \in HandleType /\ stream[s] # Closed
    BY DEF OpenStreams, TypeOK
  <1>2. /\ stream[s].file \in Files /\ stream[s].index \in 0 .. MaxIndex
        /\ stream[s].eof \in BOOLEAN
    BY <1>1 DEF HandleType
  <1>3. stream[s].file \in OpenFiles
    BY DEF OpenFiles
  <1>4. Data(s) \in Contents /\ Size(s) <= MaxSize
    BY <1>2 DEF TypeOK, Data, Size, Contents, Cells
  <1>5. Size(s) \in Nat
    BY <1>4, LenProperties DEF Size, Contents
  <1> QED BY <1>1, <1>2, <1>3, <1>4, <1>5, FileAssumption

\* The stream keeps its file and its mode, and nothing else moves: fread, fgetc,
\* fgets, ungetc, fseek and clearerr.  A flag that the step leaves set is at the end,
\* or was stale already, or the step is ungetc's.
Moves(s) ==
  /\ s \in OpenStreams /\ UNCHANGED <<files, data, locked>>
  /\ \E i \in 0 .. MaxIndex, e \in BOOLEAN :
       /\ (e /\ i < Size(s)) => (StaleEof(s) \/ i = stream[s].index - 1)
       /\ stream' = [stream EXCEPT ![s].index = i, ![s].eof = e]

\* fwrite: the bytes go to index or, for an appending stream or one at its end,
\* to the end of the file.
Puts(s, buf) ==
  LET h == stream[s]
      start == IF h.append \/ h.eof THEN Size(s) ELSE h.index
  IN
  /\ s \in OpenStreams /\ buf \in Contents /\ UNCHANGED <<files, locked>>
  /\ h.write \/ h.append
  /\ start + Len(buf) <= MaxSize
  /\ data' = [data EXCEPT ![h.file] = WriteAt(@, buf, start)]
  /\ stream' = [stream EXCEPT ![s].index = start + Len(buf)]

Opens(s, n, m, f) ==
  LET d == IF Truncates(m) \/ ~Exists(n) THEN <<>> ELSE data[f] IN
  /\ s \in Streams /\ stream[s] = Closed /\ f \in Resolved(n, m) /\ f \notin locked
  /\ files' = [x \in DOMAIN files \cup {n} |-> IF x = n THEN f ELSE files[x]]
  /\ data' = [data EXCEPT ![f] = d]
  /\ locked' = locked \cup {f}
  /\ stream' = [stream EXCEPT ![s] = Handle(f, m, IF Appends(m) THEN Len(d) ELSE 0)]

Removes(n) ==
  /\ Exists(n) /\ files[n] \notin locked /\ UNCHANGED <<locked, stream>>
  /\ files' = [x \in DOMAIN files \ {n} |-> files[x]]
  /\ data' = [data EXCEPT ![files[n]] = <<>>]

Renames(n, m) ==
  /\ Exists(n) /\ ~Exists(m) /\ files[n] \notin locked /\ UNCHANGED <<data, locked, stream>>
  /\ files' = [x \in (DOMAIN files \ {n}) \cup {m} |-> IF x = m THEN files[n] ELSE files[x]]

Stays == UNCHANGED <<files, data, locked, stream>>

\* The stream can stand where it is told to.
LEMMA SeekedMoves ==
  ASSUME NEW s \in OpenStreams, NEW i \in Nat, NEW e \in BOOLEAN, Seeked(s, i, e),
         e /\ i < Size(s) => StaleEof(s) \/ i = stream[s].index - 1
  PROVE  Moves(s)
  <1>1. i \in 0 .. MaxIndex
    BY FileAssumption DEF Seeked
  <1> QED BY <1>1 DEF Seeked, Moves

LEMMA ReadMoves ==
  ASSUME Inv, NEW s \in Streams, NEW n \in 1 .. 2, FRead(s, n)
  PROVE  Stays \/ Moves(s)
  <1>1. CASE Halt("Trying to read from write mode file")
    BY <1>1 DEF Halt, Stays
  <1>2. CASE ~Halt("Trying to read from write mode file")
    <2>1. s \in OpenStreams
      BY DEF FRead
    <2>2. stream[s].index \in Nat /\ Size(s) \in Nat
      BY <2>1, OpenType DEF Inv, LockedWhileOpen
    <2>3. CASE stream[s].index > Size(s)
      <3>1. Seeked(s, stream[s].index, TRUE)
        BY <1>2, <2>3 DEF FRead
      <3>2. ~(stream[s].index < Size(s))
        BY <2>2, <2>3
      <3> QED BY <2>1, <2>2, <3>1, <3>2, SeekedMoves
    <2>4. CASE ~(stream[s].index > Size(s))
      <3>1. ReadCount(Data(s), n, stream[s].index) \in Nat
        BY <2>2, <2>4 DEF ReadCount, Size
      <3>2. stream[s].index + ReadCount(Data(s), n, stream[s].index) \in Nat
        BY <2>2, <3>1
      <3>3. Seeked(s, stream[s].index + ReadCount(Data(s), n, stream[s].index), FALSE)
        BY <1>2, <2>4 DEF FRead
      <3> QED BY <2>1, <3>2, <3>3, SeekedMoves
    <2> QED BY <2>3, <2>4
  <1> QED BY <1>1, <1>2

LEMMA GetcMoves ==
  ASSUME Inv, NEW s \in Streams, FGetc(s)
  PROVE  Stays \/ Moves(s)
  <1> DEFINE h == stream[s]
             i == IF h.eof THEN h.index ELSE h.index + 1
  <1>1. CASE Halt("Trying to read from write mode file") \/ Halt("Page Fault")
    BY <1>1 DEF Halt, Stays
  <1>2. CASE Seeked(s, i, h.eof)
    <2>1. s \in OpenStreams /\ h.index \in Nat /\ Size(s) \in Nat /\ h.eof \in BOOLEAN
      BY OpenType DEF FGetc, Inv, LockedWhileOpen
    <2>2. i \in Nat
      BY <2>1
    <2>3. h.eof /\ i < Size(s) => StaleEof(s)
      BY <2>1 DEF StaleEof
    <2> QED BY <1>2, <2>1, <2>2, <2>3, SeekedMoves
  <1> QED BY <1>1, <1>2 DEF FGetc

LEMMA GetsMoves ==
  ASSUME Inv, NEW s \in Streams, NEW n \in 1 .. 2, FGets(s, n)
  PROVE  Stays \/ Moves(s)
  <1> DEFINE h == stream[s]
             stop == IF h.index + n > Size(s) + 1
                     THEN IF h.index > Size(s) THEN h.index + 1 ELSE Size(s) + 1
                     ELSE h.index + n
             e == h.eof \/ stop > Size(s)
  <1>1. CASE Halt("Trying to read from write mode file") \/ Halt("Page Fault")
    BY <1>1 DEF Halt, Stays
  <1>2. CASE Seeked(s, stop, e)
    <2>1. s \in OpenStreams /\ h.index \in Nat /\ Size(s) \in Nat /\ h.eof \in BOOLEAN
      BY OpenType DEF FGets, Inv, LockedWhileOpen
    <2>2. stop \in Nat
      BY <2>1
    <2>3. e /\ stop < Size(s) => StaleEof(s)
      BY <2>1 DEF StaleEof
    <2>4. e \in BOOLEAN
      OBVIOUS
    <2> HIDE DEF stop, e
    <2> QED BY <1>2, <2>1, <2>2, <2>3, <2>4, SeekedMoves
  <1> QED BY <1>1, <1>2 DEF FGets

LEMMA UngetcMoves ==
  ASSUME Inv, NEW s \in Streams, NEW c \in Chars, Ungetc(s, c)
  PROVE  Stays \/ Moves(s)
  <1> DEFINE h == stream[s]
  <1>1. CASE \E why \in {"Trying to ungetc into read mode file", "Page Fault",
                         "fungetc unimplemented"} : Halt(why)
    BY <1>1 DEF Halt, Stays
  <1>2. CASE h.index > 0 /\ Seeked(s, h.index - 1, h.eof)
    <2>1. s \in OpenStreams /\ h.index \in Nat /\ h.eof \in BOOLEAN
      BY OpenType DEF Ungetc, Inv, LockedWhileOpen
    <2>2. h.index - 1 \in Nat
      BY <1>2, <2>1
    <2> QED BY <1>2, <2>1, <2>2, SeekedMoves
  <1> QED BY <1>1, <1>2 DEF Ungetc

LEMMA SeekMoves ==
  ASSUME Inv, NEW s \in Streams, NEW offset \in -1 .. MaxIndex,
         NEW origin \in {"SEEK_SET", "SEEK_CUR", "SEEK_END"}, FSeek(s, offset, origin)
  PROVE  Stays \/ Moves(s)
  <1> DEFINE h == stream[s]
             to == IF origin = "SEEK_SET" THEN offset
                   ELSE IF origin = "SEEK_CUR" THEN h.index + offset ELSE Size(s)
  <1>1. CASE Halt("Trying to fseek write mode file")
    BY <1>1 DEF Halt, Stays
  <1>2. CASE IF to < 0 THEN Seeked(s, 0, FALSE) ELSE Seeked(s, to, to >= Size(s))
    <2>1. s \in OpenStreams /\ h.index \in Nat /\ Size(s) \in Nat
      BY OpenType DEF FSeek, Inv, LockedWhileOpen
    <2>2. to \in Int
      BY <2>1, FileAssumption
    <2> HIDE DEF to
    <2>3. CASE to < 0
      BY <1>2, <2>1, <2>3, SeekedMoves
    <2>4. CASE ~(to < 0)
      <3>1. to \in Nat /\ (to >= Size(s)) \in BOOLEAN
        BY <2>2, <2>4
      <3>2. to >= Size(s) => ~(to < Size(s))
        BY <2>1, <2>2
      <3> QED BY <1>2, <2>1, <2>4, <3>1, <3>2, SeekedMoves
    <2> QED BY <2>3, <2>4
  <1> QED BY <1>1, <1>2 DEF FSeek

LEMMA ClearErrMoves ==
  ASSUME Inv, NEW s \in Streams, ClearErr(s)
  PROVE  Moves(s)
  BY OpenType, SeekedMoves DEF ClearErr, Inv, LockedWhileOpen

\* What every step is, for the invariant, the action properties and the promise.
LEMMA Steps ==
  ASSUME Inv, [Next]_vars
  PROVE  \/ Stays
         \/ \E s \in Streams : Moves(s) \/ FClose(s) \/ \E buf \in Contents : Puts(s, buf)
         \/ \E s \in Streams, n \in Names, m \in Modes : \E f \in Resolved(n, m) : Opens(s, n, m, f)
         \/ \E n \in Names : Removes(n) \/ \E m \in Names : Renames(n, m)
  <1>1. ASSUME NEW s \in Streams, NEW n \in Names, NEW m \in Modes, FOpen(s, n, m)
        PROVE  Stays \/ \E f \in Resolved(n, m) : Opens(s, n, m, f)
    BY <1>1 DEF FOpen, Halt, Stays, Opens
  <1>2. ASSUME NEW s \in Streams, NEW buf \in Buffers, FWrite(s, buf)
        PROVE  Stays \/ (Puts(s, buf) /\ buf \in Contents)
    <2>1. buf \in Contents
      BY DEF Buffers, Contents, Cells
    <2> QED BY <1>2, <2>1 DEF FWrite, Halt, Stays, Puts
  <1>3. ASSUME NEW n \in Names, Remove(n) PROVE Stays \/ Removes(n)
    BY <1>3 DEF Remove, Halt, Stays, Removes
  <1>4. ASSUME NEW n \in Names, NEW m \in Names, Rename(n, m) PROVE Stays \/ Renames(n, m)
    BY <1>4 DEF Rename, Halt, Stays, Renames
  <1>5. CASE UNCHANGED vars
    BY <1>5 DEF vars, Stays
  <1> QED BY <1>1, <1>2, <1>3, <1>4, <1>5, ReadMoves, GetcMoves, GetsMoves, UngetcMoves,
             SeekMoves, ClearErrMoves DEF Next

-----------------------------------------------------------------------------
(* The invariant is kept.                                                  *)

\* At the start there is no file and no stream.
LEMMA InvStart == Init => Inv
  <1> SUFFICES ASSUME Init PROVE Inv
    OBVIOUS
  <1>1. TypeOK
    <2>1. <<>> \in Contents /\ Len(<<>>) = 0
      BY EmptySeq DEF Contents
    <2> QED BY <2>1, FileAssumption DEF Init, TypeOK, Contents, Cells
  <1>2. OpenStreams = {}
    BY DEF Init, OpenStreams
  <1> QED BY <1>1, <1>2 DEF Init, Inv, LockedWhileOpen, OneName, OpenFiles, Stored

\* What the other parts of the invariant depend on.
Fixed == UNCHANGED <<files, locked>> /\ OpenStreams' = OpenStreams
         /\ \A s \in OpenStreams : stream'[s].file = stream[s].file

LEMMA FixedKeeps ==
  ASSUME Inv, Fixed, TypeOK'
  PROVE  Inv'
  <1>1. OpenFiles' = OpenFiles
    BY DEF Fixed, OpenFiles
  <1>2. Stored' = Stored /\ OneName' /\ locked' = locked
    BY DEF Fixed, Stored, OneName, Inv
  <1>3. \A s, t \in OpenStreams' : s # t => stream'[s].file # stream'[t].file
    BY DEF Fixed, Inv, LockedWhileOpen
  <1> QED BY <1>1, <1>2, <1>3 DEF Inv, LockedWhileOpen

\* The stream is at index i, with the flag e.
StandsAt(s, i, e) == stream' = [stream EXCEPT ![s].index = i, ![s].eof = e]

\* A handle whose index and flag change is a handle.
LEMMA HandleMoves ==
  ASSUME TypeOK, NEW s \in OpenStreams, NEW i \in 0 .. MaxIndex, NEW e \in BOOLEAN,
         StandsAt(s, i, e)
  PROVE  /\ stream' \in [Streams -> HandleType \cup {Closed}]
         /\ OpenStreams' = OpenStreams
         /\ \A t \in OpenStreams :
              /\ stream'[t].file = stream[t].file
              /\ stream'[t].write = stream[t].write /\ stream'[t].append = stream[t].append
         /\ \A t \in OpenStreams \ {s} : stream'[t] = stream[t]
         /\ stream'[s].index = i /\ stream'[s].eof = e
  <1> DEFINE h == [stream[s] EXCEPT !.index = i, !.eof = e]
  <1>1. s \in Streams /\ stream[s] \in HandleType /\ stream \in [Streams -> HandleType \cup {Closed}]
    BY OpenType DEF TypeOK
  <1>2. /\ h \in HandleType /\ h.index = i /\ h.eof = e /\ h.file = stream[s].file
        /\ h.write = stream[s].write /\ h.append = stream[s].append
    BY <1>1 DEF HandleType
  <1>3. stream' = [stream EXCEPT ![s] = h]
    BY <1>1 DEF StandsAt
  <1> HIDE DEF h
  <1>4. h # Closed
    BY <1>2, ClosedIsNoHandle
  <1>5. stream'[s] = h /\ \A t \in Streams \ {s} : stream'[t] = stream[t]
    BY <1>1, <1>3
  <1>6. OpenStreams' = OpenStreams
    BY <1>4, <1>5 DEF OpenStreams
  <1> QED BY <1>1, <1>2, <1>3, <1>5, <1>6 DEF OpenStreams

LEMMA MovesKeeps ==
  ASSUME Inv, NEW s \in Streams, Moves(s)
  PROVE  Inv'
  <1>1. TypeOK /\ s \in OpenStreams /\ UNCHANGED <<files, data, locked>>
    BY DEF Inv, LockedWhileOpen, Moves
  <1>2. PICK i \in 0 .. MaxIndex, e \in BOOLEAN : StandsAt(s, i, e)
    BY DEF Moves, StandsAt
  <1>3. /\ stream' \in [Streams -> HandleType \cup {Closed}] /\ OpenStreams' = OpenStreams
        /\ \A t \in OpenStreams : stream'[t].file = stream[t].file
    BY <1>1, <1>2, HandleMoves
  <1>4. TypeOK'
    BY <1>1, <1>3 DEF TypeOK
  <1> QED BY <1>1, <1>3, <1>4, FixedKeeps DEF Fixed

\* What fwrite does, and where it leaves the stream.
LEMMA PutsFacts ==
  ASSUME Inv, NEW s \in Streams, NEW buf \in Contents, Puts(s, buf)
  PROVE  /\ Inv' /\ s \in OpenStreams /\ (stream[s].write \/ stream[s].append)
         /\ files' = files /\ OpenStreams' = OpenStreams
         /\ \A t \in OpenStreams :
              /\ stream'[t].file = stream[t].file
              /\ stream'[t].write = stream[t].write /\ stream'[t].append = stream[t].append
         /\ \A t \in OpenStreams \ {s} : stream'[t] = stream[t]
         /\ stream'[s].eof = stream[s].eof
         /\ data' \in [Files -> Contents]
         /\ \A f \in Files \ {stream[s].file} : data'[f] = data[f]
         /\ stream[s].eof => ~(stream'[s].index < Size(s)')
         /\ stream[s].append =>
              data'[stream[s].file] = WriteAt(Data(s), buf, Size(s))
  <1> DEFINE h == stream[s]
             start == IF h.append \/ h.eof THEN Size(s) ELSE h.index
             w == WriteAt(Data(s), buf, start)
  <1>1. /\ TypeOK /\ s \in OpenStreams /\ UNCHANGED <<files, locked>>
        /\ start + Len(buf) <= MaxSize
        /\ data' = [data EXCEPT ![h.file] = WriteAt(@, buf, start)]
        /\ stream' = [stream EXCEPT ![s].index = start + Len(buf)]
    BY DEF Inv, LockedWhileOpen, Puts
  <1>2. /\ h \in HandleType /\ h.file \in Files /\ h.index \in Nat /\ h.eof \in BOOLEAN
        /\ Data(s) \in Contents /\ Size(s) \in Nat /\ Size(s) <= MaxSize
    BY <1>1, OpenType
  <1>3. start \in Nat /\ Len(buf) \in Nat
    BY <1>2, LenProperties DEF Contents
  <1>4. data \in [Files -> Contents]
    BY <1>1 DEF TypeOK, Contents, Cells
  <1>5. data' = [data EXCEPT ![h.file] = w]
    BY <1>1, <1>2, <1>4 DEF Data
  <1>6. w \in Contents /\ Len(w) = IF Len(buf) + start > Size(s) THEN Len(buf) + start ELSE Size(s)
    BY <1>2, <1>3, WriteType DEF Size
  <1> HIDE DEF w
  <1>7. start + Len(buf) \in 0 .. MaxIndex
    BY <1>1, <1>3, FileAssumption
  <1>8. stream' = [stream EXCEPT ![s].index = start + Len(buf), ![s].eof = h.eof]
    <2>1. [h EXCEPT !.index = start + Len(buf)] = [h EXCEPT !.index = start + Len(buf), !.eof = h.eof]
      BY <1>2 DEF HandleType
    <2> QED BY <1>1, <2>1
  <1>9. /\ stream' \in [Streams -> HandleType \cup {Closed}] /\ OpenStreams' = OpenStreams
        /\ \A t \in OpenStreams :
              /\ stream'[t].file = stream[t].file
              /\ stream'[t].write = stream[t].write /\ stream'[t].append = stream[t].append
        /\ \A t \in OpenStreams \ {s} : stream'[t] = stream[t]
        /\ stream'[s].index = start + Len(buf) /\ stream'[s].eof = h.eof
    <2> DEFINE i == start + Len(buf)
               e == h.eof
    <2>1. i \in 0 .. MaxIndex /\ e \in BOOLEAN
      BY <1>2, <1>7
    <2>2. StandsAt(s, i, e)
      BY <1>8 DEF StandsAt
    <2> HIDE DEF i, e
    <2>3. /\ stream' \in [Streams -> HandleType \cup {Closed}] /\ OpenStreams' = OpenStreams
          /\ \A t \in OpenStreams :
                /\ stream'[t].file = stream[t].file
                /\ stream'[t].write = stream[t].write /\ stream'[t].append = stream[t].append
          /\ \A t \in OpenStreams \ {s} : stream'[t] = stream[t]
          /\ stream'[s].index = i /\ stream'[s].eof = e
      BY <1>1, <2>1, <2>2, HandleMoves
    <2> QED BY <2>3 DEF i, e
  <1>10. /\ data' \in [Files -> Contents] /\ data'[h.file] = w
         /\ \A f \in Files \ {h.file} : data'[f] = data[f]
    BY <1>2, <1>4, <1>5, <1>6
  <1>11. Len(w) <= MaxSize
    BY <1>1, <1>2, <1>3, <1>6
  <1>12. TypeOK'
    BY <1>1, <1>9, <1>10, <1>11 DEF TypeOK, Contents, Cells
  <1>13. Inv'
    BY <1>1, <1>9, <1>12, FixedKeeps DEF Fixed
  <1>14. h.eof => ~(stream'[s].index < Size(s)')
    <2>1. Size(s)' = Len(w)
      BY <1>1, <1>9, <1>10 DEF Size, Data
    <2>2. h.eof => start = Size(s)
      OBVIOUS
    <2> HIDE DEF start
    <2> QED BY <1>2, <1>3, <1>6, <1>9, <2>1, <2>2
  <1>15. h.append => w = WriteAt(Data(s), buf, Size(s))
    BY DEF w
  <1> QED BY <1>1, <1>9, <1>10, <1>13, <1>14, <1>15 DEF Puts

\* What fopen does: a file no stream has open gets a name, if it had none, and a
\* stream; other files and streams are left alone.
Opened(s, n, m, f) ==
  /\ s \notin OpenStreams /\ OpenStreams' = OpenStreams \cup {s}
  /\ \A t \in OpenStreams : stream'[t] = stream[t] /\ stream[t].file # f
  /\ stream'[s].file = f /\ stream'[s].eof = FALSE
  /\ stream'[s].write = Writes(m) /\ stream'[s].append = Appends(m)
  /\ DOMAIN files' = DOMAIN files \cup {n} /\ files'[n] = f
  /\ \A l \in DOMAIN files \ {n} : files'[l] = files[l] /\ files[l] # f
  /\ \A g \in Files \ {f} : data'[g] = data[g]
  /\ data'[f] = IF Truncates(m) \/ ~Exists(n) THEN <<>> ELSE data[f]

LEMMA OpensFacts ==
  ASSUME Inv, NEW s \in Streams, NEW n \in Names, NEW m \in Modes, NEW f \in Resolved(n, m),
         Opens(s, n, m, f)
  PROVE  Inv' /\ Opened(s, n, m, f)
  <1> DEFINE d == IF Truncates(m) \/ ~Exists(n) THEN <<>> ELSE data[f]
             i == IF Appends(m) THEN Len(d) ELSE 0
             h == Handle(f, m, i)
  <1>1. /\ TypeOK /\ OneName /\ locked = OpenFiles /\ OpenFiles \subseteq Stored
        /\ \A t, u \in OpenStreams : t # u => stream[t].file # stream[u].file
    BY DEF Inv, LockedWhileOpen
  <1>2. /\ f \in Files /\ (Exists(n) => f = files[n]) /\ (~Exists(n) => f \notin Stored)
        /\ \A l \in DOMAIN files : files[l] = f => l = n
    BY ResolvedType
  <1>3. /\ stream[s] = Closed /\ f \notin locked
        /\ files' = [x \in DOMAIN files \cup {n} |-> IF x = n THEN f ELSE files[x]]
        /\ data' = [data EXCEPT ![f] = d]
        /\ locked' = locked \cup {f}
        /\ stream' = [stream EXCEPT ![s] = h]
    BY DEF Opens
  <1>4. data \in [Files -> Contents] /\ stream \in [Streams -> HandleType \cup {Closed}]
    BY <1>1 DEF TypeOK, Contents, Cells
  <1>5. d \in Contents /\ Len(d) \in Nat /\ Len(d) <= MaxSize
    <2>1. data[f] \in Contents /\ Len(data[f]) \in Nat /\ Len(data[f]) <= MaxSize
      BY <1>1, <1>2, <1>4, LenProperties DEF TypeOK, Contents
    <2>2. <<>> \in Contents /\ Len(<<>>) = 0
      BY EmptySeq DEF Contents
    <2> QED BY <2>1, <2>2, FileAssumption
  <1> HIDE DEF d
  <1>6. i \in 0 .. MaxIndex
    BY <1>5, FileAssumption
  <1> HIDE DEF i
  <1>7. /\ h \in HandleType /\ h.file = f /\ h.eof = FALSE
        /\ h.write = Writes(m) /\ h.append = Appends(m)
    BY <1>2, <1>6 DEF HandleType, Handle, Reads, Writes, Appends
  <1> HIDE DEF h
  <1>8. h # Closed
    BY <1>7, ClosedIsNoHandle
  <1>9. stream'[s] = h /\ \A t \in Streams \ {s} : stream'[t] = stream[t]
    BY <1>3, <1>4
  <1>10. s \notin OpenStreams /\ OpenStreams' = OpenStreams \cup {s}
    BY <1>3, <1>8, <1>9 DEF OpenStreams
  <1>11. f \notin OpenFiles /\ OpenFiles' = OpenFiles \cup {f}
    <2>1. \A t \in OpenStreams : stream'[t] = stream[t]
      BY <1>9, <1>10 DEF OpenStreams
    <2> QED BY <1>1, <1>3, <1>7, <1>9, <1>10, <2>1 DEF OpenFiles
  <1>12. \A t \in OpenStreams : stream'[t] = stream[t] /\ stream[t].file # f
    BY <1>9, <1>10, <1>11 DEF OpenStreams, OpenFiles
  <1>13. /\ DOMAIN files' = DOMAIN files \cup {n} /\ files'[n] = f
         /\ \A l \in DOMAIN files \ {n} : files'[l] = files[l] /\ files[l] # f
    BY <1>2, <1>3
  <1>14. /\ data' \in [Files -> Contents] /\ data'[f] = d
         /\ \A g \in Files \ {f} : data'[g] = data[g]
    BY <1>2, <1>3, <1>4, <1>5
  <1>15. TypeOK'
    <2>1. DOMAIN files' \subseteq Names /\ files' \in [DOMAIN files' -> Files]
      BY <1>1, <1>2, <1>3 DEF TypeOK
    <2>2. \A g \in Files : Len(data'[g]) <= MaxSize
      BY <1>1, <1>5, <1>14 DEF TypeOK
    <2>3. locked' \subseteq Files /\ stream' \in [Streams -> HandleType \cup {Closed}]
      BY <1>1, <1>2, <1>3, <1>4, <1>7 DEF TypeOK
    <2> QED BY <1>14, <2>1, <2>2, <2>3 DEF TypeOK, Contents, Cells
  <1>16. OneName'
    BY <1>1, <1>13 DEF OneName
  <1>17. OpenFiles' \subseteq Stored'
    <2>1. ASSUME NEW g \in OpenFiles PROVE g \in Stored'
      <3>1. PICK l \in DOMAIN files : g = files[l]
        BY <1>1 DEF Stored
      <3>2. g = files'[l] /\ l \in DOMAIN files'
        <4>1. CASE l = n
          BY <1>2, <1>13, <3>1, <4>1 DEF Exists
        <4>2. CASE l # n
          BY <1>13, <3>1, <4>2
        <4> QED BY <4>1, <4>2
      <3> QED BY <3>2 DEF Stored
    <2>2. f \in Stored'
      BY <1>13 DEF Stored
    <2> QED BY <1>11, <2>1, <2>2
  <1>18. \A t, u \in OpenStreams' : t # u => stream'[t].file # stream'[u].file
    BY <1>1, <1>7, <1>9, <1>10, <1>12
  <1>19. Inv'
    BY <1>1, <1>3, <1>11, <1>15, <1>16, <1>17, <1>18 DEF Inv, LockedWhileOpen
  <1> QED BY <1>7, <1>9, <1>10, <1>12, <1>13, <1>14, <1>19 DEF d, Opened

\* What fclose does.
LEMMA CloseFacts ==
  ASSUME Inv, NEW s \in Streams, FClose(s)
  PROVE  /\ Inv' /\ s \in OpenStreams /\ OpenStreams' = OpenStreams \ {s}
         /\ \A t \in OpenStreams \ {s} : stream'[t] = stream[t]
         /\ files' = files /\ data' = data
  <1>1. /\ TypeOK /\ OneName /\ locked = OpenFiles /\ OpenFiles \subseteq Stored
        /\ \A t, u \in OpenStreams : t # u => stream[t].file # stream[u].file
    BY DEF Inv, LockedWhileOpen
  <1>2. /\ s \in OpenStreams /\ locked' = locked \ {stream[s].file}
        /\ stream' = [stream EXCEPT ![s] = Closed] /\ UNCHANGED <<files, data>>
    BY DEF FClose
  <1>3. stream'[s] = Closed /\ \A t \in Streams \ {s} : stream'[t] = stream[t]
    BY <1>1, <1>2 DEF TypeOK
  <1>4. OpenStreams' = OpenStreams \ {s}
    BY <1>3 DEF OpenStreams
  <1>5. \A t \in OpenStreams \ {s} : stream'[t] = stream[t]
    BY <1>3 DEF OpenStreams
  <1>6. OpenFiles' = OpenFiles \ {stream[s].file}
    BY <1>1, <1>2, <1>4, <1>5 DEF OpenFiles
  <1>7. TypeOK'
    BY <1>1, <1>2 DEF TypeOK
  <1>8. OneName' /\ Stored' = Stored
    BY <1>1, <1>2 DEF OneName, Stored
  <1>9. Inv'
    BY <1>1, <1>2, <1>4, <1>5, <1>6, <1>7, <1>8 DEF Inv, LockedWhileOpen
  <1> QED BY <1>2, <1>4, <1>5, <1>9

\* Streams are not touched by remove and rename.
LEMMA StreamsStay ==
  ASSUME UNCHANGED stream
  PROVE  OpenStreams' = OpenStreams /\ OpenFiles' = OpenFiles
  BY DEF OpenStreams, OpenFiles

\* What remove does: the file of the name is no stream's.
LEMMA RemoveFacts ==
  ASSUME Inv, NEW n \in Names, Removes(n)
  PROVE  /\ Inv' /\ n \in DOMAIN files /\ files[n] \in Files /\ files[n] \notin OpenFiles
         /\ DOMAIN files' = DOMAIN files \ {n}
         /\ \A l \in DOMAIN files \ {n} : files'[l] = files[l] /\ files[l] # files[n]
         /\ \A g \in Files \ {files[n]} : data'[g] = data[g]
         /\ stream' = stream
  <1>1. /\ TypeOK /\ OneName /\ locked = OpenFiles /\ OpenFiles \subseteq Stored
        /\ \A t, u \in OpenStreams : t # u => stream[t].file # stream[u].file
    BY DEF Inv, LockedWhileOpen
  <1>2. /\ n \in DOMAIN files /\ files[n] \notin locked /\ locked' = locked /\ stream' = stream
        /\ files' = [x \in DOMAIN files \ {n} |-> files[x]]
        /\ data' = [data EXCEPT ![files[n]] = <<>>]
    BY DEF Removes, Exists
  <1>3. files[n] \in Files
    BY <1>1, <1>2 DEF TypeOK
  <1>4. \A l \in DOMAIN files \ {n} : files'[l] = files[l] /\ files[l] # files[n]
    BY <1>1, <1>2 DEF OneName
  <1>5. /\ \A g \in Files \ {files[n]} : data'[g] = data[g]
        /\ data'[files[n]] = <<>> /\ data' \in [Files -> Contents]
    <2>1. <<>> \in Contents /\ data \in [Files -> Contents]
      BY <1>1, EmptySeq DEF TypeOK, Contents, Cells
    <2> QED BY <1>2, <1>3, <2>1
  <1>6. TypeOK'
    <2>1. \A g \in Files : Len(data'[g]) <= MaxSize
      BY <1>1, <1>5, EmptySeq, FileAssumption DEF TypeOK
    <2>2. DOMAIN files' \subseteq Names /\ files' \in [DOMAIN files' -> Files]
      BY <1>1, <1>2 DEF TypeOK
    <2> QED BY <1>1, <1>2, <1>5, <2>1, <2>2 DEF TypeOK, Contents, Cells
  <1>7. OneName'
    BY <1>1, <1>2, <1>4 DEF OneName
  <1>8. OpenFiles' \subseteq Stored'
    <2>1. ASSUME NEW g \in OpenFiles PROVE g \in Stored'
      <3>1. PICK l \in DOMAIN files : g = files[l]
        BY <1>1 DEF Stored
      <3>2. l # n
        BY <1>1, <1>2, <3>1
      <3> QED BY <1>2, <1>4, <3>1, <3>2 DEF Stored
    <2> QED BY <1>2, <2>1, StreamsStay
  <1>9. Inv'
    BY <1>1, <1>2, <1>6, <1>7, <1>8, StreamsStay DEF Inv, LockedWhileOpen
  <1> QED BY <1>1, <1>2, <1>3, <1>4, <1>5, <1>9

\* What rename does: the file keeps its bytes under its new name.
LEMMA RenameFacts ==
  ASSUME Inv, NEW n \in Names, NEW m \in Names, Renames(n, m)
  PROVE  /\ Inv' /\ n \in DOMAIN files /\ m \notin DOMAIN files /\ files[n] \notin OpenFiles
         /\ DOMAIN files' = (DOMAIN files \ {n}) \cup {m} /\ files'[m] = files[n]
         /\ \A l \in DOMAIN files \ {n} : files'[l] = files[l] /\ l # m
         /\ data' = data /\ stream' = stream
  <1>1. /\ TypeOK /\ OneName /\ locked = OpenFiles /\ OpenFiles \subseteq Stored
        /\ \A t, u \in OpenStreams : t # u => stream[t].file # stream[u].file
    BY DEF Inv, LockedWhileOpen
  <1>2. /\ n \in DOMAIN files /\ m \notin DOMAIN files /\ files[n] \notin locked
        /\ data' = data /\ locked' = locked /\ stream' = stream
        /\ files' = [x \in (DOMAIN files \ {n}) \cup {m} |-> IF x = m THEN files[n] ELSE files[x]]
    BY DEF Renames, Exists
  <1>3. /\ DOMAIN files' = (DOMAIN files \ {n}) \cup {m} /\ files'[m] = files[n]
        /\ \A l \in DOMAIN files \ {n} : files'[l] = files[l] /\ l # m
    BY <1>2
  <1>4. TypeOK'
    <2>1. DOMAIN files' \subseteq Names /\ files' \in [DOMAIN files' -> Files]
      BY <1>1, <1>2 DEF TypeOK
    <2> QED BY <1>1, <1>2, <2>1 DEF TypeOK
  <1>5. OneName'
    BY <1>1, <1>2, <1>3 DEF OneName
  <1>6. OpenFiles' \subseteq Stored'
    <2>1. ASSUME NEW g \in OpenFiles PROVE g \in Stored'
      <3>1. PICK l \in DOMAIN files : g = files[l]
        BY <1>1 DEF Stored
      <3>2. l # n
        BY <1>1, <1>2, <3>1
      <3> QED BY <1>3, <3>1, <3>2 DEF Stored
    <2> QED BY <1>2, <2>1, StreamsStay
  <1>7. Inv'
    BY <1>1, <1>2, <1>4, <1>5, <1>6, StreamsStay DEF Inv, LockedWhileOpen
  <1> QED BY <1>1, <1>2, <1>3, <1>7

\* Opening and removing files leave open streams and their contents alone.
Apart(s) == stream'[s] = stream[s] /\ data'[stream[s].file] = data[stream[s].file]

LEMMA OpenApart ==
  ASSUME Inv, NEW t \in Streams, NEW n \in Names, NEW m \in Modes, NEW f \in Resolved(n, m),
         Opens(t, n, m, f)
  PROVE  \A s \in OpenStreams : Apart(s)
  <1>1. Opened(t, n, m, f)
    BY OpensFacts
  <1>2. \A s \in OpenStreams : stream[s].file \in Files
    BY OpenType DEF Inv, LockedWhileOpen
  <1> QED BY <1>1, <1>2 DEF Apart, Opened

LEMMA RemoveApart ==
  ASSUME Inv, NEW n \in Names, Removes(n)
  PROVE  \A s \in OpenStreams : Apart(s)
  <1>1. files[n] \notin OpenFiles /\ \A g \in Files \ {files[n]} : data'[g] = data[g]
    BY RemoveFacts
  <1>2. stream' = stream
    BY RemoveFacts
  <1>3. \A s \in OpenStreams : stream[s].file \in Files /\ stream[s].file \in OpenFiles
    BY OpenType DEF Inv, LockedWhileOpen
  <1> QED BY <1>1, <1>2, <1>3 DEF Apart

LEMMA StaysKeeps == ASSUME Inv, Stays PROVE Inv'
  <1>1. TypeOK'
    BY DEF Stays, Inv, LockedWhileOpen, TypeOK
  <1>2. Fixed
    BY StreamsStay DEF Stays, Fixed
  <1> QED BY <1>1, <1>2, FixedKeeps

LEMMA InvStep == Inv /\ [Next]_vars => Inv'
  <1> SUFFICES ASSUME Inv, [Next]_vars PROVE Inv'
    OBVIOUS
  <1>1. CASE Stays
    BY <1>1, StaysKeeps
  <1>2. ASSUME NEW s \in Streams, Moves(s) \/ FClose(s) PROVE Inv'
    BY <1>2, MovesKeeps, CloseFacts
  <1>3. ASSUME NEW s \in Streams, NEW buf \in Contents, Puts(s, buf) PROVE Inv'
    BY <1>3, PutsFacts
  <1>4. ASSUME NEW s \in Streams, NEW n \in Names, NEW m \in Modes, NEW f \in Resolved(n, m),
               Opens(s, n, m, f)
        PROVE  Inv'
    BY <1>4, OpensFacts
  <1>5. ASSUME NEW n \in Names, Removes(n) PROVE Inv'
    BY <1>5, RemoveFacts
  <1>6. ASSUME NEW n \in Names, NEW m \in Names, Renames(n, m) PROVE Inv'
    BY <1>6, RenameFacts
  <1> QED BY Steps, <1>1, <1>2, <1>3, <1>4, <1>5, <1>6

-----------------------------------------------------------------------------
(* The theorems.                                                           *)

\* However programs open, close, remove and rename files, a file is locked exactly
\* while one stream has it open, and it stays in the table as long: no stream's
\* plain pointer to a file ever dangles.
THEOREM LocksHold == Spec => []LockedWhileOpen
  <1>1. Inv => LockedWhileOpen
    BY DEF Inv
  <1> QED BY <1>1, InvStart, InvStep, PTL DEF Spec

\* The end-of-file flag that a step leaves on a stream is at the end of the file,
\* unless ungetc stepped back or the flag was stale before.
LEMMA EofStep ==
  ASSUME Inv, [Next]_vars, NEW s \in OpenStreams, StaleEof(s)'
  PROVE  StaleEof(s) \/ stream'[s].index = stream[s].index - 1
  <1> DEFINE Other == stream'[s] = stream[s] /\ data'[stream[s].file] = data[stream[s].file]
  <1>0. TypeOK /\ stream[s].file \in Files /\ stream[s].file \in OpenFiles /\ s \in Streams
    BY OpenType DEF Inv, LockedWhileOpen
  <1>1. CASE Other
    BY <1>1 DEF StaleEof, Size, Data
  <1>2. CASE Stays
    BY <1>1, <1>2 DEF Stays
  <1>3. ASSUME NEW t \in Streams, Moves(t)
        PROVE  Other \/ StaleEof(s) \/ stream'[s].index = stream[s].index - 1
    <2>1. PICK i \in 0 .. MaxIndex, e \in BOOLEAN :
            /\ e /\ i < Size(t) => StaleEof(t) \/ i = stream[t].index - 1
            /\ StandsAt(t, i, e)
      BY <1>3 DEF Moves, StandsAt
    <2>2. /\ \A u \in OpenStreams : stream'[u].file = stream[u].file
          /\ \A u \in OpenStreams \ {t} : stream'[u] = stream[u]
          /\ stream'[t].index = i /\ stream'[t].eof = e
      <3>1. t \in OpenStreams
        BY <1>3 DEF Moves
      <3> QED BY <1>0, <2>1, <3>1, HandleMoves
    <2>3. data' = data
      BY <1>3 DEF Moves
    <2>4. CASE s # t
      BY <2>2, <2>3, <2>4
    <2>5. CASE s = t
      <3>1. Size(s)' = Size(s)
        BY <2>2, <2>3 DEF Size, Data
      <3>2. e /\ i < Size(s)
        BY <2>2, <2>5, <3>1 DEF StaleEof
      <3> QED BY <2>1, <2>2, <2>5, <3>2
    <2> QED BY <2>4, <2>5
  <1>4. ASSUME NEW t \in Streams, FClose(t) PROVE Other
    <2>1. s # t
      BY <1>4, CloseFacts DEF StaleEof
    <2> QED BY <1>4, <2>1, CloseFacts
  <1>5. ASSUME NEW t \in Streams, NEW buf \in Contents, Puts(t, buf) PROVE Other
    <2>1. CASE s # t
      <3>1. stream[s].file # stream[t].file
        BY <1>5, <2>1, PutsFacts DEF Inv, LockedWhileOpen
      <3> QED BY <1>0, <1>5, <2>1, <3>1, PutsFacts
    <2>2. CASE s = t
      <3>1. stream'[s].eof /\ stream'[s].index < Size(s)'
        BY DEF StaleEof
      <3>2. ~(stream'[s].index < Size(s)')
        BY <1>5, <2>2, <3>1, PutsFacts
      <3> QED BY <3>1, <3>2
    <2> QED BY <2>1, <2>2
  <1>6. ASSUME NEW t \in Streams, NEW n \in Names, NEW m \in Modes, NEW f \in Resolved(n, m),
               Opens(t, n, m, f)
        PROVE  Other
    BY <1>6, OpenApart DEF Apart
  <1>7. ASSUME NEW n \in Names, Removes(n) PROVE Other
    BY <1>7, RemoveApart DEF Apart
  <1>8. ASSUME NEW n \in Names, NEW m \in Names, Renames(n, m) PROVE Other
    BY <1>8, RenameFacts
  <1> HIDE DEF Other
  <1> QED BY Steps, <1>1, <1>2, <1>3, <1>4, <1>5, <1>6, <1>7, <1>8

\* The end-of-file flag of a stream (file_io.cpp) says that its index is at the end or
\* past it, whatever calls led there; only ungetc makes a flag stale.
THEOREM EofMeansEnd == Spec => EofAtEnd
  <1>1. Inv /\ [Next]_vars =>
          [\A s \in OpenStreams : StaleEof(s)' =>
             StaleEof(s) \/ stream'[s].index = stream[s].index - 1]_vars
    BY EofStep
  <1> QED BY <1>1, InvStart, InvStep, PTL DEF Spec, EofAtEnd

\* A stream opened for append keeps what is there: whatever step is taken, by the
\* stream or by any other, the file only gets longer at its end.
LEMMA AppendStep ==
  ASSUME Inv, [Next]_vars, NEW s \in OpenStreams, stream[s].append
  PROVE  SubSeq(data'[stream[s].file], 1, Size(s)) = Data(s)
  <1> DEFINE Same == data'[stream[s].file] = Data(s)
             Kept == SubSeq(data'[stream[s].file], 1, Size(s)) = Data(s)
  <1>0. /\ TypeOK /\ stream[s].file \in Files /\ stream[s].file \in OpenFiles /\ s \in Streams
        /\ Data(s) \in Contents /\ Size(s) \in Nat
    BY OpenType DEF Inv, LockedWhileOpen
  <1>1. CASE Same
    <2> DEFINE t == SubSeq(Data(s), 1, Size(s))
    <2>1. \A i \in 1 .. Size(s) : i \in 1 .. Len(Data(s))
      BY DEF Size
    <2>2. t \in Contents /\ Len(t) = Size(s) /\ \A i \in 1 .. Size(s) : t[i] = Data(s)[i]
      BY <1>0, <2>1, SubSeqProperties DEF Contents, Size
    <2> HIDE DEF t
    <2>3. t = Data(s)
      BY <1>0, <2>2, SeqEqual DEF Contents, Size
    <2> QED BY <1>1, <2>3 DEF t
  <1>2. CASE Stays
    BY <1>1, <1>2 DEF Stays, Data
  <1>3. ASSUME NEW t \in Streams, Moves(t) \/ FClose(t) PROVE Same
    BY <1>3, CloseFacts DEF Moves, Data
  <1>4. ASSUME NEW t \in Streams, NEW buf \in Contents, Puts(t, buf) PROVE Same \/ Kept
    <2>1. CASE s # t
      <3>1. stream[s].file # stream[t].file
        BY <1>4, <2>1, PutsFacts DEF Inv, LockedWhileOpen
      <3> QED BY <1>0, <1>4, <3>1, PutsFacts DEF Data
    <2>2. CASE s = t
      <3>1. data'[stream[s].file] = WriteAt(Data(s), buf, Size(s))
        BY <1>4, <2>2, PutsFacts
      <3> QED BY <1>0, <3>1, WriteAtEnd DEF Size
    <2> QED BY <2>1, <2>2
  <1>5. ASSUME NEW t \in Streams, NEW n \in Names, NEW m \in Modes, NEW f \in Resolved(n, m),
               Opens(t, n, m, f)
        PROVE  Same
    BY <1>5, OpenApart DEF Data, Apart
  <1>6. ASSUME NEW n \in Names, Removes(n) PROVE Same
    BY <1>6, RemoveApart DEF Data, Apart
  <1>7. ASSUME NEW n \in Names, NEW m \in Names, Renames(n, m) PROVE Same
    BY <1>7, RenameFacts DEF Data
  <1> HIDE DEF Same
  <1> QED BY Steps, <1>1, <1>2, <1>3, <1>4, <1>5, <1>6, <1>7

\* A stream opened for append leaves every byte that was there alone, wherever its
\* index was moved in between.
THEOREM AppendsKeep == Spec => AppendKeeps
  <1>1. Inv /\ [Next]_vars =>
          [\A s \in OpenStreams : stream[s].append =>
             SubSeq(data'[stream[s].file], 1, Size(s)) = Data(s)]_vars
    BY AppendStep
  <1> QED BY <1>1, InvStart, InvStep, PTL DEF Spec, AppendKeeps

-----------------------------------------------------------------------------
(* The promise of the C library.                                           *)

\* The bytes under each name, and the names of the files that are open, by whether
\* the stream modifies.
Held == [n \in DOMAIN files |-> data[files[n]]]

Users(w) ==
  {n \in DOMAIN files : \E s \in OpenStreams : (Modifies(s) <=> w) /\ stream[s].file = files[n]}

LEMMA UsersAre ==
  /\ NamesOf({s \in OpenStreams : ~Modifies(s)}) = Users(FALSE)
  /\ NamesOf({s \in OpenStreams : Modifies(s)}) = Users(TRUE)
  /\ NamesOf({s \in OpenStreams : ~Modifies(s)})' = Users(FALSE)'
  /\ NamesOf({s \in OpenStreams : Modifies(s)})' = Users(TRUE)'
  <1>1. /\ NamesOf({s \in OpenStreams : ~Modifies(s)}) = Users(FALSE)
        /\ NamesOf({s \in OpenStreams : Modifies(s)}) = Users(TRUE)
    BY DEF NamesOf, Users
  <1>2. /\ NamesOf({s \in OpenStreams : ~Modifies(s)})' = Users(FALSE)'
        /\ NamesOf({s \in OpenStreams : Modifies(s)})' = Users(TRUE)'
    BY DEF NamesOf, Users
  <1> QED BY <1>1, <1>2

\* Streams that keep their files and modes are listed under the same names.
LEMMA UsersStay ==
  ASSUME files' = files, OpenStreams' = OpenStreams,
         \A s \in OpenStreams :
           /\ stream'[s].file = stream[s].file
           /\ stream'[s].write = stream[s].write /\ stream'[s].append = stream[s].append
  PROVE  \A w \in BOOLEAN : Users(w)' = Users(w)
  BY DEF Users, Modifies

\* An open stream's file has a name.
LEMMA HasName ==
  ASSUME Inv, NEW s \in OpenStreams
  PROVE  \E n \in DOMAIN files : files[n] = stream[s].file
  BY DEF Inv, LockedWhileOpen, OpenFiles, Stored

\* Readers and writers are names of files.
LEMMA StayPromise ==
  ASSUME Inv, Stays
  PROVE  Held' = Held /\ \A w \in BOOLEAN : Users(w)' = Users(w)
  BY StreamsStay, UsersStay DEF Stays, Held

LEMMA MovePromise ==
  ASSUME Inv, NEW s \in Streams, Moves(s)
  PROVE  Held' = Held /\ \A w \in BOOLEAN : Users(w)' = Users(w)
  <1>1. TypeOK /\ s \in OpenStreams /\ files' = files /\ data' = data
    BY DEF Inv, LockedWhileOpen, Moves
  <1>2. PICK i \in 0 .. MaxIndex, e \in BOOLEAN : StandsAt(s, i, e)
    BY DEF Moves, StandsAt
  <1>3. /\ OpenStreams' = OpenStreams
        /\ \A t \in OpenStreams :
              /\ stream'[t].file = stream[t].file
              /\ stream'[t].write = stream[t].write /\ stream'[t].append = stream[t].append
    BY <1>1, <1>2, HandleMoves
  <1> QED BY <1>1, <1>3, UsersStay DEF Held

LEMMA PutPromise ==
  ASSUME Inv, NEW s \in Streams, NEW buf \in Contents, Puts(s, buf)
  PROVE  \E n \in Names :
           /\ n \in Users(TRUE) /\ n \in DOMAIN Held
           /\ DOMAIN Held' = DOMAIN Held /\ Held'[n] \in Contents
           /\ \A m \in DOMAIN Held \ {n} : Held'[m] = Held[m]
           /\ \A w \in BOOLEAN : Users(w)' = Users(w)
  <1>1. /\ s \in OpenStreams /\ (stream[s].write \/ stream[s].append)
        /\ files' = files /\ data' \in [Files -> Contents]
        /\ \A f \in Files \ {stream[s].file} : data'[f] = data[f]
    BY PutsFacts
  <1>2. /\ OpenStreams' = OpenStreams
        /\ \A t \in OpenStreams :
              /\ stream'[t].file = stream[t].file
              /\ stream'[t].write = stream[t].write /\ stream'[t].append = stream[t].append
    BY PutsFacts
  <1>3. PICK n \in DOMAIN files : files[n] = stream[s].file
    BY <1>1, HasName
  <1>4. /\ n \in Names /\ \A m \in DOMAIN files : files[m] \in Files
        /\ \A m \in DOMAIN files \ {n} : files[m] # files[n]
    BY <1>3 DEF Inv, LockedWhileOpen, TypeOK, OneName
  <1>5. \A w \in BOOLEAN : Users(w)' = Users(w)
    BY <1>1, <1>2, UsersStay
  <1>6. n \in Users(TRUE)
    BY <1>1, <1>3 DEF Users, Modifies
  <1>7. /\ n \in DOMAIN Held /\ DOMAIN Held' = DOMAIN Held /\ Held'[n] \in Contents
        /\ \A m \in DOMAIN Held \ {n} : Held'[m] = Held[m]
    BY <1>1, <1>3, <1>4 DEF Held
  <1> QED BY <1>4, <1>5, <1>6, <1>7

LEMMA ClosePromise ==
  ASSUME Inv, NEW s \in Streams, FClose(s)
  PROVE  \E n \in Names : Held' = Held /\ \A w \in BOOLEAN : Users(w)' = Users(w) \ {n}
  <1>1. /\ s \in OpenStreams /\ OpenStreams' = OpenStreams \ {s}
        /\ \A t \in OpenStreams \ {s} : stream'[t] = stream[t]
        /\ files' = files /\ data' = data
    BY CloseFacts
  <1>2. PICK n \in DOMAIN files : files[n] = stream[s].file
    BY <1>1, HasName
  <1>3. n \in Names /\ OneName /\ \A t \in OpenStreams \ {s} : stream[t].file # files[n]
    BY <1>1, <1>2 DEF Inv, LockedWhileOpen, TypeOK
  <1>4. ASSUME NEW w \in BOOLEAN PROVE Users(w)' = Users(w) \ {n}
    <2>1. ASSUME NEW l \in Users(w)' PROVE l \in Users(w) \ {n}
      BY <1>1, <1>3 DEF Users, Modifies
    <2>2. ASSUME NEW l \in Users(w) \ {n} PROVE l \in Users(w)'
      <3>1. PICK t \in OpenStreams : (Modifies(t) <=> w) /\ stream[t].file = files[l]
        BY DEF Users
      <3>2. t # s
        BY <1>2, <1>3, <3>1 DEF OneName, Users
      <3> QED BY <1>1, <3>1, <3>2 DEF Users, Modifies
    <2> QED BY <2>1, <2>2
  <1> QED BY <1>1, <1>3, <1>4 DEF Held

LEMMA OpenPromise ==
  ASSUME Inv, NEW s \in Streams, NEW n \in Names, NEW m \in Modes, NEW f \in Resolved(n, m),
         Opens(s, n, m, f)
  PROVE  /\ \A w \in BOOLEAN : n \notin Users(w)
         /\ \A w \in BOOLEAN :
              Users(w)' = IF (Writes(m) \/ Appends(m)) <=> w THEN Users(w) \cup {n} ELSE Users(w)
         /\ \/ n \in DOMAIN Held /\ Held' = Held
            \/ /\ Writes(m) \/ Appends(m)
               /\ Held' = [l \in DOMAIN Held \cup {n} |-> IF l = n THEN <<>> ELSE Held[l]]
  <1> DEFINE W == Writes(m) \/ Appends(m)
  <1>1. /\ TypeOK /\ OneName /\ OpenFiles \subseteq Stored
    BY DEF Inv, LockedWhileOpen
  <1>2. Opened(s, n, m, f)
    BY OpensFacts
  <1>3. f \in Files /\ (Exists(n) => f = files[n])
    BY ResolvedType
  <1>4. ASSUME NEW w \in BOOLEAN PROVE n \notin Users(w)
    BY <1>2, <1>3 DEF Users, Opened, Exists
  <1>5. /\ \A t \in OpenStreams : Modifies(t)' = Modifies(t)
        /\ Modifies(s)' <=> W
    BY <1>2 DEF Modifies, Opened
  <1> HIDE DEF W
  <1>6. ASSUME NEW w \in BOOLEAN
        PROVE  Users(w)' = IF W <=> w THEN Users(w) \cup {n} ELSE Users(w)
    <2>1. ASSUME NEW l \in Users(w)' PROVE l \in Users(w) \/ (l = n /\ (W <=> w))
      <3>1. PICK t \in OpenStreams \cup {s} : (Modifies(t)' <=> w) /\ stream'[t].file = files'[l]
        BY <1>2 DEF Users, Opened
      <3>2. CASE t = s
        <4>1. files'[l] = f /\ l \in DOMAIN files \cup {n}
          BY <1>2, <3>1, <3>2 DEF Opened, Users
        <4>2. l = n
          BY <1>2, <4>1 DEF Opened
        <4> QED BY <1>5, <3>1, <3>2, <4>2
      <3>3. CASE t # s
        <4>1. t \in OpenStreams /\ stream[t].file = files'[l] /\ stream[t].file # f
          BY <1>2, <3>1, <3>3 DEF Opened
        <4>2. l # n /\ l \in DOMAIN files /\ files'[l] = files[l]
          BY <1>2, <4>1 DEF Opened, Users
        <4> QED BY <1>5, <3>1, <4>1, <4>2 DEF Users
      <3> QED BY <3>2, <3>3
    <2>2. ASSUME NEW l \in Users(w) PROVE l \in Users(w)'
      <3>1. PICK t \in OpenStreams : (Modifies(t) <=> w) /\ stream[t].file = files[l]
        BY DEF Users
      <3>2. l # n /\ l \in DOMAIN files
        BY <1>4 DEF Users
      <3>3. /\ t \in OpenStreams' /\ l \in DOMAIN files'
            /\ stream'[t].file = files'[l]
        BY <1>2, <3>1, <3>2 DEF Opened
      <3> QED BY <1>5, <3>1, <3>3 DEF Users
    <2>3. ASSUME W <=> w PROVE n \in Users(w)'
      <3>1. s \in OpenStreams' /\ n \in DOMAIN files' /\ stream'[s].file = files'[n]
        BY <1>2 DEF Opened
      <3> QED BY <1>5, <2>3, <3>1 DEF Users
    <2> QED BY <2>1, <2>2, <2>3
  <1>7. /\ DOMAIN Held = DOMAIN files /\ DOMAIN Held' = DOMAIN files \cup {n}
        /\ \A l \in DOMAIN files \ {n} : Held'[l] = Held[l]
        /\ Held'[n] = data'[f]
    <2>1. \A l \in DOMAIN files \ {n} : files[l] \in Files
      BY <1>1 DEF TypeOK
    <2> QED BY <1>2, <2>1 DEF Opened, Held
  <1>8. CASE Truncates(m) \/ ~Exists(n)
    <2>1. data'[f] = <<>>
      BY <1>2, <1>8 DEF Opened
    <2>2. W
      BY <1>8 DEF W, Truncates, Writes, Appends, Modes, Resolved
    <2>3. Held' = [l \in DOMAIN Held \cup {n} |-> IF l = n THEN <<>> ELSE Held[l]]
      BY <1>7, <2>1 DEF Held
    <2> QED BY <1>4, <1>6, <2>2, <2>3 DEF W
  <1>9. CASE ~(Truncates(m) \/ ~Exists(n))
    <2>1. data'[f] = data[f] /\ n \in DOMAIN files /\ f = files[n]
      BY <1>2, <1>3, <1>9 DEF Opened, Exists
    <2>2. Held'[n] = Held[n] /\ DOMAIN files' = DOMAIN files
      BY <1>2, <1>7, <2>1 DEF Held, Opened
    <2>3. Held' = Held
      BY <1>7, <2>1, <2>2 DEF Held
    <2> QED BY <1>4, <1>6, <1>7, <2>1, <2>3 DEF W
  <1> QED BY <1>8, <1>9

LEMMA RemovePromise ==
  ASSUME Inv, NEW n \in Names, Removes(n)
  PROVE  /\ \A w \in BOOLEAN : n \notin Users(w) /\ Users(w)' = Users(w)
         /\ Held' = [l \in DOMAIN Held \ {n} |-> Held[l]]
  <1>1. /\ n \in DOMAIN files /\ files[n] \in Files /\ files[n] \notin OpenFiles
        /\ DOMAIN files' = DOMAIN files \ {n}
        /\ \A l \in DOMAIN files \ {n} : files'[l] = files[l] /\ files[l] # files[n]
        /\ \A g \in Files \ {files[n]} : data'[g] = data[g]
    BY RemoveFacts
  <1>2. stream' = stream /\ OpenStreams' = OpenStreams
    BY RemoveFacts, StreamsStay
  <1>3. ASSUME NEW w \in BOOLEAN PROVE n \notin Users(w)
    BY <1>1 DEF Users, OpenFiles
  <1>4. ASSUME NEW w \in BOOLEAN PROVE Users(w)' = Users(w)
    <2>1. ASSUME NEW l \in Users(w)' PROVE l \in Users(w)
      BY <1>1, <1>2 DEF Users, Modifies
    <2>2. ASSUME NEW l \in Users(w) PROVE l \in Users(w)'
      <3>1. l \in DOMAIN files \ {n}
        BY <1>3 DEF Users
      <3> QED BY <1>1, <1>2, <3>1 DEF Users, Modifies
    <2> QED BY <2>1, <2>2
  <1>5. \A l \in DOMAIN files : files[l] \in Files
    BY DEF Inv, LockedWhileOpen, TypeOK
  <1>6. Held' = [l \in DOMAIN Held \ {n} |-> Held[l]]
    BY <1>1, <1>5 DEF Held
  <1> QED BY <1>3, <1>4, <1>6

LEMMA RenamePromise ==
  ASSUME Inv, NEW n \in Names, NEW m \in Names, Renames(n, m)
  PROVE  /\ \A w \in BOOLEAN : n \notin Users(w) /\ Users(w)' = Users(w)
         /\ n \in DOMAIN Held /\ m \notin DOMAIN Held
         /\ Held' = [l \in (DOMAIN Held \ {n}) \cup {m} |-> IF l = m THEN Held[n] ELSE Held[l]]
  <1>1. /\ n \in DOMAIN files /\ m \notin DOMAIN files /\ files[n] \notin OpenFiles
        /\ DOMAIN files' = (DOMAIN files \ {n}) \cup {m} /\ files'[m] = files[n]
        /\ \A l \in DOMAIN files \ {n} : files'[l] = files[l] /\ l # m
        /\ data' = data
    BY RenameFacts
  <1>2. stream' = stream /\ OpenStreams' = OpenStreams
    BY RenameFacts, StreamsStay
  <1>3. ASSUME NEW w \in BOOLEAN PROVE n \notin Users(w)
    BY <1>1 DEF Users, OpenFiles
  <1>4. ASSUME NEW w \in BOOLEAN PROVE Users(w)' = Users(w)
    <2>1. ASSUME NEW l \in Users(w)' PROVE l \in Users(w)
      <3>1. PICK t \in OpenStreams : (Modifies(t) <=> w) /\ stream[t].file = files'[l]
        BY <1>2 DEF Users, Modifies
      <3>2. files'[l] # files[n]
        BY <1>1, <3>1 DEF OpenFiles
      <3>3. l \in DOMAIN files \ {n} /\ files'[l] = files[l]
        BY <1>1, <3>2 DEF Users
      <3> QED BY <3>1, <3>3 DEF Users
    <2>2. ASSUME NEW l \in Users(w) PROVE l \in Users(w)'
      <3>1. l \in DOMAIN files \ {n}
        BY <1>3 DEF Users
      <3> QED BY <1>1, <1>2, <3>1 DEF Users, Modifies
    <2> QED BY <2>1, <2>2
  <1>5. Held' = [l \in (DOMAIN Held \ {n}) \cup {m} |-> IF l = m THEN Held[n] ELSE Held[l]]
    BY <1>1 DEF Held
  <1> QED BY <1>1, <1>3, <1>4, <1>5 DEF Held

\* Every step of the code is a step of the promise, or leaves what it speaks of alone.
LEMMA PromiseStep ==
  Inv /\ [Next]_vars => [Promise!Next]_(Promise!vars)
  <1> SUFFICES ASSUME Inv, [Next]_vars PROVE [Promise!Next]_(Promise!vars)
    OBVIOUS
  <1> DEFINE R == Users(FALSE)
             W == Users(TRUE)
             Idle == Held' = Held /\ R' = R /\ W' = W
             Looks(n) == /\ n \in DOMAIN Held /\ n \notin R \cup W
                         /\ R' = R \cup {n} /\ W' = W /\ Held' = Held
             Begins(n) ==
               /\ n \notin R \cup W /\ W' = W \cup {n} /\ R' = R
               /\ \/ Held' = [l \in DOMAIN Held \cup {n} |-> IF l = n THEN <<>> ELSE Held[l]]
                  \/ n \in DOMAIN Held /\ Held' = Held
             Alters(n) == /\ n \in W /\ n \in DOMAIN Held
                          /\ DOMAIN Held' = DOMAIN Held /\ Held'[n] \in Contents
                          /\ \A l \in DOMAIN Held \ {n} : Held'[l] = Held[l]
                          /\ R' = R /\ W' = W
             Ends(n) == R' = R \ {n} /\ W' = W \ {n} /\ Held' = Held
             Drops(n) == /\ n \notin R \cup W
                         /\ Held' = [l \in DOMAIN Held \ {n} |-> Held[l]]
                         /\ R' = R /\ W' = W
             Gives(n, m) ==
               /\ n \in DOMAIN Held /\ m \notin DOMAIN Held /\ n \notin R \cup W
               /\ Held' = [l \in (DOMAIN Held \ {n}) \cup {m} |->
                            IF l = m THEN Held[n] ELSE Held[l]]
               /\ R' = R /\ W' = W
             Step == \/ Idle
                     \/ \E n \in Names :
                          \/ Looks(n) \/ Begins(n) \/ Alters(n) \/ Ends(n) \/ Drops(n)
                          \/ \E m \in Names : Gives(n, m)
  <1>1. Step
    <2>1. CASE Stays
      BY <2>1, StayPromise
    <2>2. ASSUME NEW s \in Streams, Moves(s) PROVE Step
      BY <2>2, MovePromise
    <2>3. ASSUME NEW s \in Streams, NEW buf \in Contents, Puts(s, buf) PROVE Step
      BY <2>3, PutPromise
    <2>4. ASSUME NEW s \in Streams, FClose(s) PROVE Step
      BY <2>4, ClosePromise
    <2>5. ASSUME NEW s \in Streams, NEW n \in Names, NEW m \in Modes, NEW f \in Resolved(n, m),
                 Opens(s, n, m, f)
          PROVE  Step
      <3>1. n \notin R \cup W
        BY <2>5, OpenPromise
      <3>2. CASE Writes(m) \/ Appends(m)
        <4>1. W' = W \cup {n} /\ R' = R
          BY <2>5, <3>2, OpenPromise
        <4>2. \/ n \in DOMAIN Held /\ Held' = Held
              \/ Held' = [l \in DOMAIN Held \cup {n} |-> IF l = n THEN <<>> ELSE Held[l]]
          BY <2>5, OpenPromise
        <4> QED BY <3>1, <4>1, <4>2
      <3>3. CASE ~(Writes(m) \/ Appends(m))
        <4>1. R' = R \cup {n} /\ W' = W
          BY <2>5, <3>3, OpenPromise
        <4>2. n \in DOMAIN Held /\ Held' = Held
          BY <2>5, <3>3, OpenPromise
        <4> QED BY <3>1, <4>1, <4>2
      <3> QED BY <3>2, <3>3
    <2>6. ASSUME NEW n \in Names, Removes(n) PROVE Step
      BY <2>6, RemovePromise
    <2>7. ASSUME NEW n \in Names, NEW m \in Names, Renames(n, m) PROVE Step
      BY <2>7, RenamePromise
    <2> HIDE DEF Step
    <2> QED BY Steps, <2>1, <2>2, <2>3, <2>4, <2>5, <2>6, <2>7
  <1>2. CASE Idle
    BY <1>2, UsersAre DEF Promise!vars, Held
  <1>3. CASE ~Idle
    <2> USE UsersAre DEF Promise!Next, Promise!Names0, Promise!Free
    <2>1. ASSUME NEW n \in Names, Looks(n) PROVE Promise!Next
      BY <2>1 DEF Held, Promise!OpenRead
    <2>2. ASSUME NEW n \in Names, Begins(n) PROVE Promise!Next
      BY <2>2 DEF Held, Promise!OpenWrite, Promise!With
    <2>3. ASSUME NEW n \in Names, Alters(n) PROVE Promise!Next
      BY <2>3 DEF Held, Contents, Cells, Promise!Change
    <2>4. ASSUME NEW n \in Names, Ends(n) PROVE Promise!Next
      BY <2>4 DEF Held, Promise!Close
    <2>5. ASSUME NEW n \in Names, Drops(n) PROVE Promise!Next
      BY <2>5 DEF Held, Promise!Remove
    <2>6. ASSUME NEW n \in Names, NEW m \in Names, Gives(n, m) PROVE Promise!Next
      BY <2>6 DEF Held, Promise!Rename
    <2> HIDE DEF Looks, Begins, Alters, Ends, Drops, Gives, Idle, Promise!Next
    <2> QED BY <1>1, <1>3, <2>1, <2>2, <2>3, <2>4, <2>5, <2>6
  <1> QED BY <1>2, <1>3

\* Streams keep the promise of the C library: one stream to a file, bytes changed
\* by the stream that has the file open for writing alone, and no file that is open
\* removed or renamed.
THEOREM KeepsPromise == Spec => FileAccessSpec
  <1>1. Init => Promise!Init
    <2> SUFFICES ASSUME Init PROVE Promise!Init
      OBVIOUS
    <2>1. DOMAIN files = {}
      BY DEF Init
    <2>2. Held = [n \in {} |-> <<>>] /\ Users(FALSE) = {} /\ Users(TRUE) = {}
      BY <2>1 DEF Held, Users
    <2> QED BY <2>2, UsersAre DEF Promise!Init, Held
  <1> QED BY <1>1, InvStart, InvStep, PromiseStep, PTL DEF Spec, FileAccessSpec, Promise!Spec
=============================================================================
