------------------------------ MODULE QueueFile ------------------------------
(***************************************************************************)
(* The file-based queue of Cassette (CR_CASQueueFile.m): a ring of         *)
(* elements in a file, each preceded by its length, and a header that says *)
(* where the ring begins and ends.  A change of the header is announced by *)
(* a commit file, removed once the header is written.                      *)
(*                                                                         *)
(* Every call that changes a file is one step; the process may end, or the *)
(* call may fail, before any of them.  The queue belongs to one caller at  *)
(* a time (the header says that it is not synchronized).                   *)
(*                                                                         *)
(* A file is a function from offsets to cells.  A cell stands for some     *)
(* bytes: those of a length, those of an element, zeroes, or what is left  *)
(* over in the buffer.  The header is written as a whole: "Assumes segment *)
(* writes are atomic in the underlying file system" (line 548).            *)
(***************************************************************************)
EXTENDS Growth, Sequences

CONSTANTS
  Elements,             \* what the caller adds
  SizeOf,               \* [Elements -> Nat], cells of an element
  HeaderLength,         \* QueueFileHeaderLength, in cells
  ElementHeaderLength,  \* ElementHeaderLength, in cells
  InitialLength,        \* QueueFileInitialLength, in cells
  MaxLength,            \* bound: the file does not grow beyond it
  MaxAdd,               \* bound: elements added by one call
  MaxPop,               \* bound: elements removed by one call
  MaxCount,             \* bound: nothing is added beyond that many elements
  MaxCrashes,           \* bound: ends of the process
  MaxFailures,          \* bound: calls of the file system that fail
  Zero, Stale           \* a zeroed cell; a left-over of the buffer

(***************************************************************************)
(* An element with its length is no shorter than the header.  The length   *)
(* is written with a buffer of HeaderLength (line 256), of which the data  *)
(* overwrite the rest; what the SDK stores are archives, far longer.       *)
(***************************************************************************)
ASSUME ConstantsAssumption ==
  /\ SizeOf \in [Elements -> Nat]
  /\ HeaderLength \in Nat /\ ElementHeaderLength \in Nat
  /\ 0 < ElementHeaderLength /\ ElementHeaderLength < HeaderLength
  /\ InitialLength \in Nat /\ HeaderLength < InitialLength
  /\ MaxLength \in Nat /\ InitialLength <= MaxLength
  /\ MaxAdd \in Nat /\ MaxPop \in Nat /\ MaxCount \in Nat
  /\ MaxCrashes \in Nat /\ MaxFailures \in Nat
  /\ \A e \in Elements : SizeOf[e] >= HeaderLength - ElementHeaderLength

VARIABLES
  process,   \* "closed", "opening", "open", or "dead": the queue is nil
  file,      \* the file: exists, commit (the commit file exists), header, size, cells
  memory,    \* fileLength, elementCount, first, last
  doing,     \* the operation under way
  todo,      \* the calls it has still to make
  held,      \* history: what the queue held when the operation under way began
  crashes, failures,
  hurt       \* history: something went wrong at one of the two bad moments, below

vars == <<process, file, memory, doing, todo, held, crashes, failures, hurt>>

-----------------------------------------------------------------------------
(* The ring. *)

NoElement == [at |-> 0, length |-> 0]

\* Mutant: the end of the file counts as a position.
WrapLate(length, p) == IF p <= length THEN p ELSE HeaderLength + p - length

WrapPosition(length, p) ==
  IF p < length THEN p ELSE HeaderLength + p - length

RingRead(cells, length, p, n) ==
  LET at == WrapPosition(length, p)
  IN  [k \in 1..n |-> cells[WrapPosition(length, at + k - 1)]]

LengthCells(n) == [k \in 1..ElementHeaderLength |-> <<n, k>>]

\* The buffer with a length at its start and the rest of an earlier header.
Buffer(n) ==
  LengthCells(n) \o [k \in 1..(HeaderLength - ElementHeaderLength) |-> <<Stale, k>>]

DataOf(e) == [k \in 1..SizeOf[e] |-> <<e, k>>]

Zeros(n) == [k \in 1..n |-> Zero]

\* What is no complete length reads as 0, as zeroes do.
LengthAt(cells, length, p) ==
  LET read == RingRead(cells, length, p, ElementHeaderLength)
      fits == { n \in { SizeOf[e] : e \in Elements } : read = LengthCells(n) }
  IN  IF fits = {} THEN 0 ELSE CHOOSE n \in fits : TRUE

ReadElement(cells, length, p) ==
  [at |-> p, length |-> IF p = 0 THEN 0 ELSE LengthAt(cells, length, p)]

NextPosition(length, e) ==
  WrapPosition(length, e.at + ElementHeaderLength + e.length)

\* Where the element is that is n places behind the one at p, by the lengths in the file.
Behind(cells, length, p, n) ==
  LET after[q \in Nat] == NextPosition(length, ReadElement(cells, length, q))
      position[k \in Nat] == IF k = 0 THEN p ELSE after[position[k - 1]]
  IN  position[n]

\* What peek: returns when asked for all the elements, the first being at p.
Peek(cells, length, p, count) ==
  LET data[q \in Nat] == RingRead(cells, length, q + ElementHeaderLength,
                                  ReadElement(cells, length, q).length)
  IN  [i \in 1..count |-> data[Behind(cells, length, p, i - 1)]]

\* The n-th element from the head, of which the fields hold the first.
Nth(m, cells, n) ==
  IF n = 0 THEN m.first
  ELSE ReadElement(cells, m.length,
                   Behind(cells, m.length, NextPosition(m.length, m.first), n - 1))

\* The cells of the first n elements with these lengths.
Taken(lengths, n) ==
  LET sum[i \in 0..n] == IF i = 0 THEN 0 ELSE sum[i - 1] + ElementHeaderLength + lengths[i]
  IN  sum[n]

UsedBytes(m) ==
  CASE m.count = 0 -> HeaderLength
    [] m.count > 0 /\ m.last.at >= m.first.at ->
         m.last.at - m.first.at + ElementHeaderLength + m.last.length + HeaderLength
    [] OTHER ->
         m.last.at + ElementHeaderLength + m.last.length + m.length - m.first.at

RemainingBytes(m) == m.length - UsedBytes(m)

-----------------------------------------------------------------------------
(* The calls an operation makes, in order. *)

SetCells(at, data) == [call |-> "cells", at |-> at, data |-> data]
Erase(at, data)    == [call |-> "erase", at |-> at, data |-> data]
SetLength(n)       == [call |-> "length", length |-> n]
SetHeader(h)       == [call |-> "header", header |-> h]
Synchronize        == [call |-> "sync"]

\* When the call has returned, the fields of the queue are set.
Then(c, m) == [call |-> c, then |-> m]

\* A write past the end of the file goes on after the header.
RingWrite(length, p, data) ==
  LET at   == WrapPosition(length, p)
      room == length - at
  IN  IF Len(data) <= room
      THEN << SetCells(at, data) >>
      ELSE << SetCells(at, SubSeq(data, 1, room)),
              SetCells(HeaderLength, SubSeq(data, room + 1, Len(data))) >>

\* Only a synchronized header can fail once it is written.
WriteHeader(length, count, first, last, synchronize, m) ==
  << [call |-> "commit"],
     SetHeader([length |-> length, count |-> count, first |-> first, last |-> last]) >>
    \o (IF synchronize THEN << Synchronize >> ELSE << >>)
    \o << Then("uncommit", m) >>

Requested(elements) ==
  Taken([i \in 1..Len(elements) |-> Len(elements[i])], Len(elements))

\* The first doubling with room for the request.
Doubled(m, requested) ==
  LET enough(k) == RemainingBytes(m) + (Doubling[k] - 1) * m.length >= requested
      k == CHOOSE k \in 1..requested : enough(k) /\ \A j \in 1..(k - 1) : ~enough(j)
  IN  Doubling[k] * m.length

EndOfLast(m) == NextPosition(m.length, m.last)

\* Data at the start of the ring belong behind what was the end of the file.
Fragmented(m) == EndOfLast(m) <= m.first.at

Grown(m, requested) ==
  [m EXCEPT !.length = Doubled(m, requested),
            !.last.at = IF m.last.at < m.first.at
                        THEN m.length + m.last.at - HeaderLength
                        ELSE m.last.at]

ExpandIfNecessary(m, cells, requested) ==
  LET new   == Grown(m, requested)
      count == EndOfLast(m) - HeaderLength
      head  == RingRead(cells, m.length, HeaderLength, count)
  IN  IF RemainingBytes(m) >= requested
      THEN << >>
      ELSE << SetLength(new.length) >>
             \o (IF Fragmented(m)
                 THEN << SetCells(m.length, head),
                         Erase(HeaderLength, Zeros(count)) >>
                 ELSE << >>)
             \o WriteHeader(new.length, m.count, m.first.at, new.last.at, TRUE, new)

\* Where the elements go: each behind the one before it.
Placed(m, elements) ==
  LET start == IF m.count = 0 THEN HeaderLength ELSE EndOfLast(m)
      position[i \in 0..Len(elements)] ==
        IF i = 0 THEN start
        ELSE WrapPosition(m.length, position[i - 1] + ElementHeaderLength + Len(elements[i]))
  IN  [i \in 1..Len(elements) |-> [at |-> position[i - 1], length |-> Len(elements[i])]]

WriteElement(length, e, data) ==
  RingWrite(length, e.at, Buffer(e.length))
    \o RingWrite(length, e.at + ElementHeaderLength, data)

\* The fields once the elements are written.
Added(m, elements) ==
  [m EXCEPT !.count = m.count + Len(elements),
            !.first = IF m.count = 0 THEN Placed(m, elements)[1] ELSE m.first,
            !.last = Placed(m, elements)[Len(elements)]]

\* The last k elements are written, then the header.
WriteElements(m, elements) ==
  LET place == Placed(m, elements)
      added == Added(m, elements)
      n     == Len(elements)
      calls[k \in 0..n] ==
        IF k = 0
        THEN WriteHeader(m.length, added.count, added.first.at, added.last.at, TRUE, added)
        ELSE WriteElement(m.length, place[n - k + 1], elements[n - k + 1]) \o calls[k - 1]
  IN  calls[n]

AddElements(old, cells, elements) ==
  LET requested == Requested(elements)
      m == IF RemainingBytes(old) >= requested THEN old ELSE Grown(old, requested)
  IN  ExpandIfNecessary(old, cells, requested) \o WriteElements(m, elements)

\* Mutant: the file is cut, the length in memory stays.
ClearWithoutLength(m) ==
  LET emptied == [m EXCEPT !.count = 0, !.first = NoElement, !.last = NoElement]
  IN  WriteHeader(InitialLength, 0, 0, 0, FALSE, emptied)
        \o RingWrite(m.length, HeaderLength, Zeros(InitialLength - HeaderLength))
        \o << SetLength(InitialLength), Synchronize >>

Clear(m) ==
  LET emptied == [m EXCEPT !.count = 0, !.first = NoElement, !.last = NoElement]
  IN  WriteHeader(InitialLength, 0, 0, 0, FALSE, emptied)
        \o RingWrite(m.length, HeaderLength, Zeros(InitialLength - HeaderLength))
        \o (IF m.length > InitialLength THEN << SetLength(InitialLength) >> ELSE << >>)
        \o << Then("sync", [emptied EXCEPT !.length = InitialLength]) >>

\* Mutant: the data go before the header is committed.
EraseFirst(m, cells, amount) ==
  LET first  == Nth(m, cells, amount)
      length == Taken([i \in 1..amount |-> Nth(m, cells, i - 1).length], amount)
  IN  IF amount >= m.count
      THEN Clear(m)
      ELSE RingWrite(m.length, m.first.at, Zeros(length))
             \o WriteHeader(m.length, m.count - amount, first.at, m.last.at, FALSE,
                            [m EXCEPT !.count = m.count - amount, !.first = first])

\* Popping everything is clearing; the data go once the header is committed.
Pop(m, cells, amount) ==
  LET first  == Nth(m, cells, amount)
      length == Taken([i \in 1..amount |-> Nth(m, cells, i - 1).length], amount)
  IN  IF amount >= m.count
      THEN Clear(m)
      ELSE WriteHeader(m.length, m.count - amount, first.at, m.last.at, FALSE,
                       [m EXCEPT !.count = m.count - amount, !.first = first])
             \o RingWrite(m.length, m.first.at, Zeros(length))

-----------------------------------------------------------------------------
(* The queue and its environment. *)

NoMemory == [length |-> 0, count |-> 0, first |-> NoElement, last |-> NoElement]
NoHeader == [length |-> InitialLength, count |-> 0, first |-> 0, last |-> 0]
NewCells == [p \in HeaderLength..(InitialLength - 1) |-> Zero]
NoFile   == [exists |-> FALSE, commit |-> FALSE, header |-> NoHeader,
             size |-> InitialLength, cells |-> NewCells]

Idle == [op |-> "none", elements |-> << >>, amount |-> 0]

\* The fields of the queue once it has read the header and two elements.
Opened(f) ==
  [length |-> f.header.length, count |-> f.header.count,
   first  |-> ReadElement(f.cells, f.header.length, f.header.first),
   last   |-> ReadElement(f.cells, f.header.length, f.header.last)]

\* The file extended or cut to n cells.
Resized(f, n) ==
  [f EXCEPT !.size = n,
            !.cells = [p \in HeaderLength..(n - 1) |->
                         IF p < f.size THEN f.cells[p] ELSE Zero]]

\* A write behind the end extends the file.
Written(f, at, data) ==
  LET end == at + Len(data)
      g   == IF end > f.size THEN Resized(f, end) ELSE f
  IN  [g EXCEPT !.cells = [p \in DOMAIN g.cells |->
                             IF p \in at..(end - 1) THEN data[p - at + 1] ELSE g.cells[p]]]

\* The file once a call has returned.
Called(f, c) ==
  CASE c.call \in {"cells", "erase"} -> Written(f, c.at, c.data)
    [] c.call = "length"   -> Resized(f, c.length)
    [] c.call = "header"   -> [f EXCEPT !.header = c.header]
    [] c.call = "commit"   -> [f EXCEPT !.commit = TRUE]
    [] c.call = "uncommit" -> [f EXCEPT !.commit = FALSE]
    [] c.call = "remove"   -> [f EXCEPT !.exists = FALSE]
    [] c.call = "create"   -> [NoFile EXCEPT !.exists = TRUE, !.commit = f.commit]
    [] OTHER               -> f

\* What the next process finds.
Recovered(f) ==
  IF f.exists /\ ~f.commit
  THEN Peek(f.cells, f.header.length, f.header.first, f.header.count)
  ELSE << >>

\* What the queue holds, for its caller: an operation under way shows nothing.
Contents ==
  CASE doing # Idle     -> held
    [] process = "open" /\ doing = Idle ->
         Peek(file.cells, memory.length, memory.first.at, memory.count)
    [] OTHER            -> Recovered(file)

\* The fields of the queue once the call has returned.
Effect(m, c) == IF "then" \in DOMAIN c THEN c.then ELSE m

(***************************************************************************)
(* The two moments at which the code leaves nothing complete behind.  The  *)
(* start of the ring is erased, and the fields, or the header, still point *)
(* to it (lines 677 to 705).  The file is removed and the commit file is   *)
(* not, so that no later open can remove the file (lines 78 to 84).        *)
(***************************************************************************)
HeadErased(m, calls) ==
  /\ Fragmented(m)
  /\ \E i \in DOMAIN calls : Effect(m, calls[i]).length > m.length
  /\ \A i \in DOMAIN calls : calls[i].call # "erase"

Unremovable == file.commit /\ ~file.exists

Ready == process = "open" /\ doing = Idle

Start(operation, calls) ==
  /\ doing' = operation
  /\ todo' = calls
  /\ held' = Contents
  /\ UNCHANGED <<process, file, memory, crashes, failures, hurt>>

Init ==
  /\ process = "closed" /\ file = NoFile /\ memory = NoMemory
  /\ doing = Idle /\ todo = << >> /\ held = << >>
  /\ crashes = 0 /\ failures = 0 /\ hurt = FALSE

\* queueFileWithPath: an unfinished commit costs the queue.
Open ==
  /\ process = "closed"
  /\ ~Unremovable
  /\ process' = "opening"
  /\ todo' = CASE file.commit -> << [call |-> "remove"], [call |-> "uncommit"],
                                    [call |-> "create"] >>
               [] ~file.commit /\ ~file.exists -> << [call |-> "create"] >>
               [] OTHER -> << >>
  /\ UNCHANGED <<file, memory, doing, held, crashes, failures, hurt>>

\* A file that is already gone cannot be removed: there is no queue.
OpenFails ==
  /\ process = "closed" /\ Unremovable
  /\ process' = "dead"
  /\ UNCHANGED <<file, memory, doing, todo, held, crashes, failures, hurt>>

OpenDone ==
  /\ process = "opening" /\ todo = << >>
  /\ process' = "open"
  /\ memory' = Opened(file)
  /\ UNCHANGED <<file, doing, todo, held, crashes, failures, hurt>>

Add(es) ==
  LET elements == [i \in DOMAIN es |-> DataOf(es[i])]
  IN  /\ Ready
      /\ memory.count + Len(es) <= MaxCount
      /\ RemainingBytes(memory) < Requested(elements)
           => Doubled(memory, Requested(elements)) <= MaxLength
      /\ Start([op |-> "add", elements |-> elements, amount |-> 0],
               AddElements(memory, file.cells, elements))

PopSome(n) ==
  /\ Ready /\ memory.count > 0
  /\ Start([op |-> "pop", elements |-> << >>, amount |-> n], Pop(memory, file.cells, n))

\* The next call returns.
Step ==
  LET c == Head(todo)
  IN  /\ todo # << >>
      /\ file' = Called(file, c)
      /\ memory' = Effect(memory, c)
      /\ todo' = Tail(todo)
      /\ doing' = IF Tail(todo) = << >> THEN Idle ELSE doing
      /\ held' = IF Tail(todo) = << >> THEN << >> ELSE held
      /\ UNCHANGED <<process, crashes, failures, hurt>>

(***************************************************************************)
(* The next call fails.  A commit file that cannot be removed is ignored   *)
(* (line 600), anything else ends the operation; without a file there is   *)
(* no queue.                                                               *)
(***************************************************************************)
Fail ==
  LET ignored == Head(todo).call = "uncommit" /\ process = "open"
  IN  /\ todo # << >>
      /\ failures < MaxFailures
      /\ hurt' = (hurt \/ Unremovable \/ (HeadErased(memory, todo) /\ ~ignored))
      /\ failures' = failures + 1
      /\ memory' = IF ignored THEN Effect(memory, Head(todo)) ELSE memory
      /\ todo' = IF ignored THEN Tail(todo) ELSE << >>
      /\ doing' = IF todo' = << >> THEN Idle ELSE doing
      /\ held' = IF todo' = << >> THEN << >> ELSE held
      /\ process' = IF process = "opening" THEN "dead" ELSE process
      /\ UNCHANGED <<file, crashes>>

\* The process ends; what it had in memory is gone.
Crash ==
  /\ process # "closed"
  /\ crashes < MaxCrashes \/ process = "dead"
  /\ hurt' = (hurt \/ Unremovable \/ (HeadErased(memory, todo) /\ ~file.commit))
  /\ crashes' = IF process = "dead" THEN crashes ELSE crashes + 1
  /\ process' = "closed" /\ memory' = NoMemory
  /\ doing' = Idle /\ todo' = << >> /\ held' = << >>
  /\ UNCHANGED <<file, failures>>

Next ==
  \/ Open \/ OpenFails \/ OpenDone
  \/ \E n \in 1..MaxAdd : \E es \in [1..n -> Elements] : Add(es)
  \/ \E n \in 1..MaxPop : PopSome(n)
  \/ Step \/ Fail \/ Crash

Spec == Init /\ [][Next]_vars

-----------------------------------------------------------------------------
(* Properties. *)

Cells == ({ SizeOf[e] : e \in Elements } \cup Elements \cup {Stale}) \X Nat \cup {Zero}

FileType(f) ==
  /\ f.exists \in BOOLEAN /\ f.commit \in BOOLEAN
  /\ f.header.length \in Nat /\ f.header.count \in Nat
  /\ f.size \in Nat
  /\ f.cells \in [HeaderLength..(f.size - 1) -> Cells]

(***************************************************************************)
(* Types: the header never points outside the file, nor the fields outside *)
(* the length they assume (wrapPosition and expandIfNecessary).            *)
(***************************************************************************)
TypeOK ==
  /\ process \in {"closed", "opening", "open", "dead"}
  /\ FileType(file)
  /\ file.header.length \in InitialLength..MaxLength
  /\ {file.header.first, file.header.last} \subseteq 0..(file.header.length - 1)
  /\ {memory.first.at, memory.last.at} \subseteq 0..memory.length
  /\ crashes \in 0..MaxCrashes /\ failures \in 0..MaxFailures /\ hurt \in BOOLEAN

(***************************************************************************)
(* Memory and file agree when no operation is under way and no call has    *)
(* failed: the next process would read what this one reads, and no commit  *)
(* file is left.  (The fields are written to the header by one call and    *)
(* set by another, in clear and pop before the data are erased, in         *)
(* expandIfNecessary after they are moved.)                                *)
(***************************************************************************)
MemoryMatchesFile ==
  Ready /\ failures = 0 =>
    /\ ~file.commit
    /\ memory = Opened(file)

(***************************************************************************)
(* No element lies over another or over the header: what is read is a      *)
(* sequence of whole elements that were added.  "All operations are        *)
(* atomic", "The underlying file is structured to survive process and even *)
(* system crashes" (CR_CASQueueFile.h, lines 16 to 18).                    *)
(***************************************************************************)
NothingTorn ==
  \A i \in DOMAIN Contents : \E e \in Elements : Contents[i] = DataOf(e)

Promise == INSTANCE Fifo WITH
  Data <- { DataOf(e) : e \in Elements }, items <- Contents

(***************************************************************************)
(* The queue file is a FIFO whose operations happen completely or not at   *)
(* all, whatever ends them, except that an unfinished commit costs all of  *)
(* it, and unless something goes wrong while the head is erased or the     *)
(* file is unremovable.                                                    *)
(***************************************************************************)
IsFifo ==
  Promise!Init /\ [][hurt' \/ Promise!Next]_<<Contents, doing>>
==============================================================================
