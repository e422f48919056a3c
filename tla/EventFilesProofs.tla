-------------------------- MODULE EventFilesProofs --------------------------
(***************************************************************************)
(* The learner event directory is one chain of events and implements the   *)
(* append-only log, proved for any number of processes, threads, readers   *)
(* and commands.                                                           *)
(***************************************************************************)
EXTENDS EventFiles, FiniteSetTheorems, SequenceTheorems, TLAPS

\* Histories without a repeated command, and the files of their first n events.
Chain ==
    {chain \in Seq(Commands) :
        \A i, j \in 1..Len(chain) : chain[i] = chain[j] => i = j}

Files(chain, n) == {SubSeq(chain, 1, k) : k \in 1..n}

-----------------------------------------------------------------------------
\* The beginnings of a sequence.
LEMMA Beginning ==
    ASSUME NEW chain \in Seq(Commands), NEW n \in 0..Len(chain)
    PROVE  /\ SubSeq(chain, 1, n) \in Seq(Commands)
           /\ Len(SubSeq(chain, 1, n)) = n
           /\ \A i \in 1..n : SubSeq(chain, 1, n)[i] = chain[i]
<1>1. \A i \in 1..n : chain[i] \in Commands
  OBVIOUS
<1>2. n \in Int /\ 1 \in Int
  OBVIOUS
<1> QED
  BY <1>1, <1>2, SubSeqProperties

LEMMA BeginningOfBeginning ==
    ASSUME NEW chain \in Seq(Commands), NEW n \in 0..Len(chain), NEW k \in 0..n
    PROVE  SubSeq(SubSeq(chain, 1, n), 1, k) = SubSeq(chain, 1, k)
<1> DEFINE s == SubSeq(chain, 1, n)
<1>1. /\ s \in Seq(Commands) /\ Len(s) = n
      /\ \A i \in 1..n : s[i] = chain[i]
  BY Beginning
<1>2. k \in 0..Len(s) /\ k \in 0..Len(chain)
  BY <1>1
<1> HIDE DEF s
<1>3. /\ SubSeq(s, 1, k) \in Seq(Commands) /\ Len(SubSeq(s, 1, k)) = k
      /\ \A i \in 1..k : SubSeq(s, 1, k)[i] = s[i]
  BY <1>1, <1>2, Beginning
<1>4. /\ SubSeq(chain, 1, k) \in Seq(Commands) /\ Len(SubSeq(chain, 1, k)) = k
      /\ \A i \in 1..k : SubSeq(chain, 1, k)[i] = chain[i]
  BY <1>2, Beginning
<1>5. SubSeq(s, 1, k) = SubSeq(chain, 1, k)
  <2>1. \A i \in 1..Len(SubSeq(s, 1, k)) : SubSeq(s, 1, k)[i] = SubSeq(chain, 1, k)[i]
    BY <1>1, <1>3, <1>4
  <2> QED
    BY <1>3, <1>4, <2>1, SeqEqual
<1> QED
  BY <1>5 DEF s

LEMMA BeginningOfLonger ==
    ASSUME NEW chain \in Seq(Commands), NEW c \in Commands, NEW k \in 0..Len(chain)
    PROVE  /\ Append(chain, c) \in Seq(Commands)
           /\ SubSeq(Append(chain, c), 1, k) = SubSeq(chain, 1, k)
           /\ SubSeq(Append(chain, c), 1, Len(chain) + 1) = Append(chain, c)
<1> DEFINE longer == Append(chain, c)
<1>1. /\ longer \in Seq(Commands) /\ Len(longer) = Len(chain) + 1
      /\ \A i \in 1..Len(chain) : longer[i] = chain[i]
  BY AppendProperties
<1>2. k \in 0..Len(longer)
  BY <1>1
<1>a. SubSeq(longer, 1, Len(longer)) = longer
  BY <1>1, SubSeqFull
<1> HIDE DEF longer
<1>3. /\ SubSeq(longer, 1, k) \in Seq(Commands) /\ Len(SubSeq(longer, 1, k)) = k
      /\ \A i \in 1..k : SubSeq(longer, 1, k)[i] = longer[i]
  BY <1>1, <1>2, Beginning
<1>4. /\ SubSeq(chain, 1, k) \in Seq(Commands) /\ Len(SubSeq(chain, 1, k)) = k
      /\ \A i \in 1..k : SubSeq(chain, 1, k)[i] = chain[i]
  BY Beginning
<1>5. \A i \in 1..Len(SubSeq(longer, 1, k)) : SubSeq(longer, 1, k)[i] = SubSeq(chain, 1, k)[i]
  BY <1>1, <1>3, <1>4
<1>6. SubSeq(longer, 1, k) = SubSeq(chain, 1, k)
  BY <1>3, <1>4, <1>5, SeqEqual
<1> QED
  BY <1>1, <1>a, <1>6 DEF longer

-----------------------------------------------------------------------------
\* What the files of a chain are.
LEMMA FilesOf ==
    ASSUME NEW chain \in Seq(Commands), NEW n \in 0..Len(chain)
    PROVE  /\ \A e \in Files(chain, n) :
                  /\ e \in Seq(Commands) /\ Len(e) \in 1..n
                  /\ e = SubSeq(chain, 1, Len(e))
           /\ \A k \in 1..n : SubSeq(chain, 1, k) \in Files(chain, n)
           /\ Files(chain, n) = Files(SubSeq(chain, 1, n), n)
           /\ {Len(e) : e \in Files(chain, n)} = 1..n
<1>1. \A k \in 1..n : /\ k \in 0..Len(chain)
                      /\ SubSeq(chain, 1, k) \in Seq(Commands)
                      /\ Len(SubSeq(chain, 1, k)) = k
                      /\ SubSeq(SubSeq(chain, 1, n), 1, k) = SubSeq(chain, 1, k)
  <2> TAKE k \in 1..n
  <2>1. k \in 0..Len(chain) /\ k \in 0..n
    OBVIOUS
  <2> QED
    BY <2>1, Beginning, BeginningOfBeginning
<1> QED
  BY <1>1 DEF Files

\* There is one for each number.
LEMMA FilesCount ==
    ASSUME NEW chain \in Seq(Commands), NEW n \in 0..Len(chain)
    PROVE  IsFiniteSet(Files(chain, n)) /\ Cardinality(Files(chain, n)) = n
<1> DEFINE f == [k \in 1..n |-> SubSeq(chain, 1, k)]
<1>1. \A k \in 1..n : f[k] \in Files(chain, n) /\ Len(f[k]) = k
  BY Beginning DEF Files
<1>2. f \in Bijection(1..n, Files(chain, n))
  <2>1. f \in [1..n -> Files(chain, n)]
    BY <1>1
  <2>2. \A j, k \in 1..n : f[j] = f[k] => j = k
    BY <1>1
  <2>3. \A e \in Files(chain, n) : \E k \in 1..n : f[k] = e
    BY DEF Files
  <2> QED
    BY <2>1, <2>2, <2>3 DEF Bijection, Injection, Surjection, IsInjective
<1>3. IsFiniteSet(1..n) /\ Cardinality(1..n) = n
  BY FS_Interval
<1> QED
  BY <1>2, <1>3, FS_Bijection DEF ExistsBijection

\* A chain has as many commands as events, and so has each of its beginnings.
LEMMA ChainCount ==
    ASSUME NEW chain \in Chain
    PROVE  Cardinality(CommandsOf(chain)) = Len(chain)
<1> DEFINE n == Len(chain)
           f == [k \in 1..n |-> chain[k]]
<1>1. n \in Nat /\ \A i, j \in 1..n : chain[i] = chain[j] => i = j
  BY DEF Chain
<1>2. f \in Bijection(1..n, CommandsOf(chain))
  <2>1. f \in [1..n -> CommandsOf(chain)]
    BY DEF CommandsOf
  <2>2. \A j, k \in 1..n : f[j] = f[k] => j = k
    BY <1>1
  <2>3. \A e \in CommandsOf(chain) : \E k \in 1..n : f[k] = e
    BY DEF CommandsOf
  <2> QED
    BY <2>1, <2>2, <2>3 DEF Bijection, Injection, Surjection, IsInjective
<1>3. IsFiniteSet(1..n) /\ Cardinality(1..n) = n
  <2>1. n \in Int /\ 1 \in Int /\ (IF 1 > n THEN 0 ELSE n - 1 + 1) = n
    BY <1>1
  <2> HIDE DEF n
  <2> QED
    BY <2>1, FS_Interval
<1> QED
  BY <1>2, <1>3, FS_Bijection DEF ExistsBijection

LEMMA BeginningIsChain ==
    ASSUME NEW chain \in Chain, NEW n \in 0..Len(chain)
    PROVE  /\ SubSeq(chain, 1, n) \in Chain
           /\ CommandsOf(SubSeq(chain, 1, n)) \subseteq CommandsOf(chain)
<1> DEFINE s == SubSeq(chain, 1, n)
<1>1. chain \in Seq(Commands) /\ \A i, j \in 1..Len(chain) : chain[i] = chain[j] => i = j
  BY DEF Chain
<1>2. /\ s \in Seq(Commands) /\ Len(s) = n
      /\ \A i \in 1..n : s[i] = chain[i]
  BY <1>1, Beginning
<1> HIDE DEF s
<1>3. s \in Chain /\ CommandsOf(s) \subseteq CommandsOf(chain)
  BY <1>1, <1>2 DEF Chain, CommandsOf
<1> QED
  BY <1>3 DEF s

LEMMA LongerIsChain ==
    ASSUME NEW chain \in Chain, NEW c \in Commands \ CommandsOf(chain)
    PROVE  /\ Append(chain, c) \in Chain
           /\ Len(Append(chain, c)) = Len(chain) + 1
           /\ Append(chain, c)[Len(chain) + 1] = c
           /\ CommandsOf(Append(chain, c)) = CommandsOf(chain) \cup {c}
<1>1. chain \in Seq(Commands) /\ \A i, j \in 1..Len(chain) : chain[i] = chain[j] => i = j
  BY DEF Chain
<1> DEFINE longer == Append(chain, c)
<1>2. /\ longer \in Seq(Commands) /\ Len(longer) = Len(chain) + 1
      /\ \A i \in 1..Len(chain) : longer[i] = chain[i]
      /\ longer[Len(chain) + 1] = c
  BY <1>1, AppendProperties
<1> HIDE DEF longer
<1>3. \A i \in 1..Len(longer) : i \in 1..Len(chain) \/ i = Len(chain) + 1
  BY <1>1, <1>2
<1>4. \A i \in 1..Len(chain) : longer[i] # c
  BY <1>2 DEF CommandsOf
<1>5. longer \in Chain
  BY <1>1, <1>2, <1>3, <1>4 DEF Chain
<1>6. CommandsOf(longer) = CommandsOf(chain) \cup {c}
  BY <1>1, <1>2, <1>3 DEF CommandsOf
<1> QED
  BY <1>2, <1>5, <1>6 DEF longer

(***************************************************************************)
(* A directory that holds the files of a chain is valid, and that chain is *)
(* its history.                                                            *)
(***************************************************************************)
LEMMA FilesAreValid ==
    ASSUME NEW chain \in Chain
    PROVE  /\ Valid(Files(chain, Len(chain)))
           /\ History(Files(chain, Len(chain))) = chain
<1> DEFINE n == Len(chain)
           all == Files(chain, n)
<1>1. chain \in Seq(Commands) /\ n \in 0..Len(chain) /\ n \in Nat
  BY DEF Chain
<1>2. /\ \A e \in all : /\ e \in Seq(Commands) /\ Len(e) \in 1..n
                        /\ e = SubSeq(chain, 1, Len(e))
      /\ \A k \in 1..n : SubSeq(chain, 1, k) \in all
      /\ {Len(e) : e \in all} = 1..n
  BY <1>1, FilesOf
<1>3. Cardinality(all) = n
  BY <1>1, FilesCount
<1>4. SubSeq(chain, 1, n) = chain
  BY <1>1, SubSeqFull
<1> HIDE DEF all
<1>5. Valid(all)
  <2>1. ASSUME NEW e \in all, NEW f \in all, Len(f) = Len(e) + 1
        PROVE  e = SubSeq(f, 1, Len(e))
    <3>1. /\ Len(e) \in 1..n /\ Len(f) \in 1..n
          /\ e = SubSeq(chain, 1, Len(e)) /\ f = SubSeq(chain, 1, Len(f))
      BY <1>2
    <3>2. Len(f) \in 0..Len(chain) /\ Len(e) \in 0..Len(f)
      BY <2>1, <3>1
    <3>3. SubSeq(SubSeq(chain, 1, Len(f)), 1, Len(e)) = SubSeq(chain, 1, Len(e))
      BY <1>1, <3>2, BeginningOfBeginning
    <3> QED
      BY <3>1, <3>3
  <2>2. ASSUME NEW e \in all PROVE Cardinality(CommandsOf(e)) = Len(e)
    <3>1. Len(e) \in 0..Len(chain) /\ e = SubSeq(chain, 1, Len(e))
      BY <1>2
    <3>2. e \in Chain
      BY <3>1, BeginningIsChain
    <3> QED
      BY <3>2, ChainCount
  <2> QED
    BY <1>2, <1>3, <2>1, <2>2 DEF Valid
<1>6. History(all) = chain
  <2>1. CASE n = 0
    <3>1. all = {}
      BY <1>2, <2>1
    <3>2. chain = <<>>
      BY <1>1, <2>1
    <3> QED
      BY <3>1, <3>2 DEF History
  <2>2. CASE n # 0
    <3>1. chain \in all
      <4>1. n \in 1..n
        BY <1>1, <2>2
      <4> QED
        BY <1>2, <1>4, <4>1
    <3>2. \A f \in all : Len(f) <= Len(chain)
      BY <1>1, <1>2
    <3>3. ASSUME NEW e \in all, \A f \in all : Len(f) <= Len(e)
          PROVE  e = chain
      <4>1. Len(e) = n
        BY <1>1, <1>2, <3>1, <3>3
      <4> QED
        BY <1>2, <1>4, <4>1
    <3>4. (CHOOSE e \in all : \A f \in all : Len(f) <= Len(e)) = chain
      BY <3>1, <3>2, <3>3
    <3> QED
      BY <3>1, <3>4 DEF History
  <2> QED
    BY <2>1, <2>2
<1> QED
  BY <1>5, <1>6 DEF all

(***************************************************************************)
(* Of some files of a chain, a valid choice is its first few.              *)
(***************************************************************************)
LEMMA ValidListing ==
    ASSUME NEW chain \in Chain, NEW names \in SUBSET Files(chain, Len(chain)),
           Valid(names)
    PROVE  /\ Cardinality(names) \in 0..Len(chain)
           /\ names = Files(chain, Cardinality(names))
<1> DEFINE n == Len(chain)
           m == Cardinality(names)
<1>1. chain \in Seq(Commands) /\ n \in 0..Len(chain) /\ n \in Nat
  BY DEF Chain
<1>2. \A e \in names : Len(e) \in 1..n /\ e = SubSeq(chain, 1, Len(e))
  BY <1>1, FilesOf
<1>3. IsFiniteSet(Files(chain, n)) /\ Cardinality(Files(chain, n)) = n
  BY <1>1, FilesCount
<1>4. m \in Nat /\ m <= n
  BY <1>3, FS_Subset, FS_CardinalityType
<1>5. {Len(e) : e \in names} = 1..m
  BY DEF Valid
<1>6. \A e \in names : e \in Files(chain, m)
  BY <1>2, <1>5 DEF Files
<1>7. \A k \in 1..m : SubSeq(chain, 1, k) \in names
  BY <1>2, <1>5
<1>8. names = Files(chain, m)
  BY <1>6, <1>7 DEF Files
<1>9. m \in 0..Len(chain)
  BY <1>1, <1>4
<1> QED
  BY <1>8, <1>9

-----------------------------------------------------------------------------
(***************************************************************************)
(* The inductive invariant.  The files are those of one chain; what is     *)
(* durable is its beginning, with everything confirmed as lasting; only    *)
(* the process that holds the lock has calls, and only one at a time; that *)
(* call still has the end of the chain it saw; readers have subsets of the *)
(* files, or beginnings of the chain.                                      *)
(***************************************************************************)
Written == History(files)

DurableStands ==
    \E k \in 0..Len(Written) :
        /\ durable = Files(Written, k)
        /\ lasting \subseteq CommandsOf(SubSeq(Written, 1, k))

CallStands(r) ==
    \/ r = Idle
    \/ \E c \in Commands \ CommandsOf(Written) :
           r = [phase |-> "prepared", event |-> Append(Written, c)]
    \/ /\ Len(Written) > 0
       /\ r = [phase |-> "linked", event |-> Written]
    \/ /\ Len(Written) > 0
       /\ \E confirmed \in BOOLEAN :
              /\ r = [phase |-> "synced", event |-> Written, confirmed |-> confirmed]
              /\ confirmed => durable = files

ReaderStands(r) ==
    /\ r.phase = "listing" => r.present \subseteq files
    /\ r.phase = "read" => /\ Cardinality(r.events) \in 0..Len(Written)
                           /\ r.events = Files(Written, Cardinality(r.events))

OneWriter ==
    /\ opened \subseteq Processes
    /\ \A p, q \in opened : p = q
    /\ \A p \in Processes, t \in Threads : call[p][t] # Idle => p \in opened
    /\ \A p \in Processes, t, u \in Threads :
           call[p][t] # Idle /\ call[p][u] # Idle => t = u

FilesInv ==
    /\ Written \in Chain
    /\ files = Files(Written, Len(Written))
    /\ DurableStands
    /\ call = [p \in Processes |-> [t \in Threads |-> call[p][t]]]
    /\ reader = [r \in Readers |-> reader[r]]
    /\ OneWriter
    /\ \A p \in Processes, t \in Threads : CallStands(call[p][t])
    /\ \A r \in Readers : ReaderStands(reader[r])

-----------------------------------------------------------------------------
LEMMA InitInv == FilesInit => FilesInv
<1> SUFFICES ASSUME FilesInit PROVE FilesInv
  OBVIOUS
<1>1. Written = <<>> /\ Len(Written) = 0
  BY DEF FilesInit, Written, History
<1>2. Written \in Chain
  BY <1>1 DEF Chain
<1>3. files = Files(Written, Len(Written)) /\ durable = Files(Written, 0)
  BY <1>1 DEF FilesInit, Files
<1>4. DurableStands
  BY <1>1, <1>3 DEF FilesInit, DurableStands
<1>5. /\ call = [p \in Processes |-> [t \in Threads |-> call[p][t]]]
      /\ \A p \in Processes, t \in Threads : call[p][t] = Idle
  BY DEF FilesInit
<1>6. /\ reader = [r \in Readers |-> reader[r]]
      /\ \A r \in Readers : reader[r].phase = "idle"
  BY DEF FilesInit, NotReading
<1>7. OneWriter
  BY <1>5 DEF FilesInit, OneWriter
<1> QED
  BY <1>2, <1>3, <1>4, <1>5, <1>6, <1>7 DEF FilesInv, CallStands, ReaderStands

\* What a call has, by its phase.
LEMMA CallShape ==
    ASSUME NEW r, CallStands(r)
    PROVE  /\ r.phase = "prepared" =>
                  \E c \in Commands \ CommandsOf(Written) :
                      r = [phase |-> "prepared", event |-> Append(Written, c)]
           /\ r.phase = "linked" =>
                  Len(Written) > 0 /\ r = [phase |-> "linked", event |-> Written]
           /\ r.phase = "synced" =>
                  /\ Len(Written) > 0
                  /\ \E confirmed \in BOOLEAN :
                         /\ r = [phase |-> "synced", event |-> Written,
                                 confirmed |-> confirmed]
                         /\ confirmed => durable = files
<1>1. Idle.phase = "idle"
  BY DEF Idle
<1>2. CASE r = Idle
  BY <1>1, <1>2
<1>3. CASE \E c \in Commands \ CommandsOf(Written) :
               r = [phase |-> "prepared", event |-> Append(Written, c)]
  <2>1. r.phase = "prepared"
    BY <1>3
  <2> QED
    BY <1>3, <2>1
<1>4. CASE Len(Written) > 0 /\ r = [phase |-> "linked", event |-> Written]
  <2>1. r.phase = "linked"
    BY <1>4
  <2> QED
    BY <1>4, <2>1
<1>5. CASE /\ Len(Written) > 0
           /\ \E confirmed \in BOOLEAN :
                  /\ r = [phase |-> "synced", event |-> Written, confirmed |-> confirmed]
                  /\ confirmed => durable = files
  <2>1. r.phase = "synced"
    BY <1>5
  <2> QED
    BY <1>5, <2>1
<1> QED
  BY <1>2, <1>3, <1>4, <1>5 DEF CallStands

\* A call that is not idle is the only one.
LEMMA OnlyCall ==
    ASSUME FilesInv, NEW p \in Processes, NEW t \in Threads, call[p][t] # Idle
    PROVE  /\ p \in opened
           /\ \A q \in Processes, u \in Threads : q # p \/ u # t => call[q][u] = Idle
BY DEF FilesInv, OneWriter

\* In the process that holds the lock and is quiet, there is none.
LEMMA NoCall ==
    ASSUME FilesInv, NEW p \in opened, Quiet(p)
    PROVE  \A q \in Processes, u \in Threads : call[q][u] = Idle
BY DEF FilesInv, OneWriter, Quiet

\* A call that makes its next step, while the directory shows the same.
LEMMA CallStep ==
    ASSUME FilesInv, NEW p \in opened, NEW t \in Threads, NEW r,
           \A q \in Processes, u \in Threads : q # p \/ u # t => call[q][u] = Idle,
           call' = [call EXCEPT ![p][t] = r],
           CallStands(r)', DurableStands',
           UNCHANGED <<files, opened, reader>>
    PROVE  FilesInv'
<1>1. Written' = Written
  BY DEF Written
<1>2. p \in Processes
  BY DEF FilesInv, OneWriter
<1>3. \A q \in Processes, u \in Threads :
          call'[q][u] = IF q = p /\ u = t THEN r ELSE Idle
  BY <1>2 DEF FilesInv
<1>4. call' = [q \in Processes |-> [u \in Threads |-> call'[q][u]]]
  BY <1>2 DEF FilesInv
<1>5. OneWriter'
  BY <1>3 DEF FilesInv, OneWriter
<1>6. \A q \in Processes, u \in Threads : CallStands(call[q][u])'
  BY <1>3 DEF CallStands
<1>7. \A d \in Readers : ReaderStands(reader[d])'
  BY <1>1 DEF FilesInv, ReaderStands
<1> QED
  BY <1>1, <1>4, <1>5, <1>6, <1>7 DEF FilesInv

\* A step that leaves the directory and the calls alone.
LEMMA QuietStep ==
    ASSUME FilesInv, UNCHANGED <<files, durable, lasting>>, OneWriter',
           call' = [p \in Processes |-> [t \in Threads |-> call'[p][t]]],
           \A p \in Processes, t \in Threads : call'[p][t] \in {Idle, call[p][t]},
           reader' = [r \in Readers |-> reader'[r]],
           \A r \in Readers : ReaderStands(reader[r])'
    PROVE  FilesInv'
<1>1. Written' = Written
  BY DEF Written
<1>2. DurableStands'
  BY <1>1 DEF FilesInv, DurableStands
<1>3. \A p \in Processes, t \in Threads : CallStands(call[p][t])'
  <2> TAKE p \in Processes, t \in Threads
  <2>1. CASE call'[p][t] = Idle
    BY <2>1 DEF CallStands
  <2>2. CASE call'[p][t] = call[p][t]
    <3>1. CallStands(call[p][t])
      BY DEF FilesInv
    <3> QED
      BY <1>1, <2>2, <3>1 DEF CallStands
  <2> QED
    BY <2>1, <2>2
<1> QED
  BY <1>1, <1>2, <1>3 DEF FilesInv

-----------------------------------------------------------------------------
LEMMA OpenCloseInv ==
    ASSUME FilesInv, NEW p \in Processes, Open(p) \/ Close(p) \/ Kill(p)
    PROVE  FilesInv'
<1>1. UNCHANGED <<files, durable, reader, lasting>>
  BY DEF Open, Close, Kill
<1>2. \A r \in Readers : ReaderStands(reader[r])'
  BY <1>1 DEF FilesInv, ReaderStands, Written
<1>3. /\ call' = [q \in Processes |-> [t \in Threads |-> call'[q][t]]]
      /\ \A q \in Processes, t \in Threads : call'[q][t] \in {Idle, call[q][t]}
      /\ Kill(p) => \A t \in Threads : call'[p][t] = Idle
  BY DEF FilesInv, Open, Close, Kill
<1>4. OneWriter'
  <2>1. CASE Open(p)
    BY <2>1 DEF FilesInv, OneWriter, Open
  <2>2. CASE Close(p)
    BY <2>2 DEF FilesInv, OneWriter, Close, Quiet
  <2>3. CASE Kill(p)
    BY <1>3, <2>3 DEF FilesInv, OneWriter, Kill
  <2> QED
    BY <2>1, <2>2, <2>3
<1> QED
  BY <1>1, <1>2, <1>3, <1>4, QuietStep DEF FilesInv

LEMMA RepeatInv ==
    ASSUME FilesInv, NEW p \in Processes, NEW c \in Commands, Repeat(p, c)
    PROVE  FilesInv'
<1>1. UNCHANGED <<files, durable, opened, call, reader, lasting>>
  BY DEF Repeat
<1>2. \A r \in Readers : ReaderStands(reader[r])'
  BY <1>1 DEF FilesInv, ReaderStands, Written
<1>3. OneWriter'
  BY <1>1 DEF FilesInv, OneWriter
<1> QED
  BY <1>1, <1>2, <1>3, QuietStep DEF FilesInv

LEMMA PrepareInv ==
    ASSUME FilesInv, NEW p \in Processes, NEW t \in Threads, NEW c \in Commands,
           Prepare(p, t, c)
    PROVE  FilesInv'
<1> DEFINE r == [phase |-> "prepared", event |-> Append(Written, c)]
<1>1. p \in opened /\ Quiet(p) /\ c \in Commands \ CommandsOf(Written)
  BY DEF Prepare, MayCall, Written
<1>2. \A q \in Processes, u \in Threads : q # p \/ u # t => call[q][u] = Idle
  BY <1>1, NoCall
<1>3. UNCHANGED <<files, durable, opened, reader, lasting>> /\ Written' = Written
  BY DEF Prepare, Written
<1>4. call' = [call EXCEPT ![p][t] = r]
  BY DEF Prepare, Written
<1>5. CallStands(r)' /\ DurableStands'
  BY <1>1, <1>3 DEF CallStands, FilesInv, DurableStands
<1> QED
  BY <1>1, <1>2, <1>3, <1>4, <1>5, CallStep

LEMMA LinkInv ==
    ASSUME FilesInv, NEW p \in Processes, NEW t \in Threads, Link(p, t)
    PROVE  /\ FilesInv'
           /\ \/ Written' = Written
              \/ \E c \in Commands \ CommandsOf(Written) : Written' = Append(Written, c)
<1>1. call[p][t].phase = "prepared"
  BY DEF Link
<1>2. PICK c \in Commands \ CommandsOf(Written) :
          call[p][t] = [phase |-> "prepared", event |-> Append(Written, c)]
  BY <1>1, CallShape DEF FilesInv
<1>3. call[p][t] # Idle /\ call[p][t].event = Append(Written, c)
  BY <1>1, <1>2 DEF Idle
<1>4. /\ p \in opened
      /\ \A q \in Processes, u \in Threads : q # p \/ u # t => call[q][u] = Idle
  BY <1>3, OnlyCall
<1>5. CASE call[p][t].event \in files
  <2>1. UNCHANGED <<files, durable, opened, reader, lasting>> /\ Written' = Written
    BY <1>5 DEF Link, Written
  <2>2. call' = [call EXCEPT ![p][t] = Idle]
    BY <1>5 DEF Link
  <2>3. CallStands(Idle)' /\ DurableStands'
    BY <2>1 DEF CallStands, FilesInv, DurableStands
  <2> QED
    BY <1>4, <2>1, <2>2, <2>3, CallStep
<1>6. CASE call[p][t].event \notin files
  <2> DEFINE H == Written
             longer == Append(Written, c)
             r == [phase |-> "linked", event |-> longer]
  <2>1. H \in Chain /\ H \in Seq(Commands) /\ Len(H) \in Nat
    BY DEF FilesInv, Chain
  <2>2. files' = files \cup {longer} /\ UNCHANGED <<durable, opened, reader, lasting>>
    BY <1>3, <1>6 DEF Link
  <2>3. /\ longer \in Chain /\ Len(longer) = Len(H) + 1
        /\ CommandsOf(H) \subseteq CommandsOf(longer)
    BY <2>1, LongerIsChain
  <2>4. \A k \in 0..Len(H) : SubSeq(longer, 1, k) = SubSeq(H, 1, k)
    BY <2>1, BeginningOfLonger
  <2>5. SubSeq(longer, 1, Len(H) + 1) = longer
    <3>1. 0 \in 0..Len(H)
      BY <2>1
    <3> QED
      BY <2>1, <3>1, BeginningOfLonger
  <2>6. \A n \in 0..Len(H) : Files(longer, n) = Files(H, n)
    <3> TAKE n \in 0..Len(H)
    <3>1. \A k \in 1..n : SubSeq(longer, 1, k) = SubSeq(H, 1, k)
      BY <2>1, <2>4
    <3> HIDE DEF longer, H
    <3> QED
      BY <3>1 DEF Files
  <2>7. files' = Files(longer, Len(longer))
    <3>1. files = Files(longer, Len(H))
      BY <2>1, <2>6 DEF FilesInv
    <3>2. \A k \in 1..(Len(H) + 1) : k \in 1..Len(H) \/ k = Len(H) + 1
      BY <2>1
    <3>3. \A k \in 1..Len(H) : k \in 1..(Len(H) + 1)
      BY <2>1
    <3>4. Len(H) + 1 \in 1..(Len(H) + 1)
      BY <2>1
    <3> HIDE DEF longer, H
    <3> QED
      BY <2>2, <2>3, <2>5, <3>1, <3>2, <3>3, <3>4 DEF Files
  <2>8. Written' = longer
    BY <2>3, <2>7, FilesAreValid DEF Written
  <2>9. DurableStands'
    <3>1. PICK k \in 0..Len(H) :
              /\ durable = Files(H, k)
              /\ lasting \subseteq CommandsOf(SubSeq(H, 1, k))
      BY DEF FilesInv, DurableStands
    <3>2. k \in 0..Len(longer)
      BY <2>1, <2>3
    <3> QED
      BY <2>2, <2>4, <2>6, <2>8, <3>1, <3>2 DEF DurableStands
  <2>10. call' = [call EXCEPT ![p][t] = r]
    <3>1. call' = [call EXCEPT ![p][t] = [call[p][t] EXCEPT !.phase = "linked"]]
      BY <1>6 DEF Link
    <3>2. [call[p][t] EXCEPT !.phase = "linked"] = r
      BY <1>2
    <3> QED
      BY <3>1, <3>2
  <2>11. \A q \in Processes, u \in Threads :
            call'[q][u] = IF q = p /\ u = t THEN r ELSE Idle
    BY <1>4, <2>10 DEF FilesInv
  <2>12. call' = [q \in Processes |-> [u \in Threads |-> call'[q][u]]]
    BY <2>10 DEF FilesInv
  <2>13. \A q \in Processes, u \in Threads : CallStands(call[q][u])'
    <3> TAKE q \in Processes, u \in Threads
    <3>1. CASE q = p /\ u = t
      <4>1. call'[q][u] = [phase |-> "linked", event |-> Written']
        BY <2>8, <2>11, <3>1
      <4>2. Len(Written') > 0
        BY <2>1, <2>3, <2>8
      <4> QED
        BY <4>1, <4>2 DEF CallStands
    <3>2. CASE ~(q = p /\ u = t)
      BY <2>11, <3>2 DEF CallStands
    <3> QED
      BY <3>1, <3>2
  <2>14. OneWriter'
    BY <1>4, <2>2, <2>11 DEF FilesInv, OneWriter
  <2>15. \A d \in Readers : ReaderStands(reader[d])'
    <3> TAKE d \in Readers
    <3>1. ReaderStands(reader[d]) /\ reader'[d] = reader[d]
      BY <2>2 DEF FilesInv
    <3>2. CASE reader[d].phase = "read"
      <4>1. Cardinality(reader[d].events) \in 0..Len(longer)
        BY <2>1, <2>3, <3>1, <3>2 DEF ReaderStands
      <4>2. reader[d].events = Files(longer, Cardinality(reader[d].events))
        BY <2>6, <3>1, <3>2 DEF ReaderStands
      <4> QED
        BY <2>8, <3>1, <3>2, <4>1, <4>2 DEF ReaderStands
    <3>3. CASE reader[d].phase # "read"
      BY <2>2, <3>1, <3>3 DEF ReaderStands
    <3> QED
      BY <3>2, <3>3
  <2>16. reader' = [d \in Readers |-> reader'[d]]
    BY <2>2 DEF FilesInv
  <2>17. FilesInv'
    BY <2>3, <2>7, <2>8, <2>9, <2>12, <2>13, <2>14, <2>15, <2>16 DEF FilesInv
  <2> QED
    BY <1>2, <2>8, <2>17
<1> QED
  BY <1>5, <1>6

\* Sync, and then everything written is durable, or it could not be.
LEMMA SyncInv ==
    ASSUME FilesInv, NEW p \in Processes, NEW t \in Threads, Sync(p, t)
    PROVE  FilesInv'
<1>1. call[p][t].phase = "linked"
  BY DEF Sync
<1>2. Len(Written) > 0 /\ call[p][t] = [phase |-> "linked", event |-> Written]
  BY <1>1, CallShape DEF FilesInv
<1>3. call[p][t] # Idle /\ call[p][t].event = Written
  BY <1>1, <1>2 DEF Idle
<1>4. /\ p \in opened
      /\ \A q \in Processes, u \in Threads : q # p \/ u # t => call[q][u] = Idle
  BY <1>3, OnlyCall
<1>5. PICK works \in BOOLEAN :
          /\ call' = [call EXCEPT ![p][t] =
                         [phase |-> "synced", event |-> Written, confirmed |-> works]]
          /\ durable' = IF works THEN files ELSE durable
  BY <1>3 DEF Sync
<1>6. UNCHANGED <<files, opened, reader, lasting>> /\ Written' = Written
  BY DEF Sync, Written
<1> DEFINE r == [phase |-> "synced", event |-> Written, confirmed |-> works]
<1>7. CallStands(r)'
  BY <1>2, <1>5, <1>6 DEF CallStands
<1>8. DurableStands'
  <2>1. PICK k \in 0..Len(Written) :
            /\ durable = Files(Written, k)
            /\ lasting \subseteq CommandsOf(SubSeq(Written, 1, k))
    BY DEF FilesInv, DurableStands
  <2>2. CASE works
    <3>1. Written \in Chain /\ Written \in Seq(Commands) /\ Len(Written) \in 0..Len(Written)
      BY DEF FilesInv, Chain
    <3>2. SubSeq(Written, 1, Len(Written)) = Written
      BY <3>1, SubSeqFull
    <3>3. lasting \subseteq CommandsOf(Written)
      BY <2>1, <3>1, BeginningIsChain
    <3>4. durable' = Files(Written, Len(Written))
      BY <1>5, <2>2 DEF FilesInv
    <3> QED
      BY <1>6, <3>1, <3>2, <3>3, <3>4 DEF DurableStands
  <2>3. CASE ~works
    BY <1>5, <1>6, <2>1, <2>3 DEF DurableStands
  <2> QED
    BY <2>2, <2>3
<1> QED
  BY <1>4, <1>5, <1>6, <1>7, <1>8, CallStep

\* The answer tells of the last command of the chain.
LEMMA AnswerInv ==
    ASSUME FilesInv, NEW p \in Processes, NEW t \in Threads, Answer(p, t)
    PROVE  /\ FilesInv'
           /\ \E c \in CommandsOf(Written) :
                  /\ told' = told \cup {c}
                  /\ lasting' \in {lasting, lasting \cup {c}}
<1>1. call[p][t].phase = "synced"
  BY DEF Answer
<1>2. PICK confirmed \in BOOLEAN :
          /\ Len(Written) > 0
          /\ call[p][t] = [phase |-> "synced", event |-> Written, confirmed |-> confirmed]
          /\ confirmed => durable = files
  BY <1>1, CallShape DEF FilesInv
<1>3. /\ call[p][t] # Idle /\ call[p][t].event = Written
      /\ call[p][t].confirmed = confirmed
  BY <1>1, <1>2 DEF Idle
<1>4. /\ p \in opened
      /\ \A q \in Processes, u \in Threads : q # p \/ u # t => call[q][u] = Idle
  BY <1>3, OnlyCall
<1> DEFINE c == Written[Len(Written)]
<1>5. /\ told' = told \cup {c}
      /\ lasting' = IF confirmed THEN lasting \cup {c} ELSE lasting
      /\ call' = [call EXCEPT ![p][t] = Idle]
      /\ UNCHANGED <<files, durable, opened, reader>> /\ Written' = Written
  BY <1>3 DEF Answer, Written
<1>6. Written \in Chain /\ Written \in Seq(Commands) /\ Len(Written) \in 0..Len(Written)
  BY DEF FilesInv, Chain
<1>7. c \in CommandsOf(Written)
  BY <1>2, <1>6 DEF CommandsOf
<1>8. DurableStands'
  <2>1. PICK k \in 0..Len(Written) :
            /\ durable = Files(Written, k)
            /\ lasting \subseteq CommandsOf(SubSeq(Written, 1, k))
    BY DEF FilesInv, DurableStands
  <2>2. CASE confirmed
    <3>1. SubSeq(Written, 1, Len(Written)) = Written
      BY <1>6, SubSeqFull
    <3>2. lasting' \subseteq CommandsOf(Written)
      BY <1>5, <1>6, <1>7, <2>1, <2>2, BeginningIsChain
    <3>3. durable' = Files(Written, Len(Written))
      BY <1>2, <1>5, <2>2 DEF FilesInv
    <3> QED
      BY <1>5, <1>6, <3>1, <3>2, <3>3 DEF DurableStands
  <2>3. CASE ~confirmed
    BY <1>5, <2>1, <2>3 DEF DurableStands
  <2> QED
    BY <2>2, <2>3
<1>9. CallStands(Idle)'
  BY DEF CallStands
<1>10. FilesInv'
  BY <1>4, <1>5, <1>8, <1>9, CallStep
<1> QED
  BY <1>5, <1>7, <1>10

LEMMA FailInv ==
    ASSUME FilesInv, NEW p \in Processes, NEW t \in Threads, Fail(p, t)
    PROVE  FilesInv'
<1>1. call[p][t] # Idle
  BY DEF Fail, Idle
<1>2. /\ p \in opened
      /\ \A q \in Processes, u \in Threads : q # p \/ u # t => call[q][u] = Idle
  BY <1>1, OnlyCall
<1>3. UNCHANGED <<files, durable, opened, reader, lasting>> /\ Written' = Written
  BY DEF Fail, Written
<1>4. CallStands(Idle)' /\ DurableStands'
  BY <1>3 DEF CallStands, FilesInv, DurableStands
<1> QED
  BY <1>2, <1>3, <1>4, CallStep DEF Fail

LEMMA ListingInv ==
    ASSUME FilesInv, NEW r \in Readers, StartListing(r) \/ FinishListing(r)
    PROVE  FilesInv'
<1>1. UNCHANGED <<files, durable, opened, call, lasting>> /\ Written' = Written
  BY DEF StartListing, FinishListing, Written
<1>2. OneWriter'
  BY <1>1 DEF FilesInv, OneWriter
<1>3. reader' = [d \in Readers |-> reader'[d]]
  BY DEF FilesInv, StartListing, FinishListing
<1>4. ReaderStands(reader[r])'
  <2>1. CASE StartListing(r)
    <3>1. reader'[r] = [phase |-> "listing", present |-> files]
      BY <2>1 DEF StartListing, FilesInv
    <3> QED
      BY <1>1, <3>1 DEF ReaderStands
  <2>2. CASE FinishListing(r)
    <3>1. PICK late \in SUBSET (files \ reader[r].present) :
              reader' = [reader EXCEPT ![r] =
                            IF Valid(reader[r].present \cup late)
                            THEN [phase |-> "read", events |-> reader[r].present \cup late]
                            ELSE [phase |-> "refused"]]
      BY <2>2 DEF FinishListing
    <3> DEFINE names == reader[r].present \cup late
    <3>2. names \subseteq files
      BY <2>2 DEF FinishListing, FilesInv, ReaderStands
    <3>3. reader'[r] = IF Valid(names) THEN [phase |-> "read", events |-> names]
                       ELSE [phase |-> "refused"]
      BY <3>1 DEF FilesInv
    <3>4. CASE Valid(names)
      <4>1. names \in SUBSET Files(Written, Len(Written)) /\ Written \in Chain
        BY <3>2 DEF FilesInv
      <4> HIDE DEF names
      <4>2. /\ Cardinality(names) \in 0..Len(Written)
            /\ names = Files(Written, Cardinality(names))
        BY <3>4, <4>1, ValidListing
      <4>3. reader'[r].phase = "read" /\ reader'[r].events = names
        BY <3>3, <3>4
      <4> QED
        BY <1>1, <4>2, <4>3 DEF ReaderStands
    <3>5. CASE ~Valid(names)
      BY <3>3, <3>5 DEF ReaderStands
    <3> QED
      BY <3>4, <3>5
  <2> QED
    BY <2>1, <2>2
<1>5. \A d \in Readers \ {r} : reader'[d] = reader[d]
  BY DEF FilesInv, StartListing, FinishListing
<1>6. \A d \in Readers : ReaderStands(reader[d])'
  <2> TAKE d \in Readers
  <2>1. CASE d # r
    BY <1>1, <1>5, <2>1 DEF FilesInv, ReaderStands
  <2> QED
    BY <1>4, <2>1
<1>7. call' = [p \in Processes |-> [t \in Threads |-> call'[p][t]]]
  BY <1>1 DEF FilesInv
<1> QED
  BY <1>1, <1>2, <1>3, <1>6, <1>7, QuietStep

(***************************************************************************)
(* A power loss leaves a beginning of the chain, no shorter than what was  *)
(* durable.                                                                *)
(***************************************************************************)
LEMMA PowerLossInv ==
    ASSUME FilesInv, PowerLoss
    PROVE  /\ FilesInv'
           /\ \E n \in 0..Len(Written) : Written' = SubSeq(Written, 1, n)
           /\ lasting \subseteq CommandsOf(Written')
           /\ told' = told \cap CommandsOf(Written')
           /\ lasting' = lasting
<1> DEFINE H == Written
<1>1. H \in Chain /\ H \in Seq(Commands) /\ Len(H) \in Nat /\ Len(H) \in 0..Len(H)
  BY DEF FilesInv, Chain
<1>2. PICK k \in 0..Len(H) :
          durable = Files(H, k) /\ lasting \subseteq CommandsOf(SubSeq(H, 1, k))
  BY DEF FilesInv, DurableStands
<1>3. files = Files(H, Len(H)) /\ Cardinality(files) = Len(H)
  BY <1>1, FilesCount DEF FilesInv
<1>4. PICK length \in 0..Len(H) :
          LET left == durable \cup {e \in files : Len(e) <= length} IN
          /\ files' = left
          /\ durable' = left
          /\ opened' = {}
          /\ call' = [p \in Processes |-> [t \in Threads |-> Idle]]
          /\ reader' = [r \in Readers |-> NotReading]
          /\ told' = told \cap CommandsOf(History(left))
          /\ UNCHANGED lasting
  BY <1>3 DEF PowerLoss
<1> DEFINE n == IF length <= k THEN k ELSE length
           s == SubSeq(H, 1, n)
<1>5. n \in 0..Len(H) /\ k <= n /\ k \in 0..n
  BY <1>1
<1>6. files' = Files(H, n)
  <2>1. \A e \in Files(H, Len(H)) : Len(e) \in 1..Len(H) /\ e = SubSeq(H, 1, Len(e))
    BY <1>1, FilesOf
  <2>2. \A i \in 1..Len(H) : Len(SubSeq(H, 1, i)) = i /\ SubSeq(H, 1, i) \in Files(H, Len(H))
    BY <1>1, Beginning DEF Files
  <2>3. files' = Files(H, k) \cup {e \in Files(H, Len(H)) : Len(e) <= length}
    BY <1>2, <1>3, <1>4
  <2>4. {e \in Files(H, Len(H)) : Len(e) <= length} = Files(H, length)
    <3>1. \A i \in 1..length : i \in 1..Len(H) /\ i <= length
      BY <1>1
    <3> HIDE DEF H
    <3> QED
      BY <2>1, <2>2, <3>1 DEF Files
  <2>5. 1..k \cup 1..length = 1..n
    BY <1>1
  <2> HIDE DEF H, n
  <2> QED
    BY <2>3, <2>4, <2>5 DEF Files
<1>7. s \in Chain /\ Len(s) = n
  BY <1>1, <1>5, Beginning, BeginningIsChain
<1>8. Files(H, n) = Files(s, Len(s))
  BY <1>1, <1>5, <1>7, FilesOf
<1>9. Written' = s
  <2> HIDE DEF s
  <2> QED
    BY <1>6, <1>7, <1>8, FilesAreValid DEF Written
<1>10. lasting \subseteq CommandsOf(s)
  <2>1. SubSeq(s, 1, k) = SubSeq(H, 1, k)
    BY <1>1, <1>5, BeginningOfBeginning
  <2>2. CommandsOf(SubSeq(s, 1, k)) \subseteq CommandsOf(s)
    <3>1. k \in 0..Len(s)
      BY <1>5, <1>7
    <3> HIDE DEF s
    <3> QED
      BY <1>7, <3>1, BeginningIsChain
  <2> QED
    BY <1>2, <2>1, <2>2
<1>11. told' = told \cap CommandsOf(Written') /\ lasting' = lasting
  BY <1>4 DEF Written
<1>12. DurableStands'
  <2>1. durable' = Files(s, Len(s)) /\ Len(s) \in 0..Len(s)
    BY <1>4, <1>5, <1>6, <1>7, <1>8
  <2>2. SubSeq(s, 1, Len(s)) = s
    <3>1. s \in Seq(Commands)
      BY <1>7 DEF Chain
    <3> HIDE DEF s
    <3> QED
      BY <3>1, SubSeqFull
  <2> HIDE DEF s
  <2> QED
    BY <1>9, <1>10, <1>11, <2>1, <2>2 DEF DurableStands
<1>13. /\ call' = [p \in Processes |-> [t \in Threads |-> call'[p][t]]]
       /\ \A p \in Processes, t \in Threads : call'[p][t] = Idle
       /\ reader' = [r \in Readers |-> reader'[r]]
       /\ \A r \in Readers : reader'[r] = NotReading
  BY <1>4
<1>14. OneWriter'
  BY <1>4, <1>13 DEF OneWriter
<1>15. /\ \A p \in Processes, t \in Threads : CallStands(call[p][t])'
       /\ \A r \in Readers : ReaderStands(reader[r])'
  BY <1>13 DEF CallStands, ReaderStands, NotReading
<1>16. FilesInv'
  <2>1. Written' \in Chain /\ files' = Files(Written', Len(Written'))
    BY <1>6, <1>7, <1>8, <1>9
  <2> QED
    BY <1>12, <1>13, <1>14, <1>15, <2>1 DEF FilesInv
<1> QED
  BY <1>5, <1>9, <1>10, <1>11, <1>16

-----------------------------------------------------------------------------
\* The steps that leave the log alone, apart from those that change it.
LEMMA NextInv ==
    ASSUME FilesInv, [FilesNext]_fileVars
    PROVE  /\ FilesInv'
           /\ \/ UNCHANGED <<Written, told, lasting>>
              \/ /\ \E c \in Commands \ CommandsOf(Written) : Written' = Append(Written, c)
                 /\ UNCHANGED <<told, lasting>>
              \/ \E c \in CommandsOf(Written) :
                     /\ told' = told \cup {c}
                     /\ lasting' \in {lasting, lasting \cup {c}}
                     /\ UNCHANGED Written
              \/ /\ \E n \in 0..Len(Written) : Written' = SubSeq(Written, 1, n)
                 /\ lasting \subseteq CommandsOf(Written')
                 /\ told' = told \cap CommandsOf(Written')
                 /\ lasting' = lasting
<1>1. ASSUME NEW p \in Processes, Open(p) \/ Close(p) \/ Kill(p)
      PROVE  FilesInv' /\ UNCHANGED <<Written, told, lasting>>
  BY <1>1, OpenCloseInv DEF Open, Close, Kill, Written
<1>2. ASSUME NEW p \in Processes, NEW c \in Commands, Repeat(p, c)
      PROVE  /\ FilesInv'
             /\ c \in CommandsOf(Written) /\ told' = told \cup {c}
             /\ UNCHANGED <<Written, lasting>>
  BY <1>2, RepeatInv DEF Repeat, Written
<1>3. ASSUME NEW p \in Processes, NEW t \in Threads, NEW c \in Commands, Prepare(p, t, c)
      PROVE  FilesInv' /\ UNCHANGED <<Written, told, lasting>>
  BY <1>3, PrepareInv DEF Prepare, Written
<1>4. ASSUME NEW p \in Processes, NEW t \in Threads, Link(p, t)
      PROVE  /\ FilesInv' /\ UNCHANGED <<told, lasting>>
             /\ \/ Written' = Written
                \/ \E c \in Commands \ CommandsOf(Written) : Written' = Append(Written, c)
  BY <1>4, LinkInv DEF Link
<1>5. ASSUME NEW p \in Processes, NEW t \in Threads, Sync(p, t) \/ Fail(p, t)
      PROVE  FilesInv' /\ UNCHANGED <<Written, told, lasting>>
  BY <1>5, SyncInv, FailInv DEF Sync, Fail, Written
<1>6. ASSUME NEW p \in Processes, NEW t \in Threads, Answer(p, t)
      PROVE  /\ FilesInv' /\ UNCHANGED Written
             /\ \E c \in CommandsOf(Written) :
                    /\ told' = told \cup {c}
                    /\ lasting' \in {lasting, lasting \cup {c}}
  BY <1>6, AnswerInv DEF Answer, Written
<1>7. ASSUME NEW r \in Readers, StartListing(r) \/ FinishListing(r)
      PROVE  FilesInv' /\ UNCHANGED <<Written, told, lasting>>
  BY <1>7, ListingInv DEF StartListing, FinishListing, Written
<1>8. CASE PowerLoss
  BY <1>8, PowerLossInv
<1>9. CASE UNCHANGED fileVars
  <2>1. UNCHANGED <<files, durable, opened, call, reader, told, lasting>>
    BY <1>9 DEF fileVars
  <2>2. OneWriter' /\ \A r \in Readers : ReaderStands(reader[r])'
    BY <2>1 DEF FilesInv, OneWriter, ReaderStands, Written
  <2>3. FilesInv'
    BY <2>1, <2>2, QuietStep DEF FilesInv
  <2> QED
    BY <2>1, <2>3 DEF Written
<1> QED
  BY <1>1, <1>2, <1>3, <1>4, <1>5, <1>6, <1>7, <1>8, <1>9 DEF FilesNext

(***************************************************************************)
(* Every reachable state of the directory satisfies the invariant.         *)
(***************************************************************************)
THEOREM FilesInvariant == FilesSpec => []FilesInv
<1>1. FilesInv /\ [FilesNext]_fileVars => FilesInv'
  BY NextInv
<1> QED
  BY <1>1, InitInv, PTL DEF FilesSpec

(***************************************************************************)
(* _read_event_snapshot accepts whatever the program itself has written,   *)
(* killed and cut off by power losses as it may be.                        *)
(***************************************************************************)
THEOREM DirectoryAlwaysValid == FilesSpec => []DirectoryIsValid
<1>1. FilesInv => DirectoryIsValid
  BY FilesAreValid DEF FilesInv, DirectoryIsValid
<1> QED
  BY <1>1, FilesInvariant, PTL

(***************************************************************************)
(* A reader that accepts what it listed without the lock has a beginning   *)
(* of the history.                                                         *)
(***************************************************************************)
THEOREM ReadersAreNeverMisled == FilesSpec => []ReadersSeePrefixes
<1>1. FilesInv => ReadersSeePrefixes
  BY DEF FilesInv, ReaderStands, ReadersSeePrefixes, Files, Written
<1> QED
  BY <1>1, FilesInvariant, PTL

(***************************************************************************)
(* The files implement the append-only log: every step of a process, a     *)
(* reader or the host extends it by a command it does not have, tells of   *)
(* one it has, loses a suffix no caller was promised, or does nothing.     *)
(***************************************************************************)
THEOREM FilesImplementLog == FilesSpec => ImplementsLog
<1>1. FilesInit => Log!LogInit
  BY DEF FilesInit, History, Log!LogInit
<1>2. FilesInv /\ [FilesNext]_fileVars => [Log!LogNext]_Log!logVars
  <2> SUFFICES ASSUME FilesInv, [FilesNext]_fileVars
               PROVE  [Log!LogNext]_Log!logVars
    OBVIOUS
  <2>1. \A chain : Log!Recorded(chain) = CommandsOf(chain)
    BY DEF Log!Recorded, CommandsOf
  <2>2. CommandsOf(Written) \subseteq Commands
    BY DEF FilesInv, Chain, CommandsOf
  <2>3. CASE UNCHANGED <<Written, told, lasting>>
    BY <2>3 DEF Log!logVars, Written
  <2>4. ASSUME NEW c \in Commands \ CommandsOf(Written), Written' = Append(Written, c),
               UNCHANGED <<told, lasting>>
        PROVE  Log!LogNext
    <3>1. Log!Extend(c)
      BY <2>1, <2>4 DEF Log!Extend, Written
    <3> QED
      BY <3>1 DEF Log!LogNext
  <2>5. ASSUME NEW c \in CommandsOf(Written), told' = told \cup {c},
               lasting' \in {lasting, lasting \cup {c}}, UNCHANGED Written
        PROVE  Log!LogNext
    <3>1. Log!Tell(c)
      BY <2>1, <2>5 DEF Log!Tell, Written
    <3> QED
      BY <2>2, <3>1 DEF Log!LogNext
  <2>6. ASSUME \E n \in 0..Len(Written) : Written' = SubSeq(Written, 1, n),
               lasting \subseteq CommandsOf(Written'),
               told' = told \cap CommandsOf(Written'), lasting' = lasting
        PROVE  Log!LogNext
    <3>1. Log!LoseSuffix
      BY <2>1, <2>6 DEF Log!LoseSuffix, Written
    <3> QED
      BY <3>1 DEF Log!LogNext
  <2> QED
    BY <2>3, <2>4, <2>5, <2>6, NextInv
<1> QED
  BY <1>1, <1>2, FilesInvariant, PTL DEF FilesSpec, ImplementsLog, Log!LogSpec

-----------------------------------------------------------------------------
\* A step of the abstract log keeps what callers were told.
LEMMA LogStepKeeps ==
    ASSUME History(files) \in Seq(Commands), Log!ToldIsRecorded,
           [Log!LogNext]_Log!logVars
    PROVE  /\ History(files)' \in Seq(Commands)
           /\ Log!ToldIsRecorded'
<1> DEFINE log == History(files)
<1>1. \A i \in 1..Len(log) : log[i] \in Commands
  OBVIOUS
<1>2. CASE UNCHANGED Log!logVars
  BY <1>2 DEF Log!logVars, Log!ToldIsRecorded, Log!Recorded
<1>3. ASSUME NEW c \in Commands, Log!Extend(c)
      PROVE  log' \in Seq(Commands) /\ Log!ToldIsRecorded'
  <2>1. log' = Append(log, c) /\ told' = told /\ lasting' = lasting
    BY <1>3 DEF Log!Extend
  <2> DEFINE longer == Append(log, c)
  <2>2. /\ longer \in Seq(Commands) /\ Len(longer) = Len(log) + 1
        /\ \A i \in 1..Len(log) : longer[i] = log[i]
    BY AppendProperties
  <2>3. Log!Recorded(log) \subseteq Log!Recorded(longer)
    <3> HIDE DEF longer
    <3> QED
      BY <2>2 DEF Log!Recorded
  <2> QED
    BY <2>1, <2>2, <2>3 DEF Log!ToldIsRecorded
<1>4. ASSUME NEW c \in Commands, Log!Tell(c)
      PROVE  log' \in Seq(Commands) /\ Log!ToldIsRecorded'
  BY <1>4 DEF Log!Tell, Log!ToldIsRecorded
<1>5. CASE Log!LoseSuffix
  <2>1. PICK n \in 0..Len(log) : log' = SubSeq(log, 1, n)
    BY <1>5 DEF Log!LoseSuffix
  <2>2. SubSeq(log, 1, n) \in Seq(Commands)
    BY Beginning
  <2>3. /\ lasting' = lasting /\ lasting \subseteq Log!Recorded(log')
        /\ told' = told \cap Log!Recorded(log')
    BY <1>5 DEF Log!LoseSuffix
  <2>4. lasting' \subseteq told' /\ told' \subseteq Log!Recorded(log')
    BY <2>3 DEF Log!ToldIsRecorded
  <2> QED
    BY <2>1, <2>2, <2>4 DEF Log!ToldIsRecorded
<1> QED
  BY <1>2, <1>3, <1>4, <1>5 DEF Log!LogNext

(***************************************************************************)
(* A caller who was told that a command is saved finds it in the           *)
(* directory, as long as no power loss takes it; what was confirmed synced *)
(* no power loss takes.  It is a promise of the abstract log, and the      *)
(* files keep it because they implement that log.                          *)
(***************************************************************************)
THEOREM SavedIsFound == FilesSpec => []Log!ToldIsRecorded
<1> DEFINE Kept == History(files) \in Seq(Commands) /\ Log!ToldIsRecorded
<1>1. Log!LogInit => Kept
  BY EmptySeq DEF Log!LogInit, Log!ToldIsRecorded
<1>2. Kept /\ [Log!LogNext]_Log!logVars => Kept'
  BY LogStepKeeps
<1>3. Log!LogSpec => []Kept
  BY <1>1, <1>2, PTL DEF Log!LogSpec
<1>4. Kept => Log!ToldIsRecorded
  OBVIOUS
<1> QED
  BY <1>3, <1>4, FilesImplementLog, PTL DEF ImplementsLog
=============================================================================
