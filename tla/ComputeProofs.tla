---------------------------- MODULE ComputeProofs ----------------------------
(* The parts the compute process is made of. The triple buffer is safe for   *)
(* every snapshot size, every number of publishes and every number of        *)
(* deaths. integrate is free of overflow, keeps every position in int32_t    *)
(* and follows the exact path, for every width of the integers, every length *)
(* of a second, every sample and every step: TLC sees 4-bit positions only.  *)
(* The watchdog's stall check and finish_cycle's sleep are right for every   *)
(* period, floor and length of a run.                                        *)
EXTENDS Kernels, TLAPS

------------------------------------------------------------------------------
(* The triple buffer: the invariant *)

\* A slot or a copy that holds one snapshot, of those published so far.
Published(s) == \E n \in 0 .. version : s = Whole(n)

\* The contents: what the writer has filled, what the spare slot and the
\* reader's slot hold, and how far the reader's copy is.
Contents ==
  ~ lost =>
    /\ wpc = "fill" => \A p \in 1 .. widx - 1 : slots[write][p] = version + 1
    /\ wpc = "exchange" => slots[write] = Whole(version + 1)
    /\ middle.fresh => Published(slots[middle.ix])
    /\ Published(slots[ReaderSlot])
    /\ rpc = "exchange" => middle.fresh
    /\ rpc = "copy" => \A p \in 1 .. ridx - 1 : copy[p] = slots[read][p]
    /\ rpc # "copy" => Published(copy)
    /\ wpc # "fill" => widx = 1
    /\ rpc # "copy" => ridx = 1

\* A filled slot is within the bound on publishes.
Room == wpc = "exchange" => version < MaxPublish

TripleInv == TypeOK /\ Room /\ Ownership /\ Contents

\* The exchange of publish() and of consume() and the assignments after them
\* keep every index and counter in its range.
LEMMA TypeInvariant == TypeOK /\ Room /\ [Next]_vars => TypeOK' /\ Room'
<1> SUFFICES ASSUME TypeOK, Room, [Next]_vars PROVE TypeOK' /\ Room'
  BY Zenon
<1> USE TripleBufferAssumption DEF Versions, Parts, Room
<1>1. CASE Fill
  <2>1. version + 1 \in Versions
    BY <1>1 DEF Fill, TypeOK
  <2>2. slots' \in [Slots -> [Parts -> Versions]]
    BY <1>1, <2>1, Zenon DEF Fill, TypeOK
  <2>3. wpc' \in {"fill", "exchange", "adopt"} /\ widx' \in Parts
    <3>1. CASE Filled
      BY <1>1, <3>1 DEF Fill, TypeOK
    <3>2. CASE ~ Filled
      <4>1. widx + 1 \in Parts
        BY <3>2 DEF Filled, TypeOK
      <4> QED
        BY <1>1, <3>2, <4>1, Zenon DEF Fill, TypeOK
    <3> QED
      BY <3>1, <3>2, Zenon
  <2> QED
    BY <1>1, <2>2, <2>3, Zenon DEF Fill, TypeOK
<1>2. CASE PublishExchange
  <2>1. version' \in Versions /\ wold' \in Slots /\ wpc' = "adopt"
    BY <1>2 DEF PublishExchange, TypeOK
  <2>2. middle' \in [ix : Slots, fresh : BOOLEAN]
    BY <1>2, Zenon DEF PublishExchange, TypeOK
  <2> QED
    BY <1>2, <2>1, <2>2, Zenon DEF PublishExchange, TypeOK
<1>3. CASE PublishAdopt
  BY <1>3, Zenon DEF PublishAdopt, TypeOK, WriterNext
<1>4. CASE ConsumeLoad
  BY <1>4, Zenon DEF ConsumeLoad, TypeOK
<1>5. CASE ConsumeExchange
  BY <1>5, Zenon DEF ConsumeExchange, TypeOK, FreshCleared
<1>6. CASE ConsumeAdopt
  BY <1>6, SMTT(30) DEF ConsumeAdopt, TypeOK
<1>7. CASE Copy
  <2>1. copy' \in [Parts -> Versions]
    <3>1. slots[read] \in [Parts -> Versions]
      BY Zenon DEF TypeOK
    <3>2. slots[read][ridx] \in Versions
      BY <3>1, SMTT(30) DEF TypeOK
    <3> HIDE DEF Versions, Parts
    <3> QED
      BY <1>7, <3>2, Zenon DEF Copy, TypeOK
  <2>2. rpc' \in {"load", "exchange", "adopt", "copy"} /\ ridx' \in Parts
    <3>1. CASE ridx = kParts
      BY <1>7, <3>1 DEF Copy, TypeOK
    <3>2. CASE ridx # kParts
      <4>1. ridx + 1 \in Parts
        BY <3>2 DEF TypeOK
      <4> QED
        BY <1>7, <3>2, <4>1, Zenon DEF Copy, TypeOK
    <3> QED
      BY <3>1, <3>2, Zenon
  <2> QED
    BY <1>7, <2>1, <2>2, Zenon DEF Copy, TypeOK
<1>8. CASE WriterDies
  <2>1. deaths' \in 0 .. MaxDeaths /\ widx' \in Parts
    BY <1>8 DEF WriterDies, TypeOK
  <2>2. lost' \in BOOLEAN
    BY <1>8, Zenon DEF WriterDies, TypeOK
  <2> QED
    BY <1>8, <2>1, <2>2, Zenon DEF WriterDies, TypeOK
<1>9. CASE ReaderDies
  <2>1. deaths' \in 0 .. MaxDeaths /\ ridx' \in Parts
    BY <1>9 DEF ReaderDies, TypeOK
  <2>2. lost' \in BOOLEAN
    BY <1>9, Zenon DEF ReaderDies, TypeOK
  <2>3. copy' \in [Parts -> Versions]
    BY <1>9 DEF ReaderDies, Whole
  <2> QED
    BY <1>9, <2>1, <2>2, <2>3, Zenon DEF ReaderDies, TypeOK
<1>10. CASE UNCHANGED vars
  BY <1>10, Zenon DEF vars, TypeOK
<1> QED
  BY <1>1, <1>2, <1>3, <1>4, <1>5, <1>6, <1>7, <1>8, <1>9, <1>10, Zenon
     DEF Next, Writer, Reader

------------------------------------------------------------------------------
\* An exchange permutes the three slots among the writer, the spare place and
\* the reader; no other step moves one.
LEMMA OwnershipInvariant == TypeOK /\ Contents /\ Ownership /\ [Next]_vars => Ownership'
<1> SUFFICES ASSUME TypeOK, Ownership, [Next]_vars, ~ lost'
             PROVE  /\ WriterSlot' # ReaderSlot'
                    /\ middle'.ix \notin {WriterSlot', ReaderSlot'}
  BY Zenon DEF Ownership
<1> USE DEF WriterSlot, ReaderSlot, Ownership
<1>1. CASE Fill
  BY <1>1, Zenon DEF Fill
<1>2. CASE PublishExchange
  BY <1>2, Zenon DEF PublishExchange
<1>3. CASE PublishAdopt
  BY <1>3, Zenon DEF PublishAdopt, WriterNext
<1>4. CASE ConsumeLoad
  BY <1>4, Zenon DEF ConsumeLoad
<1>5. CASE ConsumeExchange
  BY <1>5, Zenon DEF ConsumeExchange
<1>6. CASE ConsumeAdopt
  BY <1>6, Zenon DEF ConsumeAdopt
<1>7. CASE Copy
  BY <1>7, Zenon DEF Copy
<1>8. CASE WriterDies
  BY <1>8, Zenon DEF WriterDies
<1>9. CASE ReaderDies
  BY <1>9, Zenon DEF ReaderDies
<1>10. CASE UNCHANGED vars
  BY <1>10, Zenon DEF vars
<1> QED
  BY <1>1, <1>2, <1>3, <1>4, <1>5, <1>6, <1>7, <1>8, <1>9, <1>10, Zenon
     DEF Next, Writer, Reader

------------------------------------------------------------------------------
\* The writer stores only into its own slot, so the spare slot and the reader's
\* keep the whole snapshot they were given.
LEMMA ContentsInvariant == TripleInv /\ [Next]_vars => Contents'
<1> SUFFICES ASSUME TripleInv, [Next]_vars, ~ lost'
             PROVE  /\ wpc' = "fill" => \A p \in 1 .. widx' - 1 : slots'[write'][p] = version' + 1
                    /\ wpc' = "exchange" => slots'[write'] = Whole(version' + 1)
                    /\ middle'.fresh => Published(slots[middle.ix])'
                    /\ Published(slots[ReaderSlot])'
                    /\ rpc' = "exchange" => middle'.fresh
                    /\ rpc' = "copy" => \A p \in 1 .. ridx' - 1 : copy'[p] = slots'[read'][p]
                    /\ rpc' # "copy" => Published(copy)'
                    /\ wpc' # "fill" => widx' = 1
                    /\ rpc' # "copy" => ridx' = 1
  BY Zenon DEF Contents
<1>0. ~ lost
  BY Zenon DEF Next, Writer, Reader, Fill, PublishExchange, PublishAdopt, ConsumeLoad,
         ConsumeExchange, ConsumeAdopt, Copy, WriterDies, ReaderDies, vars
<1> USE TripleBufferAssumption, <1>0 DEF TripleInv
<1>a. TypeOK /\ Contents /\ WriterSlot # ReaderSlot
        /\ middle.ix \notin {WriterSlot, ReaderSlot} /\ version \in Nat
  BY DEF Ownership, TypeOK, Versions
<1>1. CASE Fill
  <2>1. /\ UNCHANGED <<write, read, middle, version, rpc, ridx, rold, copy>>
        /\ wpc = "fill" /\ widx \in Parts
        /\ slots'[write] = [slots[write] EXCEPT ![widx] = version + 1]
        /\ \A s \in Slots \ {write} : slots'[s] = slots[s]
        /\ slots[write] \in [Parts -> Versions]
    BY <1>1, <1>a, Zenon DEF Fill, TypeOK
  <2>2. slots'[middle.ix] = slots[middle.ix] /\ slots'[ReaderSlot] = slots[ReaderSlot]
          /\ ReaderSlot' = ReaderSlot
    BY <2>1, <1>a, Zenon DEF WriterSlot, ReaderSlot, TypeOK
  <2>3. \A p \in 1 .. widx : slots'[write][p] = version + 1
    <3> SUFFICES ASSUME NEW p \in 1 .. widx PROVE slots'[write][p] = version + 1
      BY Zenon
    <3>1. p \in Parts /\ (p = widx \/ p \in 1 .. widx - 1)
      BY <2>1 DEF Parts
    <3> QED
      BY <2>1, <3>1, <1>a DEF Contents
  <2>4. CASE Filled
    <3>1. wpc' = "exchange" /\ widx' = 1
      BY <1>1, <2>4, Zenon DEF Fill
    <3>2. slots'[write] = Whole(version + 1)
      <4>1. slots'[write] = [p \in Parts |-> slots'[write][p]]
        BY <2>1, Zenon
      <4>2. \A p \in Parts : slots'[write][p] = version + 1
        BY <2>3, <2>4, ZenonT(30) DEF Filled, Parts
      <4> QED
        BY <4>1, <4>2, Zenon DEF Whole
    <3> QED
      BY <3>1, <3>2, <2>1, <2>2, <1>a DEF Contents, Published, ReaderSlot
  <2>5. CASE ~ Filled
    <3>1. wpc' = "fill" /\ widx' - 1 = widx
      BY <1>1, <2>1, <2>5 DEF Fill, Parts
    <3> QED
      BY <3>1, <2>3, <2>1, <2>2, <1>a DEF Contents, Published, ReaderSlot
  <2> QED
    BY <2>4, <2>5, Zenon
<1>2. CASE PublishExchange
  <2>1. /\ UNCHANGED <<slots, read, rpc, ridx, rold, copy, widx>>
        /\ wpc' = "adopt" /\ widx = 1
        /\ middle'.ix = write /\ middle'.fresh /\ version' = version + 1
        /\ slots[write] = Whole(version + 1)
    BY <1>2, <1>a, Zenon DEF PublishExchange, Contents
  <2>2. ReaderSlot' = ReaderSlot
    BY <2>1, Zenon DEF ReaderSlot
  <2>3. Published(slots[middle.ix])'
    BY <2>1, <1>a DEF Published
  <2>4. ASSUME NEW s, Published(s) PROVE \E n \in 0 .. version' : s = Whole(n)
    BY <2>4, <2>1, <1>a DEF Published
  <2>5. Published(slots[ReaderSlot])'
    BY <2>4, <2>2, <2>1, <1>a DEF Contents, Published
  <2>6. rpc' # "copy" => Published(copy)'
    BY <2>4, <2>1, <1>a DEF Contents, Published
  <2> QED
    BY <2>1, <2>3, <2>5, <2>6, <1>a, Zenon DEF Contents
<1>3. CASE PublishAdopt
  <2>1. /\ UNCHANGED <<slots, read, middle, version, rpc, ridx, rold, copy, widx>>
        /\ wpc' = "fill" /\ wpc = "adopt" /\ ReaderSlot' = ReaderSlot
    BY <1>3, Zenon DEF PublishAdopt, ReaderSlot
  <2> QED
    BY <2>1, <1>a DEF Contents, Published
<1>4. CASE ConsumeLoad
  BY <1>4, <1>a, Zenon DEF ConsumeLoad, Contents, Published, ReaderSlot
<1>5. CASE ConsumeExchange
  BY <1>5, <1>a, Zenon DEF ConsumeExchange, Contents, Published, ReaderSlot, FreshCleared
<1>6. CASE ConsumeAdopt
  BY <1>6, <1>a DEF ConsumeAdopt, Contents, Published, ReaderSlot
<1>7. CASE Copy
  <2>1. /\ UNCHANGED <<slots, write, read, middle, version, wpc, widx>>
        /\ rpc = "copy" /\ ridx \in Parts /\ read \in Slots
        /\ copy' = [copy EXCEPT ![ridx] = slots[read][ridx]]
        /\ copy \in [Parts -> Versions] /\ slots[read] \in [Parts -> Versions]
        /\ ReaderSlot = read /\ ReaderSlot' = read
    BY <1>7, <1>a, Zenon DEF Copy, TypeOK, ReaderSlot
  <2>2. \A p \in 1 .. ridx : copy'[p] = slots[read][p]
    <3> SUFFICES ASSUME NEW p \in 1 .. ridx PROVE copy'[p] = slots[read][p]
      BY Zenon
    <3>1. p \in Parts /\ (p = ridx \/ p \in 1 .. ridx - 1)
      BY <2>1 DEF Parts
    <3> QED
      BY <2>1, <3>1, <1>a, Zenon DEF Contents
  <2>3. CASE ridx = kParts
    <3>1. rpc' = "load" /\ ridx' = 1
      BY <1>7, <2>3, Zenon DEF Copy
    <3>2. copy' = slots[read]
      <4>1. \A p \in Parts : copy'[p] = slots[read][p]
        BY <2>2, <2>3, Zenon DEF Parts
      <4>2. copy' = [p \in Parts |-> copy'[p]]
        BY <2>1, Zenon
      <4>3. slots[read] = [p \in Parts |-> slots[read][p]]
        BY <2>1, Zenon
      <4> QED
        BY <4>1, <4>2, <4>3, Zenon
    <3>3. Published(copy)'
      BY <3>2, <2>1, <1>a, ZenonT(30) DEF Contents, Published
    <3> QED
      BY <3>1, <3>3, <2>1, <1>a, Zenon DEF Contents, Published
  <2>4. CASE ridx # kParts
    <3>1. rpc' = "copy" /\ ridx' - 1 = ridx
      BY <1>7, <2>1, <2>4 DEF Copy, Parts
    <3> QED
      BY <3>1, <2>2, <2>1, <1>a DEF Contents, Published
  <2> QED
    BY <2>3, <2>4, Zenon
<1>8. CASE WriterDies
  BY <1>8, <1>a DEF WriterDies, Contents, Published, ReaderSlot
<1>9. CASE ReaderDies
  <2>1. /\ UNCHANGED <<slots, write, read, middle, version, wpc, widx>>
        /\ rpc # "adopt" /\ rpc' = "load" /\ ridx' = 1 /\ copy' = Whole(0)
    BY <1>9, Zenon DEF ReaderDies
  <2>2. ReaderSlot' = ReaderSlot
    BY <2>1, Zenon DEF ReaderSlot
  <2>3. Published(copy)'
    BY <2>1, <1>a DEF Published
  <2> QED
    BY <2>1, <2>2, <2>3, <1>a, Zenon DEF Contents, Published
<1>10. CASE UNCHANGED vars
  BY <1>10, <1>a, Zenon DEF vars, Contents, Published, ReaderSlot
<1> QED
  BY <1>1, <1>2, <1>3, <1>4, <1>5, <1>6, <1>7, <1>8, <1>9, <1>10, Zenon
     DEF Next, Writer, Reader

------------------------------------------------------------------------------
\* The constructor establishes the invariant.
LEMMA InitInvariant == Init => TripleInv
<1> SUFFICES ASSUME Init PROVE TripleInv
  BY Zenon
<1> USE TripleBufferAssumption
<1>1. 0 \in Versions /\ 1 \in Parts /\ Whole(0) \in [Parts -> Versions]
  BY DEF Versions, Parts, Whole
<1>2. TypeOK /\ Room
  <2>1. 0 \in Slots /\ 1 \in Slots /\ 2 \in Slots /\ 0 \in 0 .. MaxDeaths
    BY DEF Slots
  <2>2. slots \in [Slots -> [Parts -> Versions]]
    BY <1>1, Zenon DEF Init
  <2>3. middle \in [ix : Slots, fresh : BOOLEAN]
    BY <2>1, Zenon DEF Init
  <2> QED
    BY <1>1, <2>1, <2>2, <2>3, Zenon DEF Init, TypeOK, Room
<1>3. Ownership
  BY DEF Init, Ownership, WriterSlot, ReaderSlot
<1>4. Published(Whole(0)) /\ slots[ReaderSlot] = Whole(0)
  BY DEF Init, Published, ReaderSlot, Slots
<1> QED
  BY <1>2, <1>3, <1>4 DEF TripleInv, Contents, Init

\* The inductive invariant: who owns which slot and what the slots hold.
THEOREM TripleInvariant == Spec => []TripleInv
<1>1. TripleInv /\ [Next]_vars => TripleInv'
  BY TypeInvariant, OwnershipInvariant, ContentsInvariant, Zenon DEF TripleInv
<1> QED
  BY InitInvariant, <1>1, PTL DEF Spec

\* Indices, counters and program counters stay in their ranges.
THEOREM TripleTypes == Spec => []TypeOK
<1>1. TripleInv => TypeOK
  BY Zenon DEF TripleInv
<1> QED
  BY TripleInvariant, <1>1, PTL

\* publish() and consume() never let two sides own one slot, whatever the
\* interleaving and wherever a process dies but between an exchange and the
\* assignment after it.
THEOREM SlotsOwned == Spec => []Ownership
<1>1. TripleInv => Ownership
  BY Zenon DEF TripleInv
<1> QED
  BY TripleInvariant, <1>1, PTL

\* A finished copy of read_slot() is one published snapshot.
THEOREM CopiesWhole == Spec => []WholeCopy
<1>1. TripleInv => WholeCopy
  BY Zenon DEF TripleInv, Contents, Published, WholeCopy
<1> QED
  BY TripleInvariant, <1>1, PTL

------------------------------------------------------------------------------
(* The triple buffer: refinement *)

\* The constructed buffer maps to an empty register.
LEMMA InitRefines == Init => Register!Init
  BY DEF Init, Register!Init, ReaderSlot, Slots

\* publish()'s exchange is a Put, consume()'s a Take, every other step stutters.
LEMMA StepRefines ==
  TripleInv /\ [Next]_vars => lost' \/ Register!Next \/ UNCHANGED Register!vars
<1> SUFFICES ASSUME TripleInv, [Next]_vars, ~ lost'
             PROVE Register!Next \/ UNCHANGED Register!vars
  BY Zenon
<1>0. ~ lost
  BY Zenon DEF Next, Writer, Reader, Fill, PublishExchange, PublishAdopt, ConsumeLoad,
         ConsumeExchange, ConsumeAdopt, Copy, WriterDies, ReaderDies, vars
<1>a. TypeOK /\ Room /\ Contents /\ WriterSlot # ReaderSlot
        /\ middle.ix \notin {WriterSlot, ReaderSlot}
  BY <1>0, Zenon DEF TripleInv, Ownership
<1> USE TripleBufferAssumption, <1>0, <1>a
<1>s. ASSUME UNCHANGED <<middle, version, ReaderSlot>>,
             slots'[middle.ix] = slots[middle.ix], slots'[ReaderSlot] = slots[ReaderSlot]
      PROVE  UNCHANGED Register!vars
  BY <1>s, Zenon DEF Register!vars
<1>1. CASE Fill
  <2>1. UNCHANGED <<middle, version, ReaderSlot>> /\ middle.ix # write /\ ReaderSlot # write
    BY <1>1, Zenon DEF Fill, ReaderSlot, WriterSlot
  <2>2. \A s \in Slots \ {write} : slots'[s] = slots[s]
    BY <1>1, Zenon DEF Fill, TypeOK
  <2>3. middle.ix \in Slots /\ ReaderSlot \in Slots
    BY Zenon DEF TypeOK, ReaderSlot
  <2> QED
    BY <2>1, <2>2, <2>3, <1>s, Zenon
<1>2. CASE PublishExchange
  <2>1. middle' = [ix |-> write, fresh |-> TRUE] /\ slots' = slots /\ ReaderSlot' = ReaderSlot
    BY <1>2, Zenon DEF PublishExchange, ReaderSlot
  <2>2. slots[write] = Whole(version + 1)
    BY <1>2, Zenon DEF PublishExchange, Contents, TypeOK, Versions, Room
  <2>3. Register!Put
    BY <2>1, <2>2, Zenon DEF Register!Put
  <2> QED
    BY <2>3, Zenon DEF Register!Next
<1>3. CASE PublishAdopt
  BY <1>3, <1>s, Zenon DEF PublishAdopt, ReaderSlot
<1>4. CASE ConsumeLoad
  BY <1>4, <1>s, Zenon DEF ConsumeLoad, ReaderSlot
<1>5. CASE ConsumeExchange
  <2>1. middle.fresh /\ middle' = [ix |-> read, fresh |-> FALSE] /\ slots' = slots
          /\ version' = version /\ ReaderSlot' = middle.ix
    BY <1>5, Zenon DEF ConsumeExchange, ReaderSlot, FreshCleared, Contents
  <2>2. Register!Take
    BY <2>1, Zenon DEF Register!Take
  <2> QED
    BY <2>2, Zenon DEF Register!Next
<1>6. CASE ConsumeAdopt
  BY <1>6, <1>s, Zenon DEF ConsumeAdopt, ReaderSlot
<1>7. CASE Copy
  BY <1>7, <1>s, Zenon DEF Copy, ReaderSlot
<1>8. CASE WriterDies
  BY <1>8, <1>s, Zenon DEF WriterDies, ReaderSlot
<1>9. CASE ReaderDies
  <2>1. slots' = slots /\ UNCHANGED <<middle, version, ReaderSlot>>
    BY <1>9, Zenon DEF ReaderDies, ReaderSlot
  <2> QED
    BY <2>1, <1>s, Zenon
<1>10. CASE UNCHANGED vars
  BY <1>10, <1>s, Zenon DEF vars, ReaderSlot
<1> QED
  BY <1>1, <1>2, <1>3, <1>4, <1>5, <1>6, <1>7, <1>8, <1>9, <1>10, Zenon
     DEF Next, Writer, Reader

\* The triple buffer implements the latest-value register until a slot is
\* forgotten.
THEOREM TripleRefines == Spec => IsLatestValue
  BY TripleInvariant, InitRefines, StepRefines, PTL DEF Spec, IsLatestValue

------------------------------------------------------------------------------
(* The integrator *)

\* The defining decomposition.
LEMMA DivMod ==
  ASSUME NEW n \in Nat, NEW c \in Nat, c > 0
  PROVE  /\ n = c * (n \div c) + (n % c)
         /\ n % c \in 0 .. c - 1
         /\ n \div c \in Nat
OBVIOUS

\* Products are monotonic in a factor.
LEMMA ProductMonotonic ==
  ASSUME NEW m \in Nat, NEW a \in Nat, NEW b \in Nat, a <= b
  PROVE  m * a \in Nat /\ m * a <= m * b
<1>1. PICK d \in Nat : b = a + d
  <2>1. b - a \in Nat /\ b = a + (b - a)
    OBVIOUS
  <2> QED BY <2>1, Zenon
<1>2. m * b = m * a + m * d /\ m * d \in Nat /\ m * a \in Nat
  BY <1>1
<1> QED BY <1>2

\* Truncating division by a second of at least two units: the remainder is
\* smaller than a second, and the quotient at most half the dividend.
LEMMA TruncatedQuotient ==
  ASSUME NEW a \in Int
  PROVE  /\ Truncated(a, Second) \in Int
         /\ a - Second * Truncated(a, Second) < Second
         /\ Second * Truncated(a, Second) - a < Second
         /\ a >= 0 => Truncated(a, Second) >= 0 /\ 2 * Truncated(a, Second) <= a
         /\ a < 0 => Truncated(a, Second) <= 0 /\ a <= 2 * Truncated(a, Second)
<1>1. Second \in Nat /\ Second >= 2
  BY FleetAssumption
<1>2. ASSUME NEW n \in Nat
      PROVE  LET k == n \div Second
             IN  /\ k \in Nat /\ Second * k \in Nat /\ 2 * k <= n
                 /\ n - Second * k \in 0 .. Second - 1
  <2> DEFINE k == n \div Second
             r == n % Second
  <2>1. n = Second * k + r /\ r \in 0 .. Second - 1 /\ k \in Nat
    BY <1>1, DivMod
  <2> HIDE DEF k, r
  <2>2. Second * k \in Nat /\ 2 * k <= Second * k
    <3>1. k * 2 <= k * Second
      BY <1>1, <2>1, ProductMonotonic, Zenon
    <3> QED BY <1>1, <2>1, <3>1
  <2>3. k \in Nat /\ Second * k \in Nat /\ 2 * k <= n /\ n - Second * k \in 0 .. Second - 1
    BY <1>1, <2>1, <2>2
  <2> QED BY <2>3, Zenon DEF k
<1>3. CASE a >= 0
  <2>1. Truncated(a, Second) = a \div Second /\ a \in Nat
    BY <1>3 DEF Truncated
  <2> QED BY <1>1, <1>2, <1>3, <2>1
<1>4. CASE a < 0
  <2> DEFINE k == (-a) \div Second
  <2>1. Truncated(a, Second) = -k /\ -a \in Nat
    BY <1>4 DEF Truncated
  <2>2. /\ k \in Nat /\ Second * k \in Nat /\ 2 * k <= -a
        /\ -a - Second * k \in 0 .. Second - 1
    BY <1>2, <2>1, Zenon
  <2> HIDE DEF k
  <2>3. Second * (-k) = -(Second * k)
    BY <1>1, <2>2
  <2> QED BY <1>1, <1>4, <2>1, <2>2, <2>3
<1> QED BY <1>3, <1>4

\* The guard of step(): a product it lets through fits int64_t.
LEMMA ProductFits ==
  ASSUME NEW vel \in Int32, NEW dt \in Nat, ~TooFar(vel, dt)
  PROVE  vel * dt \in Int /\ vel * dt <= INT64_MAX /\ -INT64_MAX <= vel * dt
<1>1. INT64_MAX \in Nat /\ INT32_MAX \in Nat /\ vel \in Int
  BY FleetAssumption DEF Int32, INT32_MIN
<1>2. CASE vel = 0
  BY <1>1, <1>2
<1>3. CASE vel # 0
  <2> DEFINE m == Mag(vel)
             k == INT64_MAX \div m
  <2>1. m \in Nat /\ m > 0 /\ (vel = m \/ vel = -m)
    BY <1>1, <1>3 DEF Mag
  <2>2. dt <= k
    <3>1. k \in Nat
      BY <1>1, <2>1, DivMod, Zenon
    <3>2. ~(dt > k)
      BY <1>3, Zenon DEF TooFar
    <3> QED BY <3>1, <3>2
  <2> HIDE DEF m
  <2>3. INT64_MAX = m * k + (INT64_MAX % m) /\ INT64_MAX % m \in 0 .. m - 1 /\ k \in Nat
    BY <1>1, <2>1, DivMod, Zenon
  <2> HIDE DEF k
  <2>4. m * dt \in Nat /\ m * dt <= m * k
    BY <2>1, <2>2, <2>3, ProductMonotonic, Zenon
  <2>5. m * k \in Nat
    BY <2>1, <2>3
  <2>6. m * dt <= INT64_MAX
    BY <1>1, <2>1, <2>3, <2>4, <2>5
  <2>7. vel * dt = m * dt \/ vel * dt = -(m * dt)
    BY <2>1, <2>4
  <2> QED BY <1>1, <2>4, <2>6, <2>7
<1> QED BY <1>2, <1>3, Zenon

\* Everything step() computes fits int64_t.
LEMMA StepFits ==
  ASSUME NEW pos \in Int32, NEW vel \in Int32, NEW dt \in Nat
  PROVE  StepWide(pos, vel, dt) \subseteq Int64
<1>1. /\ INT64_MAX \in Nat /\ INT32_MAX \in Nat /\ 2 * (INT32_MAX + 1) <= INT64_MAX
      /\ pos \in Int /\ vel \in Int
      /\ -INT32_MAX - 1 <= pos /\ pos <= INT32_MAX
      /\ -INT32_MAX - 1 <= vel /\ vel <= INT32_MAX
  BY FleetAssumption DEF Int32, INT32_MIN
<1>2. Mag(vel) \in Int64
  BY <1>1 DEF Mag, Int64, INT64_MIN
<1>3. CASE TooFar(vel, dt)
  BY <1>2, <1>3, Zenon DEF StepWide
<1>4. CASE ~TooFar(vel, dt)
  <2> DEFINE p == vel * dt
             q == Truncated(p, Second)
  <2>1. p \in Int /\ p <= INT64_MAX /\ -INT64_MAX <= p
    BY <1>4, ProductFits, Zenon
  <2> HIDE DEF p
  <2>2. /\ q \in Int
        /\ p >= 0 => q >= 0 /\ 2 * q <= p
        /\ p < 0 => q <= 0 /\ p <= 2 * q
    BY <2>1, TruncatedQuotient, Zenon
  <2> HIDE DEF q
  <2>3. p \in Int64 /\ q \in Int64 /\ pos + q \in Int64
    BY <1>1, <2>1, <2>2 DEF Int64, INT64_MIN
  <2>4. StepWide(pos, vel, dt) = {Mag(vel), p, q, pos + q}
    BY <1>4, Zenon DEF StepWide, StepTo, p, q
  <2> QED BY <1>2, <2>3, <2>4, Zenon
<1> QED BY <1>3, <1>4, Zenon
-------------------------------------------------------------------------------
FleetRow == [valid : BOOLEAN, pos_x : Int32, pos_y : Int32, vel_x : Int32, vel_y : Int32,
             sequence : Nat, time_ns : Int]
PathRow == [from_x : Int, from_y : Int, x : Int, y : Int, steps : Nat]

\* The inductive invariant: rows hold int32_t positions, what was computed
\* fits, and a row without a sample has no path behind it.
FleetInv ==
  /\ fleet \in [Ids -> FleetRow]
  /\ path \in [Ids -> PathRow]
  /\ result \in IntegrateStatus
  /\ NoOverflow
  /\ \A id \in Ids : ~fleet[id].valid => fleet[id] = EmptyFleetRow /\ path[id] = NoPath
  /\ \A id \in Ids : fleet[id].valid => path[id].steps > 0
  /\ PositionIsPath

\* One more truncated step adds less than a second's worth of error.
LEMMA NearStep ==
  ASSUME NEW pos \in Int, NEW from \in Int, NEW exact \in Int, NEW steps \in Nat,
         NEW p \in Int,
         Near(pos, from, exact, steps) \/ (pos = from /\ exact = 0 /\ steps = 0)
  PROVE  Near(pos + Truncated(p, Second), from, exact + p, steps + 1)
<1> DEFINE q == Truncated(p, Second)
<1>1. Second \in Nat /\ Second >= 2
  BY FleetAssumption
<1>2. q \in Int /\ p - Second * q < Second /\ Second * q - p < Second
  BY TruncatedQuotient, Zenon
<1> HIDE DEF q
<1>3. Second * q \in Int /\ Second * (pos - from) \in Int /\ Second * steps \in Int
  BY <1>1, <1>2
<1>4. Second * (pos + q - from) = Second * (pos - from) + Second * q
  BY <1>1, <1>2
<1>5. Second * (steps + 1) = Second * steps + Second
  BY <1>1
<1>6. Near(pos, from, exact, steps) => Near(pos + q, from, exact + p, steps + 1)
  BY <1>1, <1>2, <1>3, <1>4, <1>5 DEF Near
<1>7. pos = from /\ exact = 0 /\ steps = 0 => Near(pos + q, from, exact + p, steps + 1)
  <2> SUFFICES ASSUME pos = from, exact = 0, steps = 0
               PROVE  Near(pos + q, from, exact + p, steps + 1)
    BY Zenon
  <2>1. Second * (pos - from) = 0 /\ Second * steps = 0
    BY <1>1
  <2> QED BY <1>1, <1>2, <1>3, <1>4, <1>5, <2>1 DEF Near
<1> QED BY <1>6, <1>7, Zenon DEF q

\* A new fleet satisfies the invariant.
LEMMA FleetInvInit == FleetInit => FleetInv
<1> SUFFICES ASSUME FleetInit PROVE FleetInv
  BY Zenon
<1>1. 0 \in Int32
  BY FleetAssumption DEF Int32, INT32_MIN
<1>2. EmptyFleetRow \in FleetRow /\ ~EmptyFleetRow.valid
  BY <1>1 DEF EmptyFleetRow, FleetRow
<1>3. NoPath \in PathRow /\ NoPath.steps = 0
  BY DEF NoPath, PathRow
<1>4. fleet \in [Ids -> FleetRow] /\ path \in [Ids -> PathRow]
  BY <1>2, <1>3, Zenon DEF FleetInit
<1>5. \A id \in Ids : fleet[id] = EmptyFleetRow /\ path[id] = NoPath
  BY Zenon DEF FleetInit
<1>6. result \in IntegrateStatus /\ NoOverflow
  BY Zenon DEF FleetInit, IntegrateStatus, NoOverflow
<1>7. PositionIsPath
  BY <1>2, <1>3, <1>5, Zenon DEF PositionIsPath
<1> QED BY <1>2, <1>4, <1>5, <1>6, <1>7, Zenon DEF FleetInv

\* An accepted or refused sample preserves it: the row that moves stays in
\* range and one truncation nearer to its path, every other row is untouched.
LEMMA MoveKeepsInv ==
  ASSUME FleetInv, NEW sample \in Samples, NEW dt \in Steps, Move(sample, dt)
  PROVE  FleetInv'
<1> DEFINE id == sample.source_id
           base_x == Base(id, fleet[id].pos_x, sample.pos_x)
           base_y == Base(id, fleet[id].pos_y, sample.pos_y)
           x == StepTo(base_x, sample.vel_x, dt)
           y == StepTo(base_y, sample.vel_y, dt)
           fits == step(base_x, sample.vel_x, dt) /\ step(base_y, sample.vel_y, dt)
<1> HIDE DEF id, base_x, base_y, x, y, fits
<1>1. /\ sample \in Record /\ sample.pos_x \in Int32 /\ sample.pos_y \in Int32
      /\ sample.vel_x \in Int32 /\ sample.vel_y \in Int32
  BY FleetAssumption, ZenonT(30)
<1>2. dt \in Nat
  BY FleetAssumption DEF Move, Int64, INT64_MIN
<1>3. id \in Ids
  BY <1>1, TypesAssumption DEF id, Move, Ids, Record
<1>4. fleet[id] \in FleetRow /\ path[id] \in PathRow
  BY <1>3, Zenon DEF FleetInv
<1>5. base_x \in Int32 /\ base_y \in Int32
  BY <1>1, <1>4, Zenon DEF base_x, base_y, Base, FleetRow
<1>6. NoOverflow'
  <2>1. /\ StepWide(base_x, sample.vel_x, dt) \subseteq Int64
        /\ StepWide(base_y, sample.vel_y, dt) \subseteq Int64
    BY <1>1, <1>2, <1>5, StepFits, Zenon
  <2>2. wide' \subseteq StepWide(base_x, sample.vel_x, dt) \cup StepWide(base_y, sample.vel_y, dt)
    BY Zenon DEF Move, id, base_x, base_y
  <2> QED BY <2>1, <2>2, Zenon DEF NoOverflow
<1>7. CASE ~fits
  <2>1. fleet' = fleet /\ path' = path /\ result' \in IntegrateStatus
    BY <1>7, Zenon DEF Move, IntegrateStatus, id, base_x, base_y, fits
  <2> QED BY <1>6, <2>1, Zenon DEF FleetInv, PositionIsPath
<1>8. CASE fits
  <2> DEFINE row == [valid |-> TRUE, pos_x |-> x, pos_y |-> y,
                     vel_x |-> sample.vel_x, vel_y |-> sample.vel_y,
                     sequence |-> sample.sequence, time_ns |-> sample.time_ns]
             from_x == IF path[id].steps = 0 THEN sample.pos_x ELSE path[id].from_x
             from_y == IF path[id].steps = 0 THEN sample.pos_y ELSE path[id].from_y
             px == sample.vel_x * dt
             py == sample.vel_y * dt
             walk == [from_x |-> from_x, from_y |-> from_y,
                      x |-> path[id].x + px, y |-> path[id].y + py,
                      steps |-> path[id].steps + 1]
  <2> HIDE DEF row, from_x, from_y, px, py, walk
  <2>1. fleet' = [fleet EXCEPT ![id] = row] /\ path' = [path EXCEPT ![id] = walk]
    BY <1>8, Zenon DEF Move, id, base_x, base_y, x, y, fits, row, from_x, from_y, px, py, walk
  <2>2. result' \in IntegrateStatus
    BY <1>8, Zenon DEF Move, IntegrateStatus, id, base_x, base_y, fits
  <2>3. x \in Int32 /\ y \in Int32
    BY <1>8, Zenon DEF step, fits, x, y
  <2>4. row \in FleetRow
    BY <1>1, <2>3, Zenon DEF FleetRow, Record, row
  <2>5. Int32 \subseteq Int
    BY FleetAssumption DEF Int32, INT32_MIN
  <2>6. px \in Int /\ py \in Int
    <3>1. sample.vel_x \in Int /\ sample.vel_y \in Int
      BY <1>1, <2>5, Zenon
    <3>2. ASSUME NEW v \in Int PROVE v * dt \in Int
      BY <1>2
    <3> QED BY <3>1, <3>2, Zenon DEF px, py
  <2>7. /\ from_x \in Int /\ from_y \in Int
        /\ path[id].x \in Int /\ path[id].y \in Int /\ path[id].steps \in Nat
    BY <1>1, <1>4, <2>5, Zenon DEF PathRow, from_x, from_y
  <2>8. walk \in PathRow
    BY <2>6, <2>7 DEF PathRow, walk
  <2>9. /\ \/ Near(base_x, from_x, path[id].x, path[id].steps)
           \/ base_x = from_x /\ path[id].x = 0 /\ path[id].steps = 0
        /\ \/ Near(base_y, from_y, path[id].y, path[id].steps)
           \/ base_y = from_y /\ path[id].y = 0 /\ path[id].steps = 0
    <3>1. CASE fleet[id].valid
      <4>1. /\ path[id].steps > 0
            /\ Near(fleet[id].pos_x, path[id].from_x, path[id].x, path[id].steps)
            /\ Near(fleet[id].pos_y, path[id].from_y, path[id].y, path[id].steps)
        BY <1>3, <3>1, Zenon DEF FleetInv, PositionIsPath
      <4>2. base_x = fleet[id].pos_x /\ base_y = fleet[id].pos_y
        BY <3>1, ZenonT(30) DEF Base, base_x, base_y
      <4>3. from_x = path[id].from_x /\ from_y = path[id].from_y
        BY <2>7, <4>1 DEF from_x, from_y
      <4> QED BY <4>1, <4>2, <4>3, Zenon
    <3>2. CASE ~fleet[id].valid
      <4>1. path[id] = NoPath
        BY <1>3, <3>2, Zenon DEF FleetInv
      <4>2. path[id].x = 0 /\ path[id].y = 0 /\ path[id].steps = 0
        BY <4>1 DEF NoPath
      <4>3. base_x = sample.pos_x /\ base_y = sample.pos_y
        BY <3>2, Zenon DEF Base, base_x, base_y
      <4> QED BY <4>2, <4>3, Zenon DEF from_x, from_y
    <3> QED BY <3>1, <3>2, Zenon
  <2>10. /\ Near(x, from_x, path[id].x + px, path[id].steps + 1)
         /\ Near(y, from_y, path[id].y + py, path[id].steps + 1)
    <3>1. x = base_x + Truncated(px, Second) /\ y = base_y + Truncated(py, Second)
      BY Zenon DEF StepTo, x, y, px, py
    <3>2. base_x \in Int /\ base_y \in Int
      BY <1>5, <2>5, Zenon
    <3>3. Near(base_x + Truncated(px, Second), from_x, path[id].x + px, path[id].steps + 1)
      BY <2>6, <2>7, <2>9, <3>2, NearStep, Zenon
    <3>4. Near(base_y + Truncated(py, Second), from_y, path[id].y + py, path[id].steps + 1)
      BY <2>6, <2>7, <2>9, <3>2, NearStep, Zenon
    <3> QED BY <3>1, <3>3, <3>4, Zenon
  <2>11. fleet' \in [Ids -> FleetRow] /\ path' \in [Ids -> PathRow]
    BY <2>1, <2>4, <2>8, Zenon DEF FleetInv
  <2>12. fleet'[id] = row /\ path'[id] = walk
    BY <1>3, <2>1, Zenon DEF FleetInv
  <2>13. \A j \in Ids \ {id} : fleet'[j] = fleet[j] /\ path'[j] = path[j]
    BY <2>1, Zenon DEF FleetInv
  <2>14. /\ fleet'[id].valid /\ path'[id].steps > 0
         /\ Near(fleet'[id].pos_x, path'[id].from_x, path'[id].x, path'[id].steps)
         /\ Near(fleet'[id].pos_y, path'[id].from_y, path'[id].y, path'[id].steps)
    <3>1. row.valid /\ row.pos_x = x /\ row.pos_y = y
      BY Zenon DEF row
    <3>2. /\ walk.from_x = from_x /\ walk.from_y = from_y /\ walk.x = path[id].x + px
          /\ walk.y = path[id].y + py /\ walk.steps = path[id].steps + 1
      BY Zenon DEF walk
    <3>3. walk.steps > 0
      BY <2>7, <3>2
    <3> QED BY <2>10, <2>12, <3>1, <3>2, <3>3, Zenon
  <2>15. PositionIsPath'
    BY <2>13, <2>14 DEF FleetInv, PositionIsPath
  <2>16. \A j \in Ids : ~fleet'[j].valid => fleet'[j] = EmptyFleetRow /\ path'[j] = NoPath
    BY <2>13, <2>14, Zenon DEF FleetInv
  <2>17. \A j \in Ids : fleet'[j].valid => path'[j].steps > 0
    BY <2>13, <2>14, Zenon DEF FleetInv
  <2> QED BY <1>6, <2>2, <2>11, <2>15, <2>16, <2>17, SMTT(30) DEF FleetInv
<1> QED BY <1>7, <1>8, Zenon

\* Every call of integrate preserves it.
LEMMA FleetInvStep ==
  ASSUME FleetInv, [FleetNext]_fleetVars
  PROVE  FleetInv'
<1>1. ASSUME NEW sample \in Samples, NEW dt \in Steps, Refuse(sample, dt)
      PROVE  FleetInv'
  BY <1>1, Zenon DEF Refuse, FleetInv, IntegrateStatus, NoOverflow, PositionIsPath
<1>2. ASSUME NEW sample \in Samples, NEW dt \in Steps, Move(sample, dt)
      PROVE  FleetInv'
  BY <1>2, MoveKeepsInv, Zenon
<1>3. CASE UNCHANGED fleetVars
  BY <1>3, Zenon DEF fleetVars, FleetInv, NoOverflow, PositionIsPath
<1> QED BY <1>1, <1>2, <1>3, Zenon DEF FleetNext

\* FleetInv holds throughout.
THEOREM FleetInvariant == FleetSpec => []FleetInv
<1>1. FleetInit => FleetInv
  BY FleetInvInit, Zenon
<1>2. FleetInv /\ [FleetNext]_fleetVars => FleetInv'
  BY FleetInvStep, Zenon
<1> QED BY <1>1, <1>2, PTL DEF FleetSpec

\* No int64_t computation of integrate overflows, whatever the widths.
THEOREM NeverOverflows == FleetSpec => []NoOverflow
<1>1. FleetInv => NoOverflow
  BY Zenon DEF FleetInv
<1> QED BY <1>1, FleetInvariant, PTL

\* A row is its first position plus the exact travel of its accepted samples,
\* less than a millimetre per sample off.
THEOREM RowFollowsPath == FleetSpec => []PositionIsPath
<1>1. FleetInv => PositionIsPath
  BY Zenon DEF FleetInv
<1> QED BY <1>1, FleetInvariant, PTL

------------------------------------------------------------------------------
(* Pacing and the silence check *)

StageType == [pc : {"read", "store", "start", "work", "sleep", "ended"},
              mark : Nat, started : Nat, wake : Nat]

WatchType == [pc : {"loop", "left", "now", "done", "beat"}, now : Nat, done : {0, 1}]

PaceTypes ==
  /\ clock \in 1 .. MaxClock /\ beat \in 0 .. clock /\ done \in {0, 1} /\ fault \in {0, 1}
  /\ over \in {0, 1} /\ flagged \in BOOLEAN
  /\ overruns \in Nat /\ pacing \in BOOLEAN /\ late \in BOOLEAN
  /\ stage \in StageType
  /\ stage.mark <= clock /\ stage.started <= clock
  /\ watch \in WatchType
  /\ watch.now <= clock
  /\ cycle \in [start : Nat, overrun : BOOLEAN]

\* A silence is recorded while it lasts, and what the watchdog may take for one
\* has been recorded before it decides: the heartbeat it is about to read is
\* that old only if the stage was silent at or after its reading of the clock,
\* or is the snapshot thread and has ended since.
SilenceRecorded ==
  /\ done = 1 <=> stage.pc = "ended"
  /\ Silent(clock, beat, done) => late
  /\ watch.pc = "beat" /\ watch.done = 0 /\ beat # 0 /\ watch.now - beat > stall_limit_ns
       => late \/ (~flagged /\ done = 1)

\* Where a paced stage stands between two cycles tells how much time has passed
\* since the last one that did not overrun.
PeriodKept ==
  cycle.start # 0 /\ pacing /\ ~cycle.overrun =>
    /\ stage.pc = "sleep" => stage.wake - cycle.start >= Period
    /\ stage.pc \in {"read", "store", "start"} => clock - cycle.start >= Period
    /\ stage.pc = "work" => stage.started - cycle.start >= Period

PaceInv == PaceTypes /\ SilenceRecorded /\ PeriodKept /\ FaultJustified

\* A clock below the modulus never wraps in now - beat.
LEMMA NoWrap ==
  ASSUME NEW n \in Nat, n < Wrap
  PROVE  n % Wrap = n
BY PaceAssumption

\* What heartbeat_stalled compares.
LEMMA StalledMeansOld ==
  ASSUME NEW now \in Nat, NEW at \in Nat, now < Wrap, NEW ended,
         heartbeat_stalled(now, at, stall_limit_ns, ended)
  PROVE  ~ended /\ at # 0 /\ now - at > stall_limit_ns
<1>1. ~ended /\ at # 0 /\ at <= now /\ (now - at) % Wrap > stall_limit_ns
  BY DEF heartbeat_stalled
<1>2. now - at \in Nat /\ now - at < Wrap
  BY <1>1, PaceAssumption
<1>3. (now - at) % Wrap = now - at
  BY <1>2, NoWrap, Zenon
<1> QED BY <1>1, <1>3, Zenon

\* Every step of the stage, the watchdog and the clock keeps the invariant.
LEMMA PaceStep ==
  ASSUME PaceInv, [PaceNext]_paceVars
  PROVE  PaceInv'
<1>b. PaceTypes /\ SilenceRecorded /\ PeriodKept /\ FaultJustified
  BY Zenon DEF PaceInv
<1>c. Period \in Nat /\ Period > 0 /\ MaxClock \in Nat
  BY PaceAssumption
<1>0. stall_limit_ns \in Nat
  BY PaceAssumption DEF stall_limit_ns
<1>a. /\ stage.mark \in Nat /\ stage.started \in Nat /\ stage.wake \in Nat /\ clock \in Nat
      /\ beat \in Nat /\ watch.now \in Nat /\ cycle.start \in Nat /\ stage \in StageType
  BY <1>b DEF PaceTypes, StageType, WatchType
<1>1. CASE Tick
  <2>1. PaceTypes'
    BY <1>a, <1>b, <1>c, <1>1 DEF Tick, PaceTypes
  <2>2. SilenceRecorded'
    BY <1>b, <1>1, Zenon DEF Tick, PaceTypes, SilenceRecorded
  <2>3. PeriodKept'
    BY <1>a, <1>b, <1>c, <1>1 DEF Tick, PeriodKept
  <2> QED BY <1>b, <1>1, <2>1, <2>2, <2>3, Zenon DEF Tick, PaceInv, FaultJustified
<1>2. CASE ReadBeat
  <2>a. /\ stage' \in StageType
        /\ stage'.pc = "store" /\ stage'.mark = clock
        /\ stage'.started = stage.started /\ stage'.wake = stage.wake
    BY <1>2, <1>a, Zenon DEF ReadBeat, StageType
  <2>1. PaceTypes'
    BY <1>b, <1>2, <1>a, <2>a DEF ReadBeat, PaceTypes
  <2>2. SilenceRecorded'
    BY <1>b, <1>2, <1>a, <2>a, Zenon DEF ReadBeat, PaceTypes, SilenceRecorded, Silent
  <2>3. PeriodKept'
    BY <1>b, <1>2, <1>a, <2>a, Zenon DEF ReadBeat, PaceTypes, PeriodKept
  <2> QED BY <1>b, <1>2, <2>1, <2>2, <2>3, Zenon DEF ReadBeat, PaceInv, FaultJustified
<1>3. CASE StoreBeat
  <2>a. /\ stage' \in StageType
        /\ stage'.pc = "start" /\ stage'.mark = stage.mark
        /\ stage'.started = stage.started /\ stage'.wake = stage.wake
    BY <1>3, <1>a, Zenon DEF StoreBeat, StageType
  <2>1. PaceTypes'
    BY <1>b, <1>3, <1>a, <2>a DEF StoreBeat, PaceTypes
  <2>2. SilenceRecorded'
    <3>1. done = 0 /\ beat' = stage.mark /\ done' = 0 /\ clock' = clock /\ watch' = watch
          /\ stage'.pc = "start"
      BY <1>b, <1>3, <1>a, <2>a, Zenon DEF StoreBeat, PaceTypes, SilenceRecorded
    <3>2. late' = (late \/ Silent(clock, beat', done))
      BY <1>3, <1>a, <2>a, Zenon DEF StoreBeat
    <3>3. watch.now <= clock
      BY <1>b, Zenon DEF PaceTypes
    <3>4. watch.now - stage.mark > stall_limit_ns => clock - stage.mark > stall_limit_ns
      BY <1>0, <1>a, <3>3
    <3>5. /\ Silent(clock, beat, done)' => late'
          /\ watch'.now - beat' > stall_limit_ns /\ beat' # 0 => late'
      BY <3>1, <3>2, <3>4, Zenon DEF Silent
    <3> QED BY <3>1, <3>5 DEF SilenceRecorded
  <2>3. PeriodKept'
    BY <1>b, <1>3, <1>a, <2>a, Zenon DEF StoreBeat, PaceTypes, PeriodKept
  <2> QED BY <1>b, <1>3, <2>1, <2>2, <2>3, Zenon DEF StoreBeat, PaceInv, FaultJustified
<1>4. CASE StartWork
  <2>a. /\ stage' \in StageType
        /\ stage'.pc = "work" /\ stage'.mark = stage.mark
        /\ stage'.started = clock /\ stage'.wake = stage.wake
    BY <1>4, <1>a, Zenon DEF StartWork, StageType
  <2>1. PaceTypes'
    BY <1>b, <1>4, <1>a, <2>a DEF StartWork, PaceTypes
  <2>2. SilenceRecorded'
    BY <1>b, <1>4, <1>a, <2>a, Zenon DEF StartWork, PaceTypes, SilenceRecorded, Silent
  <2>3. PeriodKept'
    BY <1>b, <1>4, <1>a, <2>a, Zenon DEF StartWork, PaceTypes, PeriodKept
  <2> QED BY <1>b, <1>4, <2>1, <2>2, <2>3, Zenon DEF StartWork, PaceInv, FaultJustified
<1>5. CASE FinishCycle
  <2> DEFINE work == clock - stage.started
             spent == budget(work, Period)
  <2>1. work \in Nat
    BY <1>b, <1>a DEF PaceTypes
  <2>2. /\ spent.overrun \in BOOLEAN /\ (spent.overrun <=> work > Period)
        /\ spent.sleep_ns = IF work > Period THEN 0 ELSE Period - work
    <3>1. ~(work < 0) /\ ~(Period <= 0)
      BY <1>c, <2>1
    <3>2. budget(work, Period) = IF work > Period
                               THEN [overrun |-> TRUE, sleep_ns |-> 0]
                               ELSE [overrun |-> FALSE, sleep_ns |-> Period - work]
      BY <3>1, Zenon DEF budget
    <3> HIDE DEF spent, work
    <3>3. spent = IF work > Period THEN [overrun |-> TRUE, sleep_ns |-> 0]
                  ELSE [overrun |-> FALSE, sleep_ns |-> Period - work]
      BY <3>2, Zenon DEF spent
    <3>4. CASE work > Period
      BY <3>3, <3>4, Zenon
    <3>5. CASE ~(work > Period)
      BY <3>3, <3>5, Zenon
    <3> QED BY <3>4, <3>5, Zenon
  <2> HIDE DEF spent, work
  <2>3. /\ stage.pc = "work"
        /\ overruns' = overruns \/ overruns' = overruns + 1
        /\ cycle' \in [start : Nat, overrun : BOOLEAN]
        /\ cycle'.start = stage.started /\ (cycle'.overrun <=> work > Period)
        /\ UNCHANGED <<clock, beat, done, over, fault, pacing, flagged, watch, late>>
    BY <1>5, <1>a, <2>2, Zenon DEF FinishCycle, spent, work
  <2>4. \/ /\ pacing /\ work < Period
           /\ stage' = [stage EXCEPT !.pc = "sleep", !.wake = clock + (Period - work)]
        \/ /\ ~pacing \/ work >= Period
           /\ stage' = [stage EXCEPT !.pc = "read", !.wake = clock]
    <3>1. IF pacing /\ spent.sleep_ns > 0
          THEN stage' = [stage EXCEPT !.pc = "sleep", !.wake = clock + spent.sleep_ns]
          ELSE stage' = [stage EXCEPT !.pc = "read", !.wake = clock]
      BY <1>5, Zenon DEF FinishCycle, spent, work
    <3>2. spent.sleep_ns > 0 <=> work < Period
      BY <1>c, <2>1, <2>2
    <3>3. work < Period => spent.sleep_ns = Period - work
      BY <1>c, <2>1, <2>2
    <3>4. ~(work < Period) => work >= Period
      BY <1>c, <2>1
    <3> QED BY <3>1, <3>2, <3>3, <3>4, Zenon
  <2>5. /\ stage' \in StageType /\ stage'.mark = stage.mark /\ stage'.started = stage.started
        /\ \/ pacing /\ stage'.pc = "sleep" /\ stage'.wake = stage.started + Period
           \/ (~pacing \/ work >= Period) /\ stage'.pc = "read"
    <3>1. clock + (Period - work) = stage.started + Period /\ stage.started + Period \in Nat
      BY <1>a, <1>c DEF work
    <3> QED BY <1>a, <2>4, <3>1, ZenonT(30) DEF StageType
  <2>6. PaceTypes'
    BY <1>b, <1>a, <2>3, <2>5 DEF PaceTypes
  <2>7. SilenceRecorded'
    BY <1>b, <2>3, <2>5, Zenon DEF PaceTypes, SilenceRecorded, Silent
  <2>8. PeriodKept'
    BY <1>b, <1>a, <1>c, <2>1, <2>3, <2>5 DEF PeriodKept, work
  <2> QED BY <1>b, <2>3, <2>6, <2>7, <2>8, Zenon DEF PaceInv, FaultJustified
<1>6. CASE Wake
  <2>a. /\ stage' \in StageType
        /\ stage'.pc = "read" /\ stage'.mark = stage.mark
        /\ stage'.started = stage.started /\ stage'.wake = stage.wake
    BY <1>6, <1>a, Zenon DEF Wake, StageType
  <2>1. PaceTypes'
    BY <1>b, <1>6, <1>a, <2>a, Zenon DEF Wake, PaceTypes
  <2>2. SilenceRecorded'
    BY <1>b, <1>6, <1>a, <2>a, Zenon DEF Wake, PaceTypes, SilenceRecorded, Silent
  <2>3. PeriodKept'
    BY <1>a, <1>b, <1>c, <1>6, <2>a DEF Wake, PeriodKept
  <2> QED BY <1>b, <1>6, <2>1, <2>2, <2>3, Zenon DEF Wake, PaceInv, FaultJustified
<1>7. CASE StageDone
  <2>a. /\ stage' \in StageType
        /\ stage'.pc = "ended" /\ stage'.mark = stage.mark
        /\ stage'.started = stage.started /\ stage'.wake = stage.wake
    BY <1>7, <1>a, Zenon DEF StageDone, StageType
  <2>1. PaceTypes'
    BY <1>b, <1>7, <1>a, <2>a, Zenon DEF StageDone, PaceTypes
  <2>2. SilenceRecorded'
    BY <1>b, <1>7, <1>a, <2>a, Zenon DEF StageDone, PaceTypes, SilenceRecorded, Silent
  <2>3. PeriodKept'
    BY <1>b, <1>7, <1>a, <2>a, Zenon DEF StageDone, PaceTypes, PeriodKept
  <2> QED BY <1>b, <1>7, <2>1, <2>2, <2>3, Zenon DEF StageDone, PaceInv, FaultJustified
<1>8. CASE WatchLoop \/ WatchNow \/ WatchDone
  <2>1. /\ watch' \in WatchType
        /\ \/ watch'.pc \in {"loop", "left", "now"} /\ watch'.now = watch.now
           \/ watch'.pc = "done" /\ watch'.now = clock
           \/ /\ watch'.pc = "beat" /\ watch'.now = watch.now
              /\ flagged => watch'.done = done
    <3>1. watch \in WatchType /\ done \in {0, 1}
      BY <1>b, Zenon DEF PaceTypes
    <3>2. CASE WatchLoop
      BY <3>1, <3>2, Zenon DEF WatchLoop, WatchType
    <3>3. CASE WatchNow
      BY <1>a, <3>1, <3>3, Zenon DEF WatchNow, WatchType
    <3>4. CASE WatchDone
      BY <3>1, <3>4, Zenon DEF WatchDone, WatchType
    <3> QED BY <1>8, <3>2, <3>3, <3>4, Zenon
  <2>2. UNCHANGED <<clock, beat, done, over, overruns, fault, pacing, flagged, stage, late,
                    cycle>>
    BY <1>8, Zenon DEF WatchLoop, WatchNow, WatchDone
  <2>3. PaceTypes'
    BY <1>b, <1>a, <2>1, <2>2 DEF PaceTypes
  <2>4. SilenceRecorded'
    <3>1. watch'.pc = "beat" /\ watch'.done = 0 /\ beat # 0 /\ watch'.now - beat > stall_limit_ns
            => late \/ (~flagged /\ done = 1)
      BY <1>b, <1>0, <1>a, <2>1 DEF PaceTypes, SilenceRecorded, Silent
    <3> QED BY <1>b, <2>2, <3>1, Zenon DEF SilenceRecorded, Silent
  <2>5. PeriodKept'
    BY <1>b, <2>2, Zenon DEF PeriodKept
  <2> QED BY <1>b, <2>2, <2>3, <2>4, <2>5, Zenon DEF PaceInv, FaultJustified
<1>9. CASE WatchBeat
  <2>1. /\ watch.pc = "beat" /\ watch' = [pc |-> "loop", now |-> 0, done |-> 0]
        /\ fault' = IF heartbeat_stalled(watch.now, beat, stall_limit_ns, watch.done = 1)
                    THEN 1 ELSE fault
        /\ UNCHANGED <<clock, beat, done, over, overruns, pacing, flagged, stage, late, cycle>>
    BY <1>9, Zenon DEF WatchBeat
  <2>2. heartbeat_stalled(watch.now, beat, stall_limit_ns, watch.done = 1)
          => late \/ (~flagged /\ done = 1)
    <3> SUFFICES ASSUME heartbeat_stalled(watch.now, beat, stall_limit_ns, watch.done = 1)
                 PROVE  late \/ (~flagged /\ done = 1)
      BY Zenon
    <3>1. watch.now \in Nat /\ beat \in Nat /\ watch.now < Wrap
      BY <1>b, PaceAssumption DEF PaceTypes, WatchType
    <3>2. watch.done # 1 /\ beat # 0 /\ watch.now - beat > stall_limit_ns
      BY <3>1, StalledMeansOld, Zenon
    <3>3. watch.done = 0
      BY <1>b, <3>2, Zenon DEF PaceTypes, WatchType
    <3> QED BY <1>b, <2>1, <3>2, <3>3, Zenon DEF SilenceRecorded
  <2>3. PaceTypes'
    BY <1>b, <2>1 DEF PaceTypes, WatchType
  <2>4. SilenceRecorded'
    BY <1>b, <2>1, Zenon DEF SilenceRecorded, Silent
  <2>5. PeriodKept'
    BY <1>b, <2>1, Zenon DEF PeriodKept
  <2> QED BY <1>b, <2>1, <2>2, <2>3, <2>4, <2>5, Zenon DEF PaceInv, FaultJustified
<1>10. CASE PipelineOver
  <2>1. PaceTypes'
    BY <1>b, <1>10, Zenon DEF PipelineOver, PaceTypes
  <2>2. SilenceRecorded' /\ PeriodKept' /\ FaultJustified'
    BY <1>b, <1>10, Zenon DEF PipelineOver, SilenceRecorded, PeriodKept, Silent, FaultJustified
  <2> QED BY <2>1, <2>2, Zenon DEF PaceInv
<1>11. CASE UNCHANGED paceVars
  <2>1. PaceTypes'
    BY <1>b, <1>11, Zenon DEF paceVars, PaceTypes
  <2>2. SilenceRecorded' /\ PeriodKept' /\ FaultJustified'
    BY <1>b, <1>11, Zenon DEF paceVars, SilenceRecorded, PeriodKept, Silent, FaultJustified
  <2> QED BY <2>1, <2>2, Zenon DEF PaceInv
<1> QED BY <1>1, <1>2, <1>3, <1>4, <1>5, <1>6, <1>7, <1>8, <1>9, <1>10, <1>11, Zenon DEF PaceNext, Watchdog

\* A process that has just started satisfies the invariant.
LEMMA PaceInvInit == PaceInit => PaceInv
<1> SUFFICES ASSUME PaceInit PROVE PaceInv
  BY Zenon
<1>0. 1 \in 1 .. MaxClock
  BY PaceAssumption
<1>1. PaceTypes
  <2>1. stage \in StageType /\ stage.mark = 0 /\ stage.started = 0
    BY Zenon DEF PaceInit, StageType
  <2>2. watch \in WatchType /\ watch.now = 0
    BY Zenon DEF PaceInit, WatchType
  <2>3. /\ clock = 1 /\ beat = 0 /\ done = 0 /\ overruns = 0 /\ fault = 0 /\ late = FALSE
        /\ over = 0 /\ flagged \in BOOLEAN
        /\ pacing \in BOOLEAN /\ cycle \in [start : Nat, overrun : BOOLEAN]
    BY Zenon DEF PaceInit
  <2>4. clock \in 1 .. MaxClock /\ beat \in 0 .. clock
    BY <1>0, <2>3
  <2>5. stage.mark <= clock /\ stage.started <= clock /\ watch.now <= clock
    BY <2>1, <2>2, <2>3
  <2>6. done \in {0, 1} /\ over \in {0, 1} /\ fault \in {0, 1} /\ overruns \in Nat /\ late \in BOOLEAN
    BY <2>3, Zenon
  <2> QED BY <2>1, <2>2, <2>3, <2>4, <2>5, <2>6, Zenon DEF PaceTypes
<1>2. SilenceRecorded /\ PeriodKept /\ FaultJustified
  BY DEF PaceInit, SilenceRecorded, PeriodKept, FaultJustified, Silent
<1> QED BY <1>1, <1>2, Zenon DEF PaceInv

\* What the invariant is for.
LEMMA PaceInvGivesPace == PaceInv => FaultJustified /\ CyclesPaced
<1>1. PaceInv => FaultJustified
  BY Zenon DEF PaceInv
<1>2. PaceInv => CyclesPaced
  BY Zenon DEF PaceInv, PeriodKept, CyclesPaced, PaceTypes
<1> QED BY <1>1, <1>2, Zenon

\* The inductive invariant of pacing holds in every reachable state.
THEOREM PaceInvariant == PaceSpec => []PaceInv
<1>1. PaceInit => PaceInv
  BY PaceInvInit, Zenon
<1>2. PaceInv /\ [PaceNext]_paceVars => PaceInv'
  BY PaceStep, Zenon
<1> QED BY <1>1, <1>2, PTL DEF PaceSpec

\* FaultJustified for every period, floor and clock: run_watchdog raises the
\* fault only over a stage that was silent beyond the limit while not done,
\* or over a snapshot thread that ended after the watchdog's loop condition.
THEOREM NoFalseStall == PaceSpec => []FaultJustified
<1>1. PaceInv => FaultJustified
  BY PaceInvGivesPace, Zenon
<1> QED BY <1>1, PaceInvariant, PTL

\* CyclesPaced for every period: after a cycle that did not overrun, a paced
\* stage starts the next one a whole period later or more.
THEOREM PeriodRespected == PaceSpec => []CyclesPaced
<1>1. PaceInv => CyclesPaced
  BY PaceInvGivesPace, Zenon
<1> QED BY <1>1, PaceInvariant, PTL

------------------------------------------------------------------------------
(* The kernels side by side *)

\* What the theorems say of Fleet and of Pace alone holds where they are
\* checked together, which is the specification TLC runs.
THEOREM KernelsSafe ==
  KernelsSpec => [](NoOverflow /\ PositionIsPath /\ FaultJustified /\ CyclesPaced)
<1>1. KernelsInit => FleetInit /\ PaceInit
  BY Zenon DEF KernelsInit
<1>2. [KernelsNext]_kernelVars => [FleetNext]_fleetVars /\ [PaceNext]_paceVars
  BY Zenon DEF KernelsNext, kernelVars, OnlyPace, fleetVars, paceVars, vars
<1>3. FleetInv => NoOverflow /\ PositionIsPath
  BY Zenon DEF FleetInv
<1>4. PaceInv => FaultJustified /\ CyclesPaced
  BY PaceInvGivesPace, Zenon
<1>5. FleetInit => FleetInv
  BY FleetInvInit, Zenon
<1>6. FleetInv /\ [FleetNext]_fleetVars => FleetInv'
  BY FleetInvStep, Zenon
<1>7. PaceInit => PaceInv
  BY PaceInvInit, Zenon
<1>8. PaceInv /\ [PaceNext]_paceVars => PaceInv'
  BY PaceStep, Zenon
<1> QED BY <1>1, <1>2, <1>3, <1>4, <1>5, <1>6, <1>7, <1>8, PTL DEF KernelsSpec

\* The triple buffer among the kernels is the triple buffer alone, so what is
\* proved of publish() and consume() holds of the specification TLC runs.
THEOREM KernelsBuffer ==
  KernelsSpec => [](TypeOK /\ Ownership /\ WholeCopy) /\ IsLatestValue
<1>1. KernelsInit => Init
  BY Zenon DEF KernelsInit
<1>2. [KernelsNext]_kernelVars => [Next]_vars
  BY Zenon DEF KernelsNext, kernelVars, OnlyPace, vars
<1>3. KernelsSpec => Spec
  BY <1>1, <1>2, PTL DEF KernelsSpec, Spec
<1> QED BY <1>3, TripleTypes, SlotsOwned, CopiesWhole, TripleRefines, PTL
==============================================================================
