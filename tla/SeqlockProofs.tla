---------------------------- MODULE SeqlockProofs ----------------------------
(* The seqlock is safe for every number of payload words, tries and          *)
(* publishes and every even width of its counter.                            *)
EXTENDS Seqlock, TLAPS

------------------------------------------------------------------------------
(* Division with remainder by a symbolic divisor *)

\* The defining decomposition.
LEMMA DivMod ==
  ASSUME NEW n \in Nat, NEW c \in Nat, c > 0
  PROVE  /\ n = c * (n \div c) + (n % c)
         /\ n % c \in 0 .. c - 1
         /\ n \div c \in Nat
OBVIOUS

\* Multiples of c are at least c apart.
LEMMA MultiplesApart ==
  ASSUME NEW a \in Nat, NEW b \in Nat, NEW c \in Nat, a < b
  PROVE  c * b >= c * a + c
<1>1. PICK d \in Nat : b = a + 1 + d
  <2>1. b - a - 1 \in Nat /\ b = a + 1 + (b - a - 1)
    OBVIOUS
  <2> QED BY <2>1
<1>2. c * b = c * a + c + c * d
  BY <1>1
<1>3. c * d \in Nat
  OBVIOUS
<1> QED BY <1>2, <1>3

\* The decomposition is unique.
LEMMA UniqueRemainder ==
  ASSUME NEW n \in Nat, NEW c \in Nat, NEW a \in Nat, NEW r \in 0 .. c - 1,
         n = c * a + r
  PROVE  n % c = r
<1> DEFINE b == n \div c
           s == n % c
<1>1. n = c * b + s /\ b \in Nat /\ s \in 0 .. c - 1
  BY DivMod
<1> HIDE DEF b, s
<1>2. c * a \in Nat /\ c * b \in Nat
  BY <1>1
<1>3. ~ (a < b)
  <2>1. a < b => c * b >= c * a + c
    BY <1>1, MultiplesApart
  <2> QED BY <1>1, <1>2, <2>1
<1>4. ~ (b < a)
  <2>1. b < a => c * a >= c * b + c
    BY <1>1, MultiplesApart
  <2> QED BY <1>1, <1>2, <2>1
<1>5. a = b
  BY <1>1, <1>3, <1>4
<1>6. s = r
  BY <1>1, <1>2, <1>5
<1> QED BY <1>6 DEF s

\* Numbers less than c apart with the same remainder are equal.
LEMMA RemainderInjective ==
  ASSUME NEW m \in Nat, NEW n \in Nat, NEW c \in Nat, c > 0,
         m <= n, n < m + c, m % c = n % c
  PROVE  m = n
<1> DEFINE a == m \div c
           b == n \div c
           r == n % c
<1>1. m = c * a + r /\ n = c * b + r /\ a \in Nat /\ b \in Nat /\ r \in Nat
  BY DivMod
<1> HIDE DEF a, b, r
<1>2. c * a \in Nat /\ c * b \in Nat
  BY <1>1
<1>3. ~ (a < b)
  <2>1. a < b => c * b >= c * a + c
    BY <1>1, MultiplesApart
  <2> QED BY <1>1, <1>2, <2>1
<1>4. ~ (b < a)
  <2>1. b < a => c * a >= c * b + c
    BY <1>1, MultiplesApart
  <2> QED BY <1>1, <1>2, <2>1
<1> QED BY <1>1, <1>3, <1>4

\* A remainder may be taken before something is added.
LEMMA RemainderAdds ==
  ASSUME NEW n \in Nat, NEW d \in Nat, NEW c \in Nat, c > 0
  PROVE  ((n % c) + d) % c = (n + d) % c
<1> DEFINE a == n \div c
           r == n % c
<1>1. n = c * a + r /\ a \in Nat /\ r \in Nat
  BY DivMod
<1> HIDE DEF a, r
<1> DEFINE b == (r + d) \div c
           s == (r + d) % c
<1>2. r + d = c * b + s /\ b \in Nat /\ s \in 0 .. c - 1
  <2>1. r + d \in Nat
    BY <1>1
  <2> QED BY <2>1, DivMod
<1> HIDE DEF b, s
<1>3. n + d = c * (a + b) + s /\ a + b \in Nat /\ n + d \in Nat
  <2>1. c * (a + b) = c * a + c * b /\ c * a \in Nat /\ c * b \in Nat
    BY <1>1, <1>2
  <2> QED BY <1>1, <1>2, <2>1
<1>4. (n + d) % c = s
  BY <1>2, <1>3, UniqueRemainder, Zenon
<1> QED BY <1>4 DEF s, r

\* Division by an even number keeps the parity.
LEMMA RemainderParity ==
  ASSUME NEW n \in Nat, NEW c \in Nat, c > 0, c % 2 = 0
  PROVE  (n % c) % 2 = n % 2
<1> DEFINE a == n \div c
           r == n % c
           h == c \div 2
<1>1. n = c * a + r /\ a \in Nat /\ r \in Nat
  BY DivMod
<1>2. c = 2 * h /\ h \in Nat
  OBVIOUS
<1> HIDE DEF a, r, h
<1> DEFINE e == h * a
<1>3. n = 2 * e + r /\ e \in Nat
  <2>1. c * a = 2 * e /\ e \in Nat
    BY <1>1, <1>2
  <2> QED BY <1>1, <2>1
<1> HIDE DEF e
<1>4. r % 2 = n % 2
  BY <1>1, <1>3
<1> QED BY <1>4 DEF r

------------------------------------------------------------------------------
(* The invariant *)

\* What a store carries is a store that exists.
Sights ==
  /\ \A k \in 1 .. Len(seqs) : \A w \in Words : seqs[k].sees[w] \in 1 .. Len(words[w])
  /\ \A w \in Words : \A k \in 1 .. Len(words[w]) : words[w][k].sees \in 1 .. Len(seqs)

\* While no writer has died the place of a store tells everything about it:
\* publish p stores seq_ at 2p and 2p + 1 and each word at p + 1.
Stores ==
  /\ Len(seqs) = IF wpc = "words" THEN 2 * publishes ELSE 2 * publishes + 1
  /\ \A k \in 1 .. Len(seqs) : seqs[k].val = (k - 1) % SeqModulus
  /\ \A p \in 0 .. publishes : 2 * p + 1 <= Len(seqs) =>
       \A w \in Words : seqs[2 * p + 1].sees[w] = p + 1
  /\ \A w \in Words :
       Len(words[w]) = IF wpc = "words" /\ w >= widx THEN publishes ELSE publishes + 1
  /\ \A w \in Words : \A k \in 1 .. Len(words[w]) :
       words[w][k].val = k - 1 /\ (k > 1 => words[w][k].sees = 2 * (k - 1))
  /\ wpc = "words" =>
       publishes > 0 /\ wseq = (2 * publishes - 2) % SeqModulus /\ fence = 2 * publishes

\* A reader that began at publish p has words of p or later ones, and its next
\* fence learns of every later publish it has a word of.
Loads ==
  rpc = "words" =>
    \E p \in 0 .. publishes :
      /\ begin = 2 * p + 1 /\ begin <= aseq
      /\ \A w \in Words : vword[w] > p
      /\ \A w \in Words : w < ridx =>
           copy[w] = vword[w] - 1 /\ (vword[w] > 1 => aseq >= 2 * (vword[w] - 1))

Returned ==
  /\ rpc # "idle" => result = "none"
  /\ result = "true" => WholeCopy \/ CounterWrapped

\* After the done flag the reader knows every store.
Finals ==
  final =>
    /\ wpc = "done"
    /\ vseq = Len(seqs)
    /\ \A w \in Words : vword[w] = publishes + 1
    /\ rpc = "words" => /\ begin = Len(seqs) /\ aseq = Len(seqs)
                        /\ \A w \in Words : w < ridx => copy[w] = publishes
    /\ result # "none" => result = "true" /\ out = [w \in Words |-> publishes]

IInv == TypeOK /\ Sights /\ (deaths = 0 => Stores /\ Loads /\ Returned /\ Finals)
------------------------------------------------------------------------------
\* One more store at the end of a history.
LEMMA OneMore ==
  ASSUME NEW S, NEW s \in Seq(S), NEW e \in S
  PROVE  /\ Append(s, e) \in Seq(S)
         /\ Len(s) \in Nat
         /\ Len(Append(s, e)) = Len(s) + 1
         /\ \A k \in 1 .. Len(s) : Append(s, e)[k] = s[k]
         /\ Append(s, e)[Len(s) + 1] = e
OBVIOUS

\* What the types say of a single store.
LEMMA StoreTypes ==
  ASSUME TypeOK
  PROVE  /\ Len(seqs) \in Nat
         /\ \A k \in 1 .. Len(seqs) : /\ seqs[k] \in Message([Words -> Nat])
                                     /\ seqs[k].val \in Nat
                                     /\ seqs[k].sees \in [Words -> Nat]
         /\ \A w \in Words : /\ words[w] \in Seq(Message(Nat))
                            /\ Len(words[w]) \in Nat
                            /\ \A k \in 1 .. Len(words[w]) :
                                 words[w][k].val \in Nat /\ words[w][k].sees \in Nat
<1>1. /\ seqs \in Seq(Message([Words -> Nat]))
      /\ words \in [Words -> Seq(Message(Nat))]
  BY DEF TypeOK
<1>2. Len(seqs) \in Nat /\ \A k \in 1 .. Len(seqs) : seqs[k] \in Message([Words -> Nat])
  BY <1>1
<1>3. \A w \in Words : words[w] \in Seq(Message(Nat))
  BY <1>1
<1>4. \A w \in Words : /\ Len(words[w]) \in Nat
                      /\ \A k \in 1 .. Len(words[w]) : words[w][k] \in Message(Nat)
  BY <1>3
<1>5. \A m \in Message([Words -> Nat]) : m.val \in Nat /\ m.sees \in [Words -> Nat]
  BY DEF Message
<1>6. \A m \in Message(Nat) : m.val \in Nat /\ m.sees \in Nat
  BY DEF Message
<1> QED BY <1>2, <1>3, <1>4, <1>5, <1>6, Zenon

\* A store to seq_ leaves everything typed, if what it carries exists.
LEMMA SeqStored ==
  ASSUME TypeOK, Sights, NEW m \in Message([Words -> Nat]),
         \A w \in Words : m.sees[w] \in 1 .. Len(words[w]),
         seqs' = Append(seqs, m), words' = words
  PROVE  /\ seqs' \in Seq(Message([Words -> Nat]))
         /\ Len(seqs') = Len(seqs) + 1
         /\ \A k \in 1 .. Len(seqs) : seqs'[k] = seqs[k]
         /\ seqs'[Len(seqs) + 1] = m
         /\ Sights'
<1>1. /\ seqs' \in Seq(Message([Words -> Nat])) /\ Len(seqs) \in Nat
      /\ Len(seqs') = Len(seqs) + 1
      /\ \A k \in 1 .. Len(seqs) : seqs'[k] = seqs[k]
      /\ seqs'[Len(seqs) + 1] = m
  BY OneMore DEF TypeOK
<1>2. ASSUME NEW k \in 1 .. Len(seqs'), NEW w \in Words
      PROVE  seqs'[k].sees[w] \in 1 .. Len(words'[w])
  <2>1. CASE k \in 1 .. Len(seqs)
    BY <1>1, <2>1 DEF Sights
  <2>2. CASE k = Len(seqs) + 1
    BY <1>1, <2>2
  <2> QED BY <1>1, <2>1, <2>2
<1>3. ASSUME NEW w \in Words, NEW k \in 1 .. Len(words'[w])
      PROVE  words'[w][k].sees \in 1 .. Len(seqs')
  <2>1. words[w][k].sees \in 1 .. Len(seqs)
    BY DEF Sights
  <2> QED BY <1>1, <2>1
<1> QED BY <1>1, <1>2, <1>3 DEF Sights

\* A store to a word, likewise.
LEMMA WordStored ==
  ASSUME TypeOK, Sights, NEW i \in Words, NEW m \in Message(Nat), m.sees \in 1 .. Len(seqs),
         words' = [words EXCEPT ![i] = Append(words[i], m)], seqs' = seqs
  PROVE  /\ words' \in [Words -> Seq(Message(Nat))]
         /\ \A w \in Words : w # i => words'[w] = words[w]
         /\ Len(words'[i]) = Len(words[i]) + 1
         /\ \A k \in 1 .. Len(words[i]) : words'[i][k] = words[i][k]
         /\ words'[i][Len(words[i]) + 1] = m
         /\ Sights'
<1>1. words \in [Words -> Seq(Message(Nat))] /\ words[i] \in Seq(Message(Nat))
  BY DEF TypeOK
<1>2. words'[i] = Append(words[i], m) /\ \A w \in Words : w # i => words'[w] = words[w]
  BY <1>1
<1>3. /\ words'[i] \in Seq(Message(Nat)) /\ Len(words[i]) \in Nat
      /\ Len(words'[i]) = Len(words[i]) + 1
      /\ \A k \in 1 .. Len(words[i]) : words'[i][k] = words[i][k]
      /\ words'[i][Len(words[i]) + 1] = m
  BY <1>1, <1>2, OneMore
<1>4. words' \in [Words -> Seq(Message(Nat))]
  <2>1. Append(words[i], m) \in Seq(Message(Nat))
    BY <1>2, <1>3
  <2> QED BY <1>1, <2>1
<1>5. ASSUME NEW k \in 1 .. Len(seqs'), NEW w \in Words
      PROVE  seqs'[k].sees[w] \in 1 .. Len(words'[w])
  <2>1. seqs[k].sees[w] \in 1 .. Len(words[w])
    BY DEF Sights
  <2>2. CASE w = i
    BY <1>3, <2>1, <2>2
  <2>3. CASE w # i
    BY <1>2, <2>1, <2>3
  <2> QED BY <2>2, <2>3
<1>6. ASSUME NEW w \in Words, NEW k \in 1 .. Len(words'[w])
      PROVE  words'[w][k].sees \in 1 .. Len(seqs')
  <2>1. CASE w = i
    <3>1. CASE k \in 1 .. Len(words[i])
      BY <1>3, <2>1, <3>1 DEF Sights
    <3>2. CASE k = Len(words[i]) + 1
      BY <1>3, <2>1, <3>2
    <3> QED BY <1>3, <2>1, <3>1, <3>2
  <2>2. CASE w # i
    BY <1>2, <2>2 DEF Sights
  <2> QED BY <2>1, <2>2
<1>7. Sights'
  BY <1>5, <1>6 DEF Sights
<1> QED BY <1>2, <1>3, <1>4, <1>7

------------------------------------------------------------------------------
\* Every store of publish() and every load of load() stays within the
\* histories, also after deaths: a load takes an existing store and learns
\* only of existing ones.
LEMMA TypeInvariant == TypeOK /\ Sights /\ [Next]_vars => TypeOK' /\ Sights'
<1> SUFFICES ASSUME TypeOK, Sights, [Next]_vars PROVE TypeOK' /\ Sights'
  OBVIOUS
<1> USE SeqlockAssumption
<1>0. /\ Len(seqs) \in Nat /\ Len(seqs) > 0
      /\ \A w \in Words : Len(words[w]) \in Nat /\ Len(words[w]) > 0
  BY StoreTypes DEF TypeOK
<1>1. CASE PublishOdd
  <2> DEFINE m == [val |-> (wseq' + 1) % SeqModulus, sees |-> [w \in Words |-> 1]]
  <2>1. wseq' \in Nat
    BY <1>0, <1>1, StoreTypes DEF PublishOdd
  <2>2. m \in Message([Words -> Nat])
    <3>1. ASSUME NEW n \in Nat PROVE (n + 1) % SeqModulus \in Nat
      OBVIOUS
    <3>2. (wseq' + 1) % SeqModulus \in Nat
      BY <2>1, <3>1, Zenon
    <3> QED BY <3>2 DEF Message
  <2>3. \A w \in Words : m.sees[w] \in 1 .. Len(words[w])
    BY <1>0
  <2>4. seqs' = Append(seqs, m) /\ words' = words
    BY <1>1 DEF PublishOdd
  <2> HIDE DEF m
  <2>5. /\ seqs' \in Seq(Message([Words -> Nat])) /\ Len(seqs') = Len(seqs) + 1 /\ Sights'
    BY <2>2, <2>3, <2>4, SeqStored, Zenon
  <2>6. /\ wpc' = "words" /\ widx' \in 0 .. kWords /\ fence' \in 1 .. Len(seqs')
        /\ publishes' \in 0 .. MaxPublish
    BY <1>0, <1>1, <2>5 DEF PublishOdd, TypeOK
  <2>7. \A k \in 1 .. Len(seqs) : k \in 1 .. Len(seqs')
    BY <1>0, <2>5
  <2>8. UNCHANGED <<words, deaths, reader>>
    BY <1>1 DEF PublishOdd
  <2>9. begin \in 1 .. Len(seqs') /\ end \in 1 .. Len(seqs')
        /\ vseq \in 1 .. Len(seqs') /\ aseq \in 1 .. Len(seqs')
    BY <2>7 DEF TypeOK
  <2> QED BY <1>0, <2>1, <2>5, <2>6, <2>8, <2>9, SMTT(30) DEF TypeOK, reader
<1>2. CASE PublishWord
  <2> DEFINE m == [val |-> publishes, sees |-> fence]
  <2>1. m \in Message(Nat) /\ m.sees \in 1 .. Len(seqs)
    BY <1>0 DEF TypeOK, Message
  <2>2. widx \in Words /\ widx + 1 \in 0 .. kWords
    BY <1>2 DEF PublishWord, TypeOK, Words
  <2>3. words' = [words EXCEPT ![widx] = Append(words[widx], m)] /\ seqs' = seqs
    BY <1>2 DEF PublishWord, Fence
  <2> HIDE DEF m
  <2>4. /\ words' \in [Words -> Seq(Message(Nat))] /\ Sights'
        /\ \A w \in Words : w # widx => words'[w] = words[w]
        /\ Len(words'[widx]) = Len(words[widx]) + 1
    BY <2>1, <2>2, <2>3, WordStored, Zenon
  <2>5. \A w \in Words : Len(words'[w]) \in Nat /\ Len(words'[w]) >= Len(words[w])
    BY <1>0, <2>2, <2>4
  <2>6. \A w \in Words : vword[w] \in 1 .. Len(words'[w])
    BY <1>0, <2>5 DEF TypeOK
  <2>7. \A w \in Words : Len(words'[w]) > 0
    BY <1>0, <2>5
  <2>8. /\ UNCHANGED <<seqs, wpc, wseq, fence, publishes, deaths, reader>>
        /\ widx' = widx + 1
    BY <1>2 DEF PublishWord
  <2> QED BY <2>2, <2>4, <2>6, <2>7, <2>8, SMTT(30) DEF TypeOK, reader
<1>3. CASE PublishEven
  <2> DEFINE m == [val |-> (wseq + 2) % SeqModulus, sees |-> Latest]
  <2>1. m \in Message([Words -> Nat])
    <3>1. (wseq + 2) % SeqModulus \in Nat
      BY DEF TypeOK
    <3>2. Latest \in [Words -> Nat]
      BY <1>0 DEF Latest
    <3> QED BY <3>1, <3>2 DEF Message
  <2>2. \A w \in Words : m.sees[w] \in 1 .. Len(words[w])
    BY <1>0 DEF Latest
  <2>3. seqs' = Append(seqs, m) /\ words' = words
    BY <1>3 DEF PublishEven
  <2> HIDE DEF m
  <2>4. /\ seqs' \in Seq(Message([Words -> Nat])) /\ Len(seqs') = Len(seqs) + 1 /\ Sights'
    BY <2>1, <2>2, <2>3, SeqStored, Zenon
  <2> QED BY <1>0, <1>3, <2>3, <2>4, SMTT(30) DEF PublishEven, TypeOK, reader
<1>4. CASE WriterDies
  BY <1>4 DEF WriterDies, TypeOK, Sights, shared, reader
<1>5. CASE WriterDone
  BY <1>5 DEF WriterDone, TypeOK, Sights, shared, reader
<1>6. CASE AcquireDone
  <2>1. vword' \in [Words -> Nat] /\ \A w \in Words : vword'[w] \in 1 .. Len(words[w])
    BY <1>0, <1>6 DEF AcquireDone, Latest
  <2> QED BY <1>0, <1>6, <2>1 DEF AcquireDone, TypeOK, Sights, shared, writer
<1>7. CASE LoadStart
  BY <1>7 DEF LoadStart, TypeOK, Sights, shared, writer
<1>8. ASSUME Retry PROVE rpc' \in {"idle", "begin", "words"} /\ attempt' \in 0 .. kAttempts
                         /\ result' \in {"none", "true", "false"}
  BY <1>8 DEF Retry, TypeOK
<1>9. CASE LoadBegin
  <2>1. PICK k \in vseq .. Len(seqs) :
          /\ begin' = k /\ vseq' = k /\ vword' = Learn(k)
          /\ IF BeginEven(seqs[k].val)
             THEN rpc' = "words" /\ ridx' = 0 /\ aseq' = k /\ UNCHANGED <<attempt, result>>
             ELSE Retry /\ UNCHANGED <<ridx, aseq>>
    BY <1>9 DEF LoadBegin
  <2>2. k \in 1 .. Len(seqs)
    BY <1>0 DEF TypeOK
  <2>3. vword' \in [Words -> Nat] /\ \A w \in Words : vword'[w] \in 1 .. Len(words[w])
    <3>1. \A w \in Words : seqs[k].sees[w] \in 1 .. Len(words[w]) /\ vword[w] \in 1 .. Len(words[w])
      BY <2>2 DEF Sights, TypeOK
    <3>2. \A w \in Words : Learn(k)[w] \in 1 .. Len(words[w])
      BY <3>1 DEF Learn
    <3>3. Learn(k) \in [Words -> Nat]
      BY <1>0, <3>1 DEF Learn
    <3> QED BY <2>1, <3>2, <3>3
  <2>4. /\ rpc' \in {"idle", "begin", "words"} /\ attempt' \in 0 .. kAttempts
        /\ result' \in {"none", "true", "false"} /\ ridx' \in 0 .. kWords
        /\ aseq' \in 1 .. Len(seqs)
    <3>1. CASE BeginEven(seqs[k].val)
      BY <2>1, <2>2, <3>1 DEF TypeOK
    <3>2. CASE ~ BeginEven(seqs[k].val)
      BY <1>8, <2>1, <3>2, SMTT(30) DEF TypeOK
    <3> QED BY <3>1, <3>2
  <2> QED BY <1>9, <2>1, <2>2, <2>3, <2>4, SMTT(30) DEF LoadBegin, TypeOK, Sights, shared, writer
<1>10. CASE LoadWord
  <2>1. ridx \in Words /\ ridx + 1 \in 0 .. kWords
    <3>1. ridx < kWords /\ ridx \in 0 .. kWords
      BY <1>10, Zenon DEF LoadWord, TypeOK
    <3> QED BY <3>1 DEF Words
  <2>2. PICK k \in vword[ridx] .. Len(words[ridx]) :
          /\ copy' = [copy EXCEPT ![ridx] = words[ridx][k].val]
          /\ vword' = [vword EXCEPT ![ridx] = k]
          /\ aseq' = IF words[ridx][k].sees > aseq THEN words[ridx][k].sees ELSE aseq
    BY <1>10, Zenon DEF LoadWord
  <2>3. vword[ridx] \in 1 .. Len(words[ridx])
    BY <2>1 DEF TypeOK
  <2>4. k \in 1 .. Len(words[ridx])
    BY <1>0, <2>1, <2>3
  <2>5. words[ridx][k].val \in Nat /\ words[ridx][k].sees \in 1 .. Len(seqs)
    BY <2>1, <2>4, StoreTypes DEF Sights
  <2>6. copy' \in [Words -> Nat] /\ vword' \in [Words -> Nat]
    <3>1. copy \in [Words -> Nat] /\ vword \in [Words -> Nat]
      BY DEF TypeOK
    <3>2. copy' \in [Words -> Nat]
      BY <2>2, <2>5, <3>1, Zenon
    <3> QED BY <2>2, <2>4, <3>1, <3>2
  <2>7. \A w \in Words : vword'[w] \in 1 .. Len(words[w])
    BY <2>1, <2>2, <2>4 DEF TypeOK
  <2>8. aseq' \in 1 .. Len(seqs)
    BY <2>2, <2>5 DEF TypeOK
  <2> QED BY <1>10, <2>1, <2>6, <2>7, <2>8, Zenon DEF LoadWord, TypeOK, Sights, shared, writer
<1>11. CASE LoadEnd
  <2>1. PICK k \in aseq .. Len(seqs) :
          /\ end' = k /\ vseq' = k
          /\ IF seqs[k].val = seqs[begin].val
             THEN rpc' = "idle" /\ result' = "true" /\ out' = copy /\ UNCHANGED attempt
             ELSE Retry /\ UNCHANGED out
    BY <1>11 DEF LoadEnd
  <2>2. k \in 1 .. Len(seqs)
    BY <1>0 DEF TypeOK
  <2>3. /\ rpc' \in {"idle", "begin", "words"} /\ attempt' \in 0 .. kAttempts
        /\ result' \in {"none", "true", "false"} /\ out' \in [Words -> Nat]
    <3>1. CASE seqs[k].val = seqs[begin].val
      BY <2>1, <3>1 DEF TypeOK
    <3>2. CASE seqs[k].val # seqs[begin].val
      BY <1>8, <2>1, <3>2 DEF TypeOK
    <3> QED BY <3>1, <3>2
  <2> QED BY <1>11, <2>1, <2>2, <2>3, Zenon DEF LoadEnd, TypeOK, Sights, shared, writer
<1>12. CASE UNCHANGED vars
  BY <1>12, SMTT(30) DEF vars, shared, writer, reader, TypeOK, Sights
<1> QED
  BY <1>1, <1>2, <1>3, <1>4, <1>5, <1>6, <1>7, <1>9, <1>10, <1>11, <1>12 DEF Next, Load

------------------------------------------------------------------------------
\* A writer that has not died extends the histories by the pattern of Stores.
LEMMA StoresInvariant ==
  ASSUME TypeOK, Sights, Stores, [Next]_vars, deaths = 0, deaths' = 0
  PROVE  Stores'
<1> USE SeqlockAssumption
<1>0. /\ Len(seqs) \in Nat /\ Len(seqs) > 0 /\ publishes \in Nat
      /\ \A w \in Words : Len(words[w]) \in Nat /\ Len(words[w]) > 0
      /\ \A w \in Words : w \in Int
  BY StoreTypes DEF TypeOK, Words
<1>1. CASE PublishOdd
  <2> DEFINE m == [val |-> (wseq' + 1) % SeqModulus, sees |-> [w \in Words |-> 1]]
  <2>0. /\ wpc = "idle" /\ wpc' = "words" /\ publishes' = publishes + 1 /\ widx' = 0
        /\ fence' = Len(seqs) + 1 /\ words' = words /\ seqs' = Append(seqs, m)
        /\ wseq' = seqs[Len(seqs)].val
    BY <1>1 DEF PublishOdd
  <2>1. Len(seqs) = 2 * publishes + 1
    BY <2>0 DEF Stores
  <2>2. wseq' = (2 * publishes) % SeqModulus
    <3>1. seqs[Len(seqs)].val = (Len(seqs) - 1) % SeqModulus
      BY <1>0 DEF Stores
    <3>2. Len(seqs) - 1 = 2 * publishes
      BY <1>0, <2>1
    <3> QED BY <2>0, <3>1, <3>2
  <2>3. (wseq' + 1) % SeqModulus = (2 * publishes + 1) % SeqModulus
    <3>1. ASSUME NEW n \in Nat
          PROVE  ((n % SeqModulus) + 1) % SeqModulus = (n + 1) % SeqModulus
      BY RemainderAdds, ZenonT(30)
    <3>2. 2 * publishes \in Nat
      BY <1>0
    <3>3. (((2 * publishes) % SeqModulus) + 1) % SeqModulus = (2 * publishes + 1) % SeqModulus
      BY <3>1, <3>2
    <3> QED BY <2>2, <3>3
  <2>4. m \in Message([Words -> Nat])
    <3>1. ASSUME NEW n \in Nat PROVE n % SeqModulus \in Nat
      OBVIOUS
    <3>2. (2 * publishes + 1) % SeqModulus \in Nat
      BY <1>0, <3>1
    <3> QED BY <2>3, <3>2 DEF Message
  <2>5. \A w \in Words : m.sees[w] \in 1 .. Len(words[w])
    BY <1>0
  <2>6. m.val = (2 * publishes + 1) % SeqModulus
    BY <2>3
  <2> HIDE DEF m
  <2>7. /\ Len(seqs') = Len(seqs) + 1
        /\ \A k \in 1 .. Len(seqs) : seqs'[k] = seqs[k]
        /\ seqs'[Len(seqs) + 1] = m
    BY <2>0, <2>4, <2>5, SeqStored
  <2>8. Len(seqs') = 2 * publishes'
    BY <1>0, <2>0, <2>1, <2>7
  <2>9. ASSUME NEW k \in 1 .. Len(seqs') PROVE seqs'[k].val = (k - 1) % SeqModulus
    <3>1. CASE k \in 1 .. Len(seqs)
      BY <2>7, <3>1, Zenon DEF Stores
    <3>2. CASE k = Len(seqs) + 1
      <4>1. k - 1 = 2 * publishes + 1
        BY <1>0, <2>1, <3>2
      <4> QED BY <2>6, <2>7, <3>2, <4>1
    <3> QED BY <1>0, <2>7, <3>1, <3>2
  <2>10. ASSUME NEW p \in 0 .. publishes', 2 * p + 1 <= Len(seqs'), NEW w \in Words
         PROVE  seqs'[2 * p + 1].sees[w] = p + 1
    <3>1. p \in 0 .. publishes /\ 2 * p + 1 <= Len(seqs) /\ 2 * p + 1 \in 1 .. Len(seqs)
      BY <1>0, <2>0, <2>1, <2>8, <2>10
    <3> QED BY <2>7, <3>1, Zenon DEF Stores
  <2>11. ASSUME NEW w \in Words PROVE Len(words'[w]) = publishes' /\ w >= widx'
    <3>1. Len(words[w]) = publishes + 1
      BY <2>0 DEF Stores
    <3>2. w >= 0
      BY DEF Words
    <3> QED BY <2>0, <3>1, <3>2
  <2>12. \A w \in Words : \A k \in 1 .. Len(words'[w]) :
           words'[w][k].val = k - 1 /\ (k > 1 => words'[w][k].sees = 2 * (k - 1))
    BY <2>0 DEF Stores
  <2>13. publishes' > 0 /\ wseq' = (2 * publishes' - 2) % SeqModulus /\ fence' = 2 * publishes'
    <3>1. 2 * publishes' - 2 = 2 * publishes
      BY <1>0, <2>0
    <3> QED BY <1>0, <2>0, <2>1, <2>2, <3>1
  <2> QED BY <2>0, <2>8, <2>9, <2>10, <2>11, <2>12, <2>13, Zenon DEF Stores
<1>2. CASE PublishWord
  <2> DEFINE m == [val |-> publishes, sees |-> fence]
  <2>0. /\ wpc = "words" /\ wpc' = "words" /\ publishes' = publishes /\ widx' = widx + 1
        /\ fence' = fence /\ wseq' = wseq /\ seqs' = seqs
        /\ words' = [words EXCEPT ![widx] = Append(words[widx], m)]
    BY <1>2 DEF PublishWord, Fence
  <2>1. widx \in Words /\ widx \in Nat
    BY <1>2 DEF PublishWord, TypeOK, Words
  <2>2. m \in Message(Nat) /\ m.sees \in 1 .. Len(seqs)
    BY <1>0 DEF TypeOK, Message
  <2>3. m.val = publishes /\ m.sees = 2 * publishes
    BY <2>0 DEF Stores
  <2> HIDE DEF m
  <2>4. /\ \A w \in Words : w # widx => words'[w] = words[w]
        /\ Len(words'[widx]) = Len(words[widx]) + 1
        /\ \A k \in 1 .. Len(words[widx]) : words'[widx][k] = words[widx][k]
        /\ words'[widx][Len(words[widx]) + 1] = m
    BY <2>0, <2>1, <2>2, WordStored, Zenon
  <2>5. Len(words[widx]) = publishes
    BY <2>0, <2>1, SMTT(30) DEF Stores
  <2>6. ASSUME NEW w \in Words
        PROVE  Len(words'[w]) = IF w >= widx' THEN publishes ELSE publishes + 1
    <3>1. CASE w = widx
      BY <2>0, <2>1, <2>4, <2>5, <3>1
    <3>2. CASE w # widx
      <4>1. Len(words[w]) = IF w >= widx THEN publishes ELSE publishes + 1
        BY <2>0 DEF Stores
      <4> QED BY <1>0, <2>0, <2>1, <2>4, <3>2, <4>1
    <3> QED BY <3>1, <3>2
  <2>7. ASSUME NEW w \in Words, NEW k \in 1 .. Len(words'[w])
        PROVE  words'[w][k].val = k - 1 /\ (k > 1 => words'[w][k].sees = 2 * (k - 1))
    <3>0. \A v \in Words : \A j \in 1 .. Len(words[v]) :
            words[v][j].val = j - 1 /\ (j > 1 => words[v][j].sees = 2 * (j - 1))
      BY Zenon DEF Stores
    <3>1. CASE w # widx
      <4>1. words'[w] = words[w]
        BY <2>4, <3>1
      <4> QED BY <3>0, <4>1
    <3>2. CASE w = widx /\ k \in 1 .. Len(words[widx])
      <4>1. words'[w][k] = words[w][k] /\ k \in 1 .. Len(words[w])
        BY <2>4, <3>2
      <4> QED BY <3>0, <4>1
    <3>3. CASE w = widx /\ k = publishes + 1
      BY <1>0, <2>3, <2>4, <2>5, <3>3
    <3> QED BY <1>0, <2>4, <2>5, <3>1, <3>2, <3>3
  <2> QED BY <2>0, <2>6, <2>7, SMTT(30) DEF Stores
<1>3. CASE PublishEven
  <2> DEFINE m == [val |-> (wseq + 2) % SeqModulus, sees |-> Latest]
  <2>0. /\ wpc = "words" /\ wpc' = "idle" /\ publishes' = publishes /\ widx = kWords
        /\ words' = words /\ seqs' = Append(seqs, m)
    BY <1>3 DEF PublishEven, LastWord
  <2>1. Len(seqs) = 2 * publishes /\ publishes > 0 /\ wseq = (2 * publishes - 2) % SeqModulus
    BY <2>0 DEF Stores
  <2>2. (wseq + 2) % SeqModulus = (2 * publishes) % SeqModulus
    <3>1. 2 * publishes - 2 \in Nat /\ (2 * publishes - 2) + 2 = 2 * publishes
      BY <1>0, <2>1
    <3>2. ASSUME NEW n \in Nat
          PROVE  ((n % SeqModulus) + 2) % SeqModulus = (n + 2) % SeqModulus
      BY RemainderAdds, ZenonT(30)
    <3>3. (((2 * publishes - 2) % SeqModulus) + 2) % SeqModulus
            = ((2 * publishes - 2) + 2) % SeqModulus
      BY <3>1, <3>2
    <3> QED BY <2>1, <3>1, <3>3
  <2>3. m \in Message([Words -> Nat])
    <3>1. ASSUME NEW n \in Nat PROVE n % SeqModulus \in Nat
      OBVIOUS
    <3>2. (2 * publishes) % SeqModulus \in Nat
      BY <1>0, <3>1
    <3>3. Latest \in [Words -> Nat]
      BY <1>0 DEF Latest
    <3> QED BY <2>2, <3>2, <3>3 DEF Message
  <2>4. \A w \in Words : m.sees[w] \in 1 .. Len(words[w])
    BY <1>0 DEF Latest
  <2>5. \A w \in Words : Len(words[w]) = publishes + 1
    <3>1. \A w \in Words : ~ (w >= widx)
      BY <2>0 DEF Words
    <3> QED BY <3>1 DEF Stores
  <2>6. m.val = (2 * publishes) % SeqModulus /\ \A w \in Words : m.sees[w] = publishes + 1
    BY <2>2, <2>5 DEF Latest
  <2> HIDE DEF m
  <2>7. /\ Len(seqs') = Len(seqs) + 1
        /\ \A k \in 1 .. Len(seqs) : seqs'[k] = seqs[k]
        /\ seqs'[Len(seqs) + 1] = m
    BY <2>0, <2>3, <2>4, SeqStored
  <2>8. Len(seqs') = 2 * publishes' + 1
    BY <1>0, <2>0, <2>1, <2>7
  <2>9. ASSUME NEW k \in 1 .. Len(seqs') PROVE seqs'[k].val = (k - 1) % SeqModulus
    <3>1. CASE k \in 1 .. Len(seqs)
      BY <2>7, <3>1, Zenon DEF Stores
    <3>2. CASE k = Len(seqs) + 1
      <4>1. k - 1 = 2 * publishes
        BY <1>0, <2>1, <3>2
      <4> QED BY <2>6, <2>7, <3>2, <4>1
    <3> QED BY <1>0, <2>7, <3>1, <3>2
  <2>10. ASSUME NEW p \in 0 .. publishes', NEW w \in Words
         PROVE  seqs'[2 * p + 1].sees[w] = p + 1
    <3>1. CASE p < publishes
      <4>1. p \in 0 .. publishes /\ 2 * p + 1 <= Len(seqs) /\ 2 * p + 1 \in 1 .. Len(seqs)
        BY <1>0, <2>0, <2>1, <3>1
      <4> QED BY <2>7, <4>1, Zenon DEF Stores
    <3>2. CASE p = publishes
      BY <1>0, <2>1, <2>6, <2>7, <3>2
    <3>3. p \in 0 .. publishes
      BY <2>0
    <3>4. p < publishes \/ p = publishes
      BY <1>0, <3>3
    <3> QED BY <3>1, <3>2, <3>4
  <2>11. \A w \in Words : \A k \in 1 .. Len(words'[w]) :
           words'[w][k].val = k - 1 /\ (k > 1 => words'[w][k].sees = 2 * (k - 1))
    BY <2>0, Zenon DEF Stores
  <2> QED BY <2>0, <2>5, <2>8, <2>9, <2>10, <2>11, Zenon DEF Stores
<1>4. CASE WriterDies
  BY <1>4 DEF WriterDies
<1>5. CASE WriterDone
  <2>1. /\ wpc = "idle" /\ wpc' = "done" /\ UNCHANGED <<seqs, words, widx, wseq, fence, publishes>>
    BY <1>5 DEF WriterDone, shared
  <2> QED BY <2>1 DEF Stores
<1>6. CASE AcquireDone \/ LoadStart \/ Load \/ UNCHANGED vars
  <2>1. UNCHANGED <<seqs, words, wpc, widx, wseq, fence, publishes>>
    BY <1>6 DEF AcquireDone, LoadStart, Load, LoadBegin, LoadWord, LoadEnd, vars, shared, writer
  <2> QED BY <2>1, Zenon DEF Stores
<1> QED BY <1>1, <1>2, <1>3, <1>4, <1>5, <1>6 DEF Next

------------------------------------------------------------------------------
\* An even value of seq_ was left by a finished publish.
LEMMA EvenStore ==
  ASSUME TypeOK, Stores, NEW k \in 1 .. Len(seqs), BeginEven(seqs[k].val)
  PROVE  \E p \in 0 .. publishes : /\ k = 2 * p + 1
                                   /\ \A w \in Words : seqs[k].sees[w] = p + 1
<1>0. /\ Len(seqs) \in Nat /\ publishes \in Nat /\ Len(seqs) <= 2 * publishes + 1
      /\ k - 1 \in Nat
  <2>0. publishes \in Nat
    BY DEF TypeOK
  <2>1. Len(seqs) \in Nat /\ publishes \in Nat
    BY <2>0, StoreTypes
  <2>2. Len(seqs) = 2 * publishes \/ Len(seqs) = 2 * publishes + 1
    BY ZenonT(30) DEF Stores
  <2> QED BY <2>1, <2>2
<1>1. ((k - 1) % SeqModulus) % 2 = 0
  BY DEF BeginEven, Stores
<1>2. ASSUME NEW n \in Nat PROVE (n % SeqModulus) % 2 = n % 2
  BY SeqlockAssumption, RemainderParity
<1>3. (k - 1) % 2 = 0
  BY <1>0, <1>1, <1>2
<1>4. PICK p \in Nat : k - 1 = 2 * p
  <2>1. ASSUME NEW n \in Nat, n % 2 = 0 PROVE \E p \in Nat : n = 2 * p
    <3>1. n \div 2 \in Nat /\ n = 2 * (n \div 2)
      BY <2>1
    <3> QED BY <3>1
  <2> QED BY <1>0, <1>3, <2>1, Zenon
<1>5. p \in 0 .. publishes /\ k = 2 * p + 1 /\ 2 * p + 1 <= Len(seqs)
  BY <1>0, <1>4
<1>6. \A w \in Words : seqs[2 * p + 1].sees[w] = p + 1
  BY <1>5 DEF Stores
<1> QED BY <1>5, <1>6

\* What the reader holds inside a try.
LEMMA LoadsInvariant ==
  ASSUME TypeOK, Stores, Loads, [Next]_vars
  PROVE  Loads'
<1> USE SeqlockAssumption
<1>0. /\ Len(seqs) \in Nat /\ publishes \in Nat /\ aseq \in Nat /\ begin \in Nat
      /\ \A w \in Words : vword[w] \in Nat /\ Len(words[w]) \in Nat
      /\ \A w \in Words : w \in Int /\ w >= 0
  BY StoreTypes, SMTT(30) DEF TypeOK, Words
<1>1. CASE PublishOdd \/ PublishWord \/ PublishEven \/ WriterDies \/ WriterDone \/ UNCHANGED vars
  <2>1. UNCHANGED <<rpc, begin, aseq, vword, ridx, copy>> /\ publishes' \in Nat /\ publishes' >= publishes
    BY <1>0, <1>1 DEF PublishOdd, PublishWord, PublishEven, WriterDies, WriterDone, reader, writer, vars
  <2>2. \A p \in 0 .. publishes : p \in 0 .. publishes'
    BY <1>0, <2>1
  <2> QED BY <2>1, <2>2 DEF Loads
<1>2. CASE AcquireDone \/ LoadStart \/ LoadEnd
  <2>1. rpc' # "words"
    BY <1>2 DEF AcquireDone, LoadStart, LoadEnd, Retry
  <2> QED BY <2>1 DEF Loads
<1>3. CASE LoadBegin
  <2> SUFFICES ASSUME rpc' = "words" PROVE Loads'
    BY DEF Loads
  <2>1. PICK k \in vseq .. Len(seqs) :
          /\ begin' = k /\ vword' = Learn(k)
          /\ BeginEven(seqs[k].val) /\ ridx' = 0 /\ aseq' = k
    BY <1>3 DEF LoadBegin, Retry
  <2>2. publishes' = publishes
    BY <1>3 DEF LoadBegin, writer
  <2>3. k \in 1 .. Len(seqs)
    BY <1>0, <2>1, SMTT(30) DEF TypeOK
  <2>4. PICK p \in 0 .. publishes : k = 2 * p + 1 /\ \A w \in Words : seqs[k].sees[w] = p + 1
    BY <2>1, <2>3, EvenStore, Zenon
  <2>5. ASSUME NEW w \in Words PROVE vword'[w] > p
    <3>1. vword'[w] = IF p + 1 > vword[w] THEN p + 1 ELSE vword[w]
      BY <2>1, <2>4 DEF Learn
    <3> QED BY <1>0, <2>4, <3>1
  <2>6. \A w \in Words : ~ (w < ridx')
    BY <1>0, <2>1
  <2>7. begin' = 2 * p + 1 /\ begin' <= aseq'
    BY <2>1, <2>3, <2>4
  <2> QED BY <2>2, <2>5, <2>6, <2>7 DEF Loads
<1>4. CASE LoadWord
  <2>0. /\ rpc = "words" /\ ridx' = ridx + 1 /\ begin' = begin /\ publishes' = publishes
        /\ ridx \in Words
    BY <1>4 DEF LoadWord, writer, TypeOK, Words
  <2>1. PICK k \in vword[ridx] .. Len(words[ridx]) :
          /\ copy' = [copy EXCEPT ![ridx] = words[ridx][k].val]
          /\ vword' = [vword EXCEPT ![ridx] = k]
          /\ aseq' = IF words[ridx][k].sees > aseq THEN words[ridx][k].sees ELSE aseq
    BY <1>4, Zenon DEF LoadWord
  <2>2. k \in 1 .. Len(words[ridx]) /\ k \in Nat /\ k >= vword[ridx]
    BY <1>0, <2>0, <2>1, SMTT(30) DEF TypeOK
  <2>3. words[ridx][k].sees \in Nat
    BY <2>0, <2>2, StoreTypes
  <2>4. words[ridx][k].val = k - 1 /\ (k > 1 => words[ridx][k].sees = 2 * (k - 1))
    BY <2>0, <2>2, Zenon DEF Stores
  <2>5. aseq' \in Nat /\ aseq' >= aseq /\ aseq' >= words[ridx][k].sees
    BY <1>0, <2>1, <2>3
  <2>6. PICK p \in 0 .. publishes :
          /\ begin = 2 * p + 1 /\ begin <= aseq
          /\ \A w \in Words : vword[w] > p
          /\ \A w \in Words : w < ridx =>
               copy[w] = vword[w] - 1 /\ (vword[w] > 1 => aseq >= 2 * (vword[w] - 1))
    BY <2>0 DEF Loads
  <2>7. /\ copy'[ridx] = k - 1 /\ vword'[ridx] = k
        /\ \A w \in Words : w # ridx => copy'[w] = copy[w] /\ vword'[w] = vword[w]
    BY <2>0, <2>1, <2>4 DEF TypeOK
  <2>8. ASSUME NEW w \in Words PROVE vword'[w] > p
    BY <1>0, <2>0, <2>2, <2>6, <2>7, SMTT(30)
  <2>9. ASSUME NEW w \in Words, w < ridx'
        PROVE  copy'[w] = vword'[w] - 1 /\ (vword'[w] > 1 => aseq' >= 2 * (vword'[w] - 1))
    <3>1. CASE w = ridx
      BY <2>2, <2>4, <2>5, <2>7, <3>1
    <3>2. CASE w # ridx
      <4>1. w < ridx /\ copy'[w] = copy[w] /\ vword'[w] = vword[w]
        BY <1>0, <2>0, <2>7, <2>9, <3>2
      <4>2. copy[w] = vword[w] - 1 /\ (vword[w] > 1 => aseq >= 2 * (vword[w] - 1))
        BY <2>6, <4>1
      <4> QED BY <1>0, <2>5, <4>1, <4>2
    <3> QED BY <3>1, <3>2
  <2>10. begin' = 2 * p + 1 /\ begin' <= aseq'
    BY <1>0, <2>0, <2>5, <2>6
  <2> QED BY <2>0, <2>8, <2>9, <2>10 DEF Loads
<1> QED BY <1>1, <1>2, <1>3, <1>4 DEF Next, Load

\* A copy with a word of a later publish is returned only after the counter has
\* turned: the fence has learned of that publish, so the second load of seq_
\* meets a later store than the first one.
LEMMA EqualStores ==
  ASSUME TypeOK, Stores, Loads, rpc = "words", ridx = kWords,
         NEW k \in aseq .. Len(seqs), seqs[k].val = seqs[begin].val
  PROVE  (\E n \in 0 .. publishes : copy = [w \in Words |-> n]) \/ k - begin >= SeqModulus
<1> USE SeqlockAssumption
<1>0. /\ Len(seqs) \in Nat /\ publishes \in Nat /\ aseq \in 1 .. Len(seqs)
      /\ begin \in 1 .. Len(seqs)
      /\ \A w \in Words : vword[w] \in Nat
      /\ \A w \in Words : w < ridx
  <2>1. \A w \in Words : w < ridx
    BY DEF Words
  <2>2. \A w \in Words : vword[w] \in Nat
    BY DEF TypeOK
  <2> QED BY <2>1, <2>2, StoreTypes DEF TypeOK
<1>1. PICK p \in 0 .. publishes :
        /\ begin = 2 * p + 1 /\ begin <= aseq
        /\ \A w \in Words : vword[w] > p
        /\ \A w \in Words : copy[w] = vword[w] - 1 /\ (vword[w] > 1 => aseq >= 2 * (vword[w] - 1))
  BY <1>0 DEF Loads
<1>2. CASE \A w \in Words : copy[w] = p
  <2>1. copy = [w \in Words |-> p]
    BY <1>2 DEF TypeOK
  <2> QED BY <2>1
<1>3. CASE \E w \in Words : copy[w] # p
  <2>1. PICK w \in Words : copy[w] # p
    BY <1>3
  <2>2. vword[w] > p + 1
    BY <1>0, <1>1, <2>1, SMTT(30)
  <2>3. aseq >= 2 * p + 2
    BY <1>0, <1>1, <2>2, SMTT(30)
  <2>4. k \in 1 .. Len(seqs) /\ k > begin
    BY <1>0, <1>1, <2>3
  <2>5. (begin - 1) % SeqModulus = (k - 1) % SeqModulus
    BY <1>0, <2>4 DEF Stores
  <2>6. ASSUME NEW m \in Nat, NEW n \in Nat, m < n, m % SeqModulus = n % SeqModulus
        PROVE  n - m >= SeqModulus
    <3> SUFFICES ASSUME n < m + SeqModulus PROVE FALSE
      OBVIOUS
    <3>1. m <= n
      BY <2>6
    <3>2. m = n
      BY <2>6, <3>1, RemainderInjective, SMTT(30)
    <3> QED BY <2>6, <3>2
  <2>7. begin - 1 \in Nat /\ k - 1 \in Nat /\ begin - 1 < k - 1
    BY <1>0, <2>4
  <2>8. (k - 1) - (begin - 1) >= SeqModulus
    BY <2>5, <2>6, <2>7, Zenon
  <2> QED BY <1>0, <2>4, <2>8
<1> QED BY <1>2, <1>3, SMTT(30)

\* What the last load() returned stays one publish.
LEMMA ReturnedInvariant ==
  ASSUME TypeOK, Stores, Loads, Returned, [Next]_vars
  PROVE  Returned'
<1>0. publishes \in Nat
  BY DEF TypeOK
<1>1. CASE PublishOdd \/ PublishWord \/ PublishEven \/ WriterDies \/ WriterDone \/ UNCHANGED vars
  <2>1. UNCHANGED <<rpc, begin, end, out, result>> /\ publishes' \in Nat /\ publishes' >= publishes
    BY <1>0, <1>1 DEF PublishOdd, PublishWord, PublishEven, WriterDies, WriterDone, reader, writer, vars
  <2>2. \A p \in 0 .. publishes : p \in 0 .. publishes'
    BY <1>0, <2>1
  <2>3. WholeCopy => WholeCopy'
    BY <2>1, <2>2 DEF WholeCopy
  <2>4. CounterWrapped => CounterWrapped'
    BY <2>1 DEF CounterWrapped
  <2> QED BY <2>1, <2>3, <2>4 DEF Returned
<1>2. CASE AcquireDone \/ LoadStart
  <2>1. result' = "none"
    BY <1>2 DEF AcquireDone, LoadStart
  <2> QED BY <2>1 DEF Returned
<1>3. CASE LoadBegin \/ LoadWord
  <2>1. result = "none"
    BY <1>3 DEF LoadBegin, LoadWord, Returned
  <2>2. \/ rpc' # "idle" /\ result' = result
        \/ rpc' = "idle" /\ result' = "false"
    <3>1. CASE LoadBegin
      BY <3>1 DEF LoadBegin, Retry
    <3>2. CASE LoadWord
      BY <3>2 DEF LoadWord
    <3> QED BY <1>3, <3>1, <3>2
  <2> QED BY <2>1, <2>2, SMTT(30) DEF Returned
<1>4. CASE LoadEnd
  <2>1. rpc = "words" /\ ridx = kWords /\ result = "none" /\ begin' = begin /\ publishes' = publishes
    BY <1>4 DEF LoadEnd, Returned, writer
  <2>2. PICK k \in aseq .. Len(seqs) :
          /\ end' = k
          /\ IF seqs[k].val = seqs[begin].val
             THEN rpc' = "idle" /\ result' = "true" /\ out' = copy
             ELSE Retry
    BY <1>4 DEF LoadEnd
  <2>3. CASE seqs[k].val = seqs[begin].val
    <3>1. (\E n \in 0 .. publishes : copy = [w \in Words |-> n]) \/ k - begin >= SeqModulus
      BY <2>1, <2>3, EqualStores
    <3>2. WholeCopy' \/ CounterWrapped'
      BY <2>1, <2>2, <2>3, <3>1 DEF WholeCopy, CounterWrapped
    <3> QED BY <2>2, <2>3, <3>2 DEF Returned
  <2>4. CASE seqs[k].val # seqs[begin].val
    BY <2>1, <2>2, <2>4 DEF Returned, Retry
  <2> QED BY <2>3, <2>4
<1> QED BY <1>1, <1>2, <1>3, <1>4 DEF Next, Load

\* Once the done flag is acquired there is one store of each atomic left to read.
LEMMA FinalsInvariant ==
  ASSUME TypeOK, Sights, Stores, Returned, Finals, [Next]_vars
  PROVE  Finals'
<1> USE SeqlockAssumption
<1>0. /\ Len(seqs) \in 1 .. Len(seqs) /\ Len(seqs) \in Nat /\ publishes \in Nat
      /\ \A w \in Words : w \in Int /\ w >= 0
  BY StoreTypes, SMTT(30) DEF TypeOK, Words
<1>1. CASE PublishOdd \/ PublishWord \/ PublishEven \/ WriterDies \/ WriterDone
  <2>1. wpc # "done" /\ final' = final
    BY <1>1 DEF PublishOdd, PublishWord, PublishEven, WriterDies, WriterDone, reader
  <2> QED BY <2>1 DEF Finals
<1>2. CASE UNCHANGED vars
  BY <1>2 DEF Finals, vars, shared, writer, reader
<1>3. CASE AcquireDone
  <2>1. /\ wpc = "done" /\ rpc = "idle" /\ vseq' = Len(seqs) /\ vword' = Latest /\ result' = "none"
        /\ UNCHANGED <<seqs, words, wpc, publishes, rpc>>
    BY <1>3 DEF AcquireDone, shared, writer
  <2>2. \A w \in Words : Len(words[w]) = publishes + 1
    BY <2>1 DEF Stores
  <2>3. \A w \in Words : vword'[w] = publishes' + 1
    BY <2>1, <2>2, SMTT(30) DEF Latest
  <2> QED BY <2>1, <2>3 DEF Finals
<1> SUFFICES ASSUME LoadStart \/ Load, final, final' PROVE Finals'
  <2>1. LoadStart \/ Load => final' = final
    BY DEF LoadStart, Load, LoadBegin, LoadWord, LoadEnd
  <2> QED BY <1>1, <1>2, <1>3, <2>1, ZenonT(30) DEF Next, Finals
<1>4. /\ wpc = "done" /\ vseq = Len(seqs)
      /\ \A w \in Words : vword[w] = publishes + 1
      /\ rpc = "words" => /\ begin = Len(seqs) /\ aseq = Len(seqs)
                          /\ \A w \in Words : w < ridx => copy[w] = publishes
  BY DEF Finals
<1>5. /\ Len(seqs) = 2 * publishes + 1
      /\ \A w \in Words : Len(words[w]) = publishes + 1
  BY <1>4, SMTT(30) DEF Stores
<1>6. UNCHANGED <<seqs, words, wpc, publishes>>
  BY Zenon DEF LoadStart, Load, LoadBegin, LoadWord, LoadEnd, shared, writer
<1>7. CASE LoadStart
  <2>1. UNCHANGED <<vseq, vword>> /\ rpc' = "begin" /\ result' = "none"
    BY <1>7, SMTT(30) DEF LoadStart
  <2> QED BY <1>4, <1>6, <2>1 DEF Finals
<1>8. CASE LoadBegin
  <2>1. result = "none"
    BY <1>8 DEF LoadBegin, Returned
  <2>2. PICK k \in vseq .. Len(seqs) :
          /\ begin' = k /\ vseq' = k /\ vword' = Learn(k)
          /\ IF BeginEven(seqs[k].val)
             THEN rpc' = "words" /\ ridx' = 0 /\ aseq' = k /\ result' = result
             ELSE Retry
    BY <1>8 DEF LoadBegin
  <2>3. k = Len(seqs)
    BY <1>0, <1>4, <2>2
  <2>4. BeginEven(seqs[k].val)
    <3>1. ASSUME NEW n \in Nat PROVE ((2 * n) % SeqModulus) % 2 = 0
      <4>1. 2 * n \in Nat /\ (2 * n) % 2 = 0
        OBVIOUS
      <4>2. ASSUME NEW m \in Nat PROVE (m % SeqModulus) % 2 = m % 2
        BY RemainderParity, SMTT(30)
      <4> QED BY <4>1, <4>2
    <3>2. seqs[k].val = (k - 1) % SeqModulus
      BY <1>0, <2>3 DEF Stores
    <3>3. k - 1 = 2 * publishes
      BY <1>0, <1>5, <2>3, SMTT(30)
    <3> QED BY <1>0, <3>1, <3>2, <3>3 DEF BeginEven
  <2>5. \A w \in Words : seqs[k].sees[w] = publishes + 1
    <3>1. publishes \in 0 .. publishes /\ k = 2 * publishes + 1 /\ 2 * publishes + 1 <= Len(seqs)
      BY <1>0, <1>5, <2>3
    <3> QED BY <3>1, SMTT(30) DEF Stores
  <2>6. \A w \in Words : vword'[w] = publishes + 1
    BY <1>0, <1>4, <2>2, <2>5 DEF Learn
  <2>7. \A w \in Words : ~ (w < ridx')
    BY <1>0, <2>2, <2>4, SMTT(30)
  <2> QED BY <1>4, <1>6, <2>1, <2>2, <2>3, <2>4, <2>6, <2>7 DEF Finals
<1>9. CASE LoadWord
  <2>1. /\ rpc = "words" /\ result = "none" /\ ridx \in Words /\ ridx' = ridx + 1
        /\ UNCHANGED <<rpc, begin, vseq, result>>
    BY <1>9, SMTT(30) DEF LoadWord, Returned, TypeOK, Words
  <2>2. PICK k \in vword[ridx] .. Len(words[ridx]) :
          /\ copy' = [copy EXCEPT ![ridx] = words[ridx][k].val]
          /\ vword' = [vword EXCEPT ![ridx] = k]
          /\ aseq' = IF words[ridx][k].sees > aseq THEN words[ridx][k].sees ELSE aseq
    BY <1>9, ZenonT(30) DEF LoadWord
  <2>3. k = publishes + 1 /\ k \in 1 .. Len(words[ridx])
    BY <1>0, <1>4, <1>5, <2>1, <2>2
  <2>4. words[ridx][k].val = publishes
    <3>1. words[ridx][k].val = k - 1
      BY <2>1, <2>3, SMTT(30) DEF Stores
    <3> QED BY <1>0, <2>3, <3>1, SMTT(30)
  <2>5. aseq' = Len(seqs)
    <3>1. words[ridx][k].sees \in 1 .. Len(seqs)
      BY <2>1, <2>3 DEF Sights
    <3> QED BY <1>0, <1>4, <2>1, <2>2, <3>1, SMTT(30)
  <2>6. \A w \in Words : vword'[w] = publishes + 1
    BY <1>4, <2>1, <2>2, <2>3 DEF TypeOK
  <2>7. ASSUME NEW w \in Words, w < ridx' PROVE copy'[w] = publishes
    <3>1. CASE w = ridx
      BY <2>1, <2>2, <2>4, <3>1 DEF TypeOK
    <3>2. CASE w # ridx
      <4>1. copy'[w] = copy[w] /\ w < ridx
        BY <1>0, <2>1, <2>2, <2>7, <3>2, SMTT(30) DEF TypeOK
      <4> QED BY <1>4, <2>1, <4>1, SMTT(30)
    <3> QED BY <3>1, <3>2, SMTT(30)
  <2> QED BY <1>4, <1>6, <2>1, <2>5, <2>6, <2>7, SMTT(30) DEF Finals
<1>10. CASE LoadEnd
  <2>1. rpc = "words" /\ ridx = kWords /\ vword' = vword
    BY <1>10 DEF LoadEnd
  <2>2. PICK k \in aseq .. Len(seqs) :
          /\ vseq' = k
          /\ seqs[k].val = seqs[begin].val => rpc' = "idle" /\ result' = "true" /\ out' = copy
    BY <1>10 DEF LoadEnd
  <2>3. k = Len(seqs) /\ begin = Len(seqs)
    BY <1>0, <1>4, <2>1, <2>2
  <2>4. copy = [w \in Words |-> publishes]
    <3>1. \A w \in Words : w < ridx
      BY <2>1 DEF Words
    <3>2. \A w \in Words : copy[w] = publishes
      BY <1>4, <2>1, <3>1
    <3> QED BY <3>2 DEF TypeOK
  <2> QED BY <1>4, <1>6, <2>1, <2>2, <2>3, <2>4 DEF Finals
<1> QED BY <1>7, <1>8, <1>9, <1>10, SMTT(30) DEF Load

------------------------------------------------------------------------------
\* The fresh mapping: one store of each atomic.
LEMMA InitIInv ==
  ASSUME Init
  PROVE  IInv
<1> USE SeqlockAssumption
<1> DEFINE first == [val |-> 0, sees |-> [w \in Words |-> 1]]
           word == [val |-> 0, sees |-> 1]
<1>0. seqs = <<first>> /\ words = [w \in Words |-> <<word>>]
  BY DEF Init
<1>1. first \in Message([Words -> Nat]) /\ word \in Message(Nat)
  BY DEF Message
<1>2. first.val = 0 /\ (\A w \in Words : first.sees[w] = 1) /\ word.val = 0 /\ word.sees = 1
  OBVIOUS
<1> HIDE DEF first, word
<1>3. /\ seqs \in Seq(Message([Words -> Nat])) /\ Len(seqs) = 1 /\ seqs[1] = first
      /\ words \in [Words -> Seq(Message(Nat))]
      /\ \A w \in Words : Len(words[w]) = 1 /\ words[w][1] = word
  BY <1>0, <1>1, SMTT(30)
<1>4. TypeOK
  <2>1. /\ wpc = "idle" /\ wseq = 0 /\ widx = 0 /\ fence = 1 /\ publishes = 0 /\ deaths = 0
        /\ rpc = "idle" /\ attempt = 0 /\ begin = 1 /\ end = 1 /\ ridx = 0
        /\ vseq = 1 /\ aseq = 1 /\ result = "none" /\ final = FALSE
    BY DEF Init
  <2>2. /\ copy \in [Words -> Nat] /\ out \in [Words -> Nat] /\ vword \in [Words -> Nat]
        /\ \A w \in Words : vword[w] = 1
    BY DEF Init
  <2>3. 1 \in 1 .. Len(seqs) /\ Len(seqs) > 0
    BY <1>3
  <2>4. \A w \in Words : Len(words[w]) > 0 /\ vword[w] \in 1 .. Len(words[w])
    BY <1>3, <2>2
  <2>5. 0 \in 0 .. kWords /\ 0 \in 0 .. MaxPublish /\ 0 \in 0 .. MaxDeaths /\ 0 \in 0 .. kAttempts
    OBVIOUS
  <2> QED BY <1>3, <2>1, <2>2, <2>3, <2>4, <2>5, ZenonT(30) DEF TypeOK
<1>5. Sights
  BY <1>2, <1>3 DEF Sights
<1>6. Stores
  <2>1. publishes = 0 /\ wpc = "idle"
    BY DEF Init
  <2>2. \A k \in 1 .. Len(seqs) : seqs[k].val = (k - 1) % SeqModulus
    BY <1>2, <1>3, SMTT(30)
  <2> QED BY <1>2, <1>3, <2>1, <2>2 DEF Stores
<1>7. Loads /\ Returned /\ Finals
  BY DEF Init, Loads, Returned, Finals
<1> QED BY <1>4, <1>5, <1>6, <1>7 DEF IInv

\* The inductive invariant of publish() and load(): where every store of a
\* writer that has not died stands, and what a try of load() knows of them.
THEOREM SeqlockInvariant == Spec => []IInv
<1>1. Init => IInv
  BY InitIInv
<1>2. IInv /\ [Next]_vars => IInv'
  <2> SUFFICES ASSUME IInv, [Next]_vars PROVE IInv'
    OBVIOUS
  <2>1. TypeOK' /\ Sights'
    BY TypeInvariant DEF IInv
  <2>2. ASSUME deaths' = 0 PROVE Stores' /\ Loads' /\ Returned' /\ Finals'
    <3>1. deaths = 0
      <4>1. deaths \in Nat
        BY DEF IInv, TypeOK
      <4>2. CASE WriterDies
        BY <2>2, <4>1, <4>2 DEF WriterDies
      <4>3. CASE PublishOdd \/ PublishWord \/ PublishEven \/ WriterDone
        BY <2>2, <4>3, Zenon DEF PublishOdd, PublishWord, PublishEven, WriterDone
      <4>4. CASE AcquireDone \/ LoadStart \/ Load \/ UNCHANGED vars
        <5>1. UNCHANGED writer
          BY <4>4, Zenon DEF AcquireDone, LoadStart, Load, LoadBegin, LoadWord, LoadEnd, vars
        <5> QED BY <2>2, <5>1 DEF writer
      <4> QED BY <4>2, <4>3, <4>4 DEF Next
    <3>2. TypeOK /\ Sights /\ Stores /\ Loads /\ Returned /\ Finals
      BY <3>1 DEF IInv
    <3> QED BY <2>2, <3>1, <3>2, StoresInvariant, LoadsInvariant, ReturnedInvariant,
               FinalsInvariant
  <2> QED BY <2>1, <2>2 DEF IInv
<1> QED BY <1>1, <1>2, PTL DEF Spec

\* Every index stays inside the histories of seq_ and of the words, whatever the
\* writer's deaths.
THEOREM SeqlockTypes == Spec => []TypeOK
<1>1. IInv => TypeOK
  BY DEF IInv
<1> QED BY <1>1, SeqlockInvariant, PTL

\* load() returns words of a single publish, whatever stale or reordered
\* values the memory model allows, unless the 32-bit counter turned completely
\* between its two loads of seq_ (seqlock.hpp:15-18) or a writer died inside
\* publish().
THEOREM WholeCopies == Spec => []NoTornCopy
<1>1. IInv => NoTornCopy
  BY DEF IInv, Returned, NoTornCopy
<1> QED BY <1>1, SeqlockInvariant, PTL

\* A load() after the done flag succeeds and returns the last publish: the
\* final window and the snapshot are complete (compute.cpp:142, :155-160).
THEOREM LastPublishSeen == Spec => []FinalLoad
<1>1. IInv => FinalLoad
  BY DEF IInv, Finals, FinalLoad
<1> QED BY <1>1, SeqlockInvariant, PTL
==============================================================================
