------------------------------- MODULE Seqlock -------------------------------
(* The latest-value slot between two stages (include/ratehub/seqlock.hpp):   *)
(* one writer, and one reader standing for any loader, as load() stores      *)
(* nothing that another loader could see.                                    *)
(*                                                                           *)
(* Memory order.  Every atomic keeps all its stores, in modification order.  *)
(* A load returns any store not older than what its thread is known to have  *)
(* seen of that atomic (vseq, vword), so stale loads and reordered payload   *)
(* words are behaviours of the model.  A store of seq_ carries what an       *)
(* acquire load of it learns about the words: everything so far for the      *)
(* release store, nothing for the relaxed one.  A store of a word carries    *)
(* what the reader's acquire fence learns about seq_: the writer's sight of  *)
(* seq_ at its release fence.                                                *)
EXTENDS Integers, Sequences

CONSTANTS kWords,      \* payload words
          kAttempts,   \* tries of one load(); 64 in the code
          SeqModulus,  \* 2^32, the width of seq_
          MaxPublish,  \* bound: publishes begun in all
          MaxDeaths    \* bound: writers that die inside publish()

ASSUME SeqlockAssumption ==
  /\ kWords \in Nat \ {0} /\ kAttempts \in Nat \ {0}
  /\ SeqModulus \in Nat /\ SeqModulus > 0 /\ SeqModulus % 2 = 0
  /\ MaxPublish \in Nat /\ MaxDeaths \in Nat

VARIABLES seqs,     \* the stores to seq_: value, and what they carry
          words,    \* the stores to words_[w]: publish they belong to, and what they carry
          wpc, wseq, widx, fence,  \* the writer inside publish()
          publishes,               \* publishes begun so far
          deaths,                  \* writers that died inside publish()
          rpc, attempt, begin, end, ridx, copy,  \* the reader inside load()
          vseq, vword, aseq,       \* what it has seen; what its next fence learns
          result, out,             \* what the last load() returned
          final                    \* the reader has acquired the writer's done flag

shared == <<seqs, words>>
writer == <<wpc, wseq, widx, fence, publishes, deaths>>
reader == <<rpc, attempt, begin, end, ridx, copy, vseq, vword, aseq, result, out, final>>
vars == <<shared, writer, reader>>

Words == 0 .. kWords - 1
Latest == [w \in Words |-> Len(words[w])]

Init ==
  /\ seqs = <<[val |-> 0, sees |-> [w \in Words |-> 1]]>>
  /\ words = [w \in Words |-> <<[val |-> 0, sees |-> 1]>>]
  /\ wpc = "idle" /\ wseq = 0 /\ widx = 0 /\ fence = 1
  /\ publishes = 0 /\ deaths = 0
  /\ rpc = "idle" /\ attempt = 0 /\ begin = 1 /\ end = 1 /\ ridx = 0
  /\ copy = [w \in Words |-> 0]
  /\ vseq = 1 /\ vword = [w \in Words |-> 1] /\ aseq = 1
  /\ result = "none" /\ out = [w \in Words |-> 0]
  /\ final = FALSE

------------------------------------------------------------------------------
(* publish() *)

\* Load seq_, store it odd, release fence.
PublishOdd ==
  /\ wpc = "idle" /\ publishes < MaxPublish
  /\ publishes' = publishes + 1
  /\ wseq' = seqs[Len(seqs)].val
  /\ seqs' = Append(seqs, [val |-> (wseq' + 1) % SeqModulus,
                           sees |-> [w \in Words |-> 1]])
  /\ fence' = Len(seqs) + 1
  /\ wpc' = "words" /\ widx' = 0
  /\ UNCHANGED <<words, deaths, reader>>

\* Mutant: no release fence after the odd store.
FenceMissing == 1

\* What the release fence makes every later word store carry.
Fence == fence

\* words_[i].store(raw.words[i], relaxed)
PublishWord ==
  /\ wpc = "words" /\ widx < kWords
  /\ words' = [words EXCEPT ![widx] = Append(@, [val |-> publishes, sees |-> Fence])]
  /\ widx' = widx + 1
  /\ UNCHANGED <<seqs, wpc, wseq, fence, publishes, deaths, reader>>

\* Mutant: the even store is one word early.
LastWordEarly == widx = kWords - 1

LastWord == widx = kWords

\* seq_.store(seq + 2, release)
PublishEven ==
  /\ wpc = "words" /\ LastWord
  /\ seqs' = Append(seqs, [val |-> (wseq + 2) % SeqModulus, sees |-> Latest])
  /\ wpc' = "idle"
  /\ UNCHANGED <<words, wseq, widx, fence, publishes, deaths, reader>>

\* The writing process dies inside publish(); the mapping keeps its stores and
\* a successor publishes into the same slot.
WriterDies ==
  /\ wpc = "words" /\ deaths < MaxDeaths
  /\ deaths' = deaths + 1
  /\ wpc' = "idle"
  /\ UNCHANGED <<shared, wseq, widx, fence, publishes, reader>>

\* The writing stage ends: fast_done (or window_done) is stored with release.
WriterDone ==
  /\ wpc = "idle"
  /\ wpc' = "done"
  /\ UNCHANGED <<shared, wseq, widx, fence, publishes, deaths, reader>>

------------------------------------------------------------------------------
(* load() *)

\* The next stage acquires the done flag before its last load().
AcquireDone ==
  /\ rpc = "idle" /\ wpc = "done" /\ ~ final
  /\ final' = TRUE
  /\ vseq' = Len(seqs) /\ vword' = Latest
  /\ result' = "none"
  /\ UNCHANGED <<shared, writer, rpc, attempt, begin, end, ridx, copy, aseq, out>>

LoadStart ==
  /\ rpc = "idle"
  /\ rpc' = "begin" /\ attempt' = 1 /\ result' = "none"
  /\ UNCHANGED <<shared, writer, begin, end, ridx, copy, vseq, vword, aseq, out, final>>

\* Mutant: a failed try is not counted.
RetryUncounted == rpc' = "begin" /\ UNCHANGED <<attempt, result>>

\* Mutant: one try too many.
RetryOnceMore ==
  IF attempt <= kAttempts
  THEN rpc' = "begin" /\ attempt' = attempt + 1 /\ UNCHANGED result
  ELSE rpc' = "idle" /\ result' = "false" /\ UNCHANGED attempt

\* The next try, or false after the last one; out is not written.
Retry ==
  IF attempt < kAttempts
  THEN rpc' = "begin" /\ attempt' = attempt + 1 /\ UNCHANGED result
  ELSE rpc' = "idle" /\ result' = "false" /\ UNCHANGED attempt

BeginEven(s) == s % 2 = 0

\* What an acquire load of the k-th store to seq_ teaches about the words.
Learn(k) ==
  [w \in Words |-> IF seqs[k].sees[w] > vword[w] THEN seqs[k].sees[w] ELSE vword[w]]

\* begin = seq_.load(acquire); an odd value is retried.
LoadBegin ==
  /\ rpc = "begin"
  /\ \E k \in vseq .. Len(seqs) :
       /\ begin' = k /\ vseq' = k /\ vword' = Learn(k)
       /\ IF BeginEven(seqs[k].val)
          THEN rpc' = "words" /\ ridx' = 0 /\ aseq' = k /\ UNCHANGED <<attempt, result>>
          ELSE Retry /\ UNCHANGED <<ridx, aseq>>
  /\ UNCHANGED <<shared, writer, end, copy, out, final>>

\* raw.words[i] = words_[i].load(relaxed)
LoadWord ==
  /\ rpc = "words" /\ ridx < kWords
  /\ \E k \in vword[ridx] .. Len(words[ridx]) :
       LET m == words[ridx][k] IN
       /\ copy' = [copy EXCEPT ![ridx] = m.val]
       /\ vword' = [vword EXCEPT ![ridx] = k]
       /\ aseq' = IF m.sees > aseq THEN m.sees ELSE aseq
  /\ ridx' = ridx + 1
  /\ UNCHANGED <<shared, writer, rpc, attempt, begin, end, vseq, result, out, final>>

\* Acquire fence, end = seq_.load(relaxed), and the comparison.
LoadEnd ==
  /\ rpc = "words" /\ ridx = kWords
  /\ \E k \in aseq .. Len(seqs) :
       /\ end' = k /\ vseq' = k
       /\ IF seqs[k].val = seqs[begin].val
          THEN rpc' = "idle" /\ result' = "true" /\ out' = copy /\ UNCHANGED attempt
          ELSE Retry /\ UNCHANGED out
  /\ UNCHANGED <<shared, writer, begin, ridx, copy, vword, aseq, final>>

Load == LoadBegin \/ LoadWord \/ LoadEnd

Next ==
  \/ PublishOdd \/ PublishWord \/ PublishEven \/ WriterDies \/ WriterDone
  \/ AcquireDone \/ LoadStart \/ Load

\* A thread inside load() is scheduled; the writer may stop anywhere.
Spec == Init /\ [][Next]_vars /\ WF_vars(Load)

------------------------------------------------------------------------------
(* Properties *)

Message(carried) == [val : Nat, sees : carried]

TypeOK ==
  /\ seqs \in Seq(Message([Words -> Nat])) /\ Len(seqs) > 0
  /\ words \in [Words -> Seq(Message(Nat))]
  /\ \A w \in Words : Len(words[w]) > 0
  /\ wpc \in {"idle", "words", "done"}
  /\ wseq \in Nat /\ widx \in 0 .. kWords /\ fence \in 1 .. Len(seqs)
  /\ publishes \in 0 .. MaxPublish /\ deaths \in 0 .. MaxDeaths
  /\ rpc \in {"idle", "begin", "words"}
  /\ attempt \in 0 .. kAttempts /\ ridx \in 0 .. kWords
  /\ begin \in 1 .. Len(seqs) /\ end \in 1 .. Len(seqs)
  /\ copy \in [Words -> Nat] /\ out \in [Words -> Nat]
  /\ vseq \in 1 .. Len(seqs) /\ aseq \in 1 .. Len(seqs)
  /\ vword \in [Words -> Nat] /\ \A w \in Words : vword[w] \in 1 .. Len(words[w])
  /\ result \in {"none", "true", "false"}
  /\ final \in BOOLEAN

\* The copy returned belongs to one publish.
WholeCopy == \E n \in 0 .. publishes : out = [w \in Words |-> n]

\* The two sequence loads met equal values a whole turn of the counter apart:
\* the overrun that seqlock.hpp:15-18 accepts.
CounterWrapped == end - begin >= SeqModulus

\* load() never returns a mix of two publishes, whatever stale or reordered
\* values the memory gives it, as long as no writer has died inside publish().
NoTornCopy == deaths = 0 /\ result = "true" => WholeCopy \/ CounterWrapped

\* The header's contract as it stands, for a slot in the shared mapping that
\* outlives its writer (seqlock.hpp:6-8).
NeverMixed == result = "true" => WholeCopy \/ CounterWrapped

\* The last load of a stage, after it has acquired the done flag of the stage
\* before it, cannot fail and returns the last publish: this is what makes the
\* final publish_windows and the snapshot complete (compute.cpp:142, :155-160).
FinalLoad ==
  deaths = 0 /\ final /\ result # "none" =>
    result = "true" /\ out = [w \in Words |-> publishes]

\* load() returns, even when the writer is stuck between its two stores.
LoadReturns == rpc # "idle" ~> rpc = "idle"
==============================================================================
