------------------------------ MODULE JobsProofs ------------------------------
(***************************************************************************)
(* What Jobs does for any number of threads, memories, texts and jobs, and   *)
(* any models and labels: types, vectors that fit their texts, and a queue   *)
(* whose every step is one that WorkQueue allows.                           *)
(***************************************************************************)
EXTENDS Jobs, FiniteSetTheorems, SequenceTheorems, WellFoundedInduction, TLAPS

-----------------------------------------------------------------------------
(* Minima and subsequences                                                  *)

\* A set of numbers that has a member has a least one. (A number n is taken for
\* the set 0..n: finite sets have no endless chain of smaller ones.)
LEMMA LeastNatural ==
  ASSUME NEW T \in SUBSET Nat, NEW t \in T
  PROVE  \E n \in T : \A m \in T : n <= m
<1> DEFINE F == {0..n : n \in {m \in T : m <= t}}
<1>1. IsFiniteSet(0..t)
  BY FS_Interval
<1>2. F \subseteq FiniteSubsetsOf(0..t) /\ F # {}
  <2>1. \A U \in F : U \subseteq 0..t
    OBVIOUS
  <2>2. \A U \in F : IsFiniteSet(U)
    BY <1>1, <2>1, FS_Subset
  <2>3. 0..t \in F
    OBVIOUS
  <2> QED BY <2>1, <2>2, <2>3 DEF FiniteSubsetsOf
<1>3. \E U \in F : \A V \in F : <<V, U>> \notin StrictSubsetOrdering(0..t)
  <2> HIDE DEF F
  <2> QED BY <1>2, FS_StrictSubsetOrderingWellFounded, WFMin
<1>4. PICK n \in T : n <= t /\ \A V \in F : <<V, 0..n>> \notin StrictSubsetOrdering(0..t)
  BY <1>3
<1>5. ASSUME NEW m \in T, m < n PROVE FALSE
  <2>1. 0..m \in F /\ 0..m \subseteq 0..n /\ 0..n \subseteq 0..t
    BY <1>4, <1>5
  <2>2. n \in 0..n /\ n \notin 0..m
    BY <1>5
  <2> QED BY <1>4, <2>1, <2>2 DEF StrictSubsetOrdering
<1> QED BY <1>4, <1>5

\* The k-th of at least k positions is one of them.
LEMMA PositionType ==
  ASSUME NEW n \in Nat, NEW S, \A i \in S : i \in Nat /\ 1 <= i /\ i <= n,
         NEW k \in Nat, 1 <= k, k <= Cardinality(S)
  PROVE  Position(S, k) \in S
<1> DEFINE Count(i) == Cardinality({j \in S : j <= i})
           Late == {i \in S : Count(i) >= k}
<1>1. S # {}
  BY FS_EmptySet
<1>2. \E m \in S : \A i \in S : i <= m
  <2>1. \A i \in S : n - i \in Nat
    OBVIOUS
  <2>2. \E d \in {n - i : i \in S} : \A e \in {n - i : i \in S} : d <= e
    BY <1>1, <2>1, LeastNatural
  <2>3. \E m \in S : \A i \in S : n - m <= n - i
    BY <2>2
  <2> QED BY <2>3
<1>3. PICK m \in S : \A i \in S : i <= m
  BY <1>2
<1>4. {j \in S : j <= m} = S
  BY <1>3
<1>5. m \in Late
  BY <1>3, <1>4
<1>6. Late \in SUBSET Nat /\ Late \subseteq S
  OBVIOUS
<1>7. \E i \in Late : \A j \in Late : i <= j
  <2> HIDE DEF Late
  <2> QED BY <1>5, <1>6, LeastNatural
<1>8. Min(Late) \in Late
  <2> HIDE DEF Late
  <2> QED BY <1>7 DEF Min
<1> QED BY <1>6, <1>8 DEF Position

\* What is left of a sequence when some of its elements are taken out, as
\* get_many() leaves the texts that are not cached, is a sequence of its elements.
LEMMA SubsequenceType ==
  ASSUME NEW S, NEW seq \in Seq(S), NEW positions \in SUBSET DOMAIN seq
  PROVE  /\ At(seq, positions) \in Seq(S)
         /\ \A k \in DOMAIN At(seq, positions) : \E i \in positions : At(seq, positions)[k] = seq[i]
<1>1. Len(seq) \in Nat /\ DOMAIN seq = 1..Len(seq)
  OBVIOUS
<1>2. Cardinality(positions) \in Nat
  <2>1. IsFiniteSet(1..Len(seq)) /\ positions \in SUBSET (1..Len(seq))
    BY <1>1, FS_Interval
  <2> QED BY <2>1, FS_Subset, FS_CardinalityType
<1>3. \A k \in 1..Cardinality(positions) : Position(positions, k) \in positions
  BY <1>1, <1>2, PositionType
<1>4. At(seq, positions) \in [1..Cardinality(positions) -> S]
  BY <1>1, <1>3 DEF At
<1>5. \A k \in 1..Cardinality(positions) : At(seq, positions)[k] = seq[Position(positions, k)]
  BY DEF At
<1> QED BY <1>2, <1>3, <1>4, <1>5

\* The smaller of two numbers.
LEMMA MinOfTwo ==
  ASSUME NEW a \in Nat, NEW b \in Nat
  PROVE  Min({a, b}) = IF a <= b THEN a ELSE b
<1>1. \E x \in {a, b} : \A y \in {a, b} : x <= y
  OBVIOUS
<1> QED BY <1>1 DEF Min

\* A sequence without repetitions keeps that when a new element comes, ...
LEMMA AppendNew ==
  ASSUME NEW S, NEW s \in Seq(S), IsInjective(s), NEW x \in S, x \notin Range(s)
  PROVE  IsInjective(Append(s, x)) /\ Range(Append(s, x)) = Range(s) \cup {x}
<1> DEFINE longer == Append(s, x)
<1>1. /\ Len(s) \in Nat /\ DOMAIN s = 1..Len(s) /\ DOMAIN longer = 1..(Len(s) + 1)
      /\ \A i \in 1..Len(s) : longer[i] = s[i]
      /\ longer[Len(s) + 1] = x
  OBVIOUS
<1> HIDE DEF longer
<1>2. \A i \in 1..Len(s) : s[i] # x
  BY <1>1 DEF Range
<1>3. IsInjective(longer)
  BY <1>1, <1>2 DEF IsInjective
<1>4. \A z : z \in Range(longer) <=> z \in Range(s) \/ z = x
  BY <1>1 DEF Range
<1>5. Range(longer) = Range(s) \cup {x}
  BY <1>4
<1> QED BY <1>3, <1>5 DEF longer

\* ... when its first element is taken, ...
LEMMA TailNew ==
  ASSUME NEW S, NEW s \in Seq(S), IsInjective(s), s # <<>>
  PROVE  /\ IsInjective(Tail(s))
         /\ Head(s) \in Range(s) /\ Head(s) \notin Range(Tail(s)) /\ Range(Tail(s)) \subseteq Range(s)
<1>1. /\ Len(s) \in Nat /\ Len(s) >= 1 /\ DOMAIN s = 1..Len(s) /\ DOMAIN Tail(s) = 1..(Len(s) - 1)
      /\ \A i \in 1..(Len(s) - 1) : Tail(s)[i] = s[i + 1]
      /\ Head(s) = s[1]
  OBVIOUS
<1> QED BY <1>1 DEF IsInjective, Range

\* ... and when only its end is kept.
LEMMA SuffixNew ==
  ASSUME NEW S, NEW s \in Seq(S), IsInjective(s), NEW m \in Nat, 1 <= m, m <= Len(s) + 1
  PROVE  LET end == SubSeq(s, m, Len(s))
         IN  IsInjective(end) /\ Range(end) \subseteq Range(s) /\ Len(end) = Len(s) - m + 1
<1> DEFINE end == SubSeq(s, m, Len(s))
<1>1. Len(s) \in Nat /\ DOMAIN s = 1..Len(s) /\ \A i \in m..Len(s) : s[i] \in S
  OBVIOUS
<1>2. /\ end \in Seq(S) /\ Len(end) = IF m <= Len(s) THEN Len(s) - m + 1 ELSE 0
      /\ \A i \in 1..(Len(s) - m + 1) : end[i] = s[m + i - 1]
  BY <1>1, SubSeqProperties
<1>3. Len(end) = Len(s) - m + 1 /\ DOMAIN end = 1..(Len(s) - m + 1)
  BY <1>1, <1>2
<1> HIDE DEF end
<1>4. \A i \in DOMAIN end : m + i - 1 \in DOMAIN s /\ end[i] = s[m + i - 1]
  BY <1>1, <1>2, <1>3
<1>5. IsInjective(end)
  BY <1>1, <1>3, <1>4 DEF IsInjective
<1>6. Range(end) \subseteq Range(s)
  BY <1>4 DEF Range
<1> QED BY <1>3, <1>5, <1>6 DEF end

-----------------------------------------------------------------------------
(* The inductive invariant                                                  *)

\* The calls that have embeddings yet to do, and those that do not.
Searching ==
    [phase : {"lookup", "embed", "index"}, job : Job, cards : Seq(Memory \X Text), texts : Seq(Text),
     missing : Seq(Text), sent : Nat, got : Seq(Provider \X Text), errs : SUBSET {"short", "long"},
     hits : SUBSET (Text \X (Provider \X Text))]
Closing == [phase : {"graph", "put"}, job : Job]
Working == [job : Job, at : {"taken", "running", "completed", "failed"}]

\* The types that TypeOK leaves out, because no property needs them.
ShapeInv ==
    /\ provider \in Provider
    /\ asked \in 0..MaxCalls
    /\ call \in [Caller -> {Idle} \cup Searching \cup Closing]
    /\ queue \in Seq(Job) /\ recent \in Seq(Job)
    /\ worker = None \/ worker \in Working

\* A call has a number that no other call has, and that nothing has heard of
\* before its job is submitted, nor the queue before the job is put.
NumberInv ==
    /\ submitted \cup Range(recent) \subseteq 1..asked
    /\ \A j \in Job : j > asked => status[j] = "absent"
    /\ \A c \in Caller : call[c].phase # "idle" =>
        /\ call[c].job \in 1..asked /\ call[c].job \notin submitted
        /\ \A d \in Caller : d # c /\ call[d].phase # "idle" => call[d].job # call[c].job
        /\ call[c].phase = "put" => status[call[c].job] = "queued"
        /\ call[c].phase # "put" => status[call[c].job] = "absent" /\ call[c].job \notin Range(recent)

\* A job is in one place at a time, and its status says where.
PlaceInv ==
    /\ IsInjective(queue)
    /\ \A i \in DOMAIN queue : queue[i] \in submitted /\ status[queue[i]] = "queued"
    /\ worker # None =>
        /\ worker.job \in submitted
        /\ worker.job \notin Range(queue)
        /\ status[worker.job] = IF worker.at = "taken" THEN "queued" ELSE "running"

\* What a call has listed of a memory was its card once.
CardInv ==
    /\ \A m \in Memory : text[m] \in past[m]
    /\ \A c \in Caller : call[c].phase \in {"lookup", "embed", "index"} =>
        \A k \in Range(call[c].cards) : k[2] \in past[k[1]]

\* The vectors of a batch sequence are of the model in use; they are as many as the
\* texts sent only if no batch was wrong or some were short and others long, and
\* in the first case none of them is out of place.
Aligned(k) ==
    /\ \A i \in DOMAIN k.got : k.got[i][1] = provider
    /\ k.sent <= Len(k.missing)
    /\ k.errs = {} => /\ Len(k.got) = k.sent
                      /\ \A i \in 1..k.sent : k.got[i][2] = k.missing[i]
    /\ k.errs = {"short"} => Len(k.got) < k.sent
    /\ k.errs = {"long"} => Len(k.got) > k.sent

\* What an embedding under way has, it has for the right text.
EmbedInv ==
    \A c \in Caller : call[c].phase = "embed" =>
        (\A h \in call[c].hits : Fits(h[2], provider, h[1])) /\ Aligned(call[c])

-----------------------------------------------------------------------------
(* Types                                                                    *)

\* What TypeOK says of one variable at a time.
TableTypes ==
    /\ cache \in [Keys -> (Provider \X Text) \cup {None}]
    /\ index \in [Memory -> (Provider \X Text) \cup {None}]
    /\ text \in [Memory -> Text] /\ past \in [Memory -> SUBSET Text] /\ crossed \subseteq Text
    /\ graph \subseteq Job /\ submitted \subseteq Job
    /\ status \in [Job -> {"absent", "queued", "running", "completed", "failed"}]

\* The call of c that its phase says.
LEMMA PhaseShape ==
  ASSUME ShapeInv, NEW c \in Caller
  PROVE  /\ call[c].phase \in {"lookup", "embed", "index"} => call[c] \in Searching
         /\ call[c].phase \in {"graph", "put"} => call[c] \in Closing
         /\ call[c].phase = "idle" => call[c] = Idle
         /\ call[c].phase \in {"idle", "lookup", "embed", "index", "graph", "put"}
<1>1. call[c] \in {Idle} \cup Searching \cup Closing
  BY DEF ShapeInv
<1>2. CASE call[c] = Idle
  BY <1>2 DEF Idle
<1>3. CASE call[c] \in Searching
  BY <1>3 DEF Searching, Idle
<1>4. CASE call[c] \in Closing
  BY <1>4 DEF Closing, Idle
<1> QED BY <1>1, <1>2, <1>3, <1>4

\* The listed cards are pairs of memories and texts, each the card of its memory now.
LEMMA CardsType ==
  ASSUME TableTypes, NEW listed \in Listing
  PROVE  /\ Cards(listed) \in Seq(Memory \X Text)
         /\ \A k \in Range(Cards(listed)) : k[1] \in Memory /\ k[2] = text[k[1]]
<1>1. /\ listed \in Seq(Memory) /\ Len(listed) \in Nat /\ DOMAIN listed = 1..Len(listed)
      /\ \A i \in 1..Len(listed) : listed[i] \in Memory
  BY RoundAssumption
<1>2. Cards(listed) \in [1..Len(listed) -> Memory \X Text]
  BY <1>1 DEF Cards, TableTypes
<1>3. Cards(listed) \in Seq(Memory \X Text)
  BY <1>1, <1>2
<1>4. \A i \in DOMAIN Cards(listed) : Cards(listed)[i] = <<listed[i], text[listed[i]]>> /\ listed[i] \in Memory
  BY <1>1 DEF Cards
<1> QED BY <1>3, <1>4 DEF Range

\* What a call embeds is a list of texts.
LEMMA WantedType ==
  ASSUME NEW c \in Caller, call[c] \in Searching
  PROVE  Wanted(c) \in Seq(Text)
<1>1. call[c].cards \in Seq(Memory \X Text) /\ call[c].texts \in Seq(Text)
  BY DEF Searching
<1> DEFINE cards == call[c].cards
<1>2. [i \in DOMAIN cards |-> cards[i][2]] \in Seq(Text)
  <2>1. Len(cards) \in Nat /\ DOMAIN cards = 1..Len(cards) /\ \A i \in 1..Len(cards) : cards[i][2] \in Text
    BY <1>1
  <2>2. [i \in DOMAIN cards |-> cards[i][2]] \in [1..Len(cards) -> Text]
    BY <2>1
  <2> HIDE DEF cards
  <2> QED BY <2>1, <2>2
<1> QED BY <1>1, <1>2 DEF Wanted

\* A batch that a call sends, and what the model may give for it.
LEMMA BatchGiven ==
  ASSUME TableTypes, ShapeInv, NEW c \in Caller, call[c] \in Searching, call[c].sent < Len(call[c].missing)
  PROVE  LET last == Min({call[c].sent + MaxBatch, Len(call[c].missing)})
             batch == [i \in 1..(last - call[c].sent) |-> Vector(provider, call[c].missing[call[c].sent + i])]
         IN  /\ last \in Nat /\ call[c].sent < last /\ last <= Len(call[c].missing)
             /\ \A given \in Given(batch) :
                  /\ given[1] \in Seq(Provider \X Text)
                  /\ \A i \in DOMAIN given[1] : given[1][i][1] = provider
                  /\ \/ given[2] = {} /\ Len(given[1]) = last - call[c].sent
                        /\ \A i \in 1..(last - call[c].sent) : given[1][i] = Vector(provider, call[c].missing[call[c].sent + i])
                     \/ given[2] = {"short"} /\ Len(given[1]) = last - call[c].sent - 1
                     \/ given[2] = {"long"} /\ Len(given[1]) = last - call[c].sent + 1
<1> DEFINE sent == call[c].sent
           missing == call[c].missing
           last == Min({sent + MaxBatch, Len(missing)})
           n == last - sent
           batch == [i \in 1..n |-> Vector(provider, missing[sent + i])]
<1>1. /\ sent \in Nat /\ MaxBatch \in Nat /\ MaxBatch > 0 /\ missing \in Seq(Text)
      /\ Len(missing) \in Nat /\ sent < Len(missing)
  BY BoundAssumption DEF Searching
<1>2. last \in Nat /\ sent < last /\ last <= Len(missing)
  <2>1. sent + MaxBatch \in Nat
    BY <1>1
  <2>2. last = IF sent + MaxBatch <= Len(missing) THEN sent + MaxBatch ELSE Len(missing)
    BY <1>1, <2>1, MinOfTwo
  <2> QED BY <1>1, <2>1, <2>2
<1> HIDE DEF last
<1>3. n \in Nat /\ n >= 1 /\ \A i \in 1..n : missing[sent + i] \in Text
  BY <1>1, <1>2
<1> HIDE DEF n
<1> DEFINE V == {provider} \X Text
<1>4. batch \in [1..n -> V] /\ \A i \in 1..n : batch[i] = Vector(provider, missing[sent + i])
  BY <1>3 DEF Vector
<1> HIDE DEF batch, V
<1>5. batch \in Seq(V) /\ Len(batch) = n
  BY <1>3, <1>4
<1>6. Front(batch) \in Seq(V) /\ Len(Front(batch)) = n - 1
  BY <1>3, <1>5 DEF Front
<1>7. Append(batch, Last(batch)) \in Seq(V) /\ Len(Append(batch, Last(batch))) = n + 1
  <2>1. Last(batch) \in V
    BY <1>3, <1>5 DEF Last
  <2> QED BY <1>5, <2>1, AppendProperties
<1>8. \A s \in Seq(V) : s \in Seq(Provider \X Text) /\ \A i \in DOMAIN s : s[i][1] = provider
  <2> TAKE s \in Seq(V)
  <2>1. \A v \in V : v \in Provider \X Text /\ v[1] = provider
    BY DEF V, ShapeInv
  <2>2. Len(s) \in Nat /\ DOMAIN s = 1..Len(s) /\ \A i \in 1..Len(s) : s[i] \in V
    OBVIOUS
  <2>3. s \in [1..Len(s) -> Provider \X Text]
    BY <2>1, <2>2
  <2> QED BY <2>1, <2>2, <2>3
<1>9. ASSUME NEW given \in Given(batch)
      PROVE  /\ given[1] \in Seq(Provider \X Text)
             /\ \A i \in DOMAIN given[1] : given[1][i][1] = provider
             /\ \/ given[2] = {} /\ Len(given[1]) = n
                   /\ \A i \in 1..n : given[1][i] = Vector(provider, missing[sent + i])
                \/ given[2] = {"short"} /\ Len(given[1]) = n - 1
                \/ given[2] = {"long"} /\ Len(given[1]) = n + 1
  <2>1. CASE given = <<batch, {}>>
    BY <1>4, <1>5, <1>8, <2>1
  <2>2. CASE given = <<Front(batch), {"short"}>>
    BY <1>6, <1>8, <2>2
  <2>3. CASE given = <<Append(batch, Last(batch)), {"long"}>>
    BY <1>7, <1>8, <2>3
  <2> QED BY <1>9, <2>1, <2>2, <2>3 DEF Given
<1>10. n = last - sent
  BY DEF n
<1> QED BY <1>2, <1>9, <1>10 DEF last, batch, n

\* Every variable keeps its type.
LEMMA ShapeNext == ShapeInv /\ TableTypes /\ [Next]_vars => ShapeInv' /\ TableTypes'
<1> SUFFICES ASSUME ShapeInv, TableTypes, [Next]_vars PROVE ShapeInv' /\ TableTypes'
  OBVIOUS
<1> DEFINE Goal == ShapeInv' /\ TableTypes'
<1> USE DEF callVars, jobVars, runVars, cardVars
<1>1. ASSUME NEW c \in Caller, NEW k \in {Idle} \cup Searching \cup Closing,
             call' = [call EXCEPT ![c] = k],
             UNCHANGED <<cache, index, graph, crossed, text, past, status, submitted, recent, queue, worker, provider, asked>>
      PROVE  Goal
  BY <1>1 DEF ShapeInv, TableTypes
<1>2. ASSUME NEW c \in Caller, Refuse(c) PROVE Goal
  BY <1>2, BoundAssumption DEF Refuse, ShapeInv, TableTypes
<1>3. ASSUME NEW c \in Caller, Ask(c) PROVE Goal
  <2>1. asked' \in 0..MaxCalls /\ asked + 1 \in Job
    BY <1>3, BoundAssumption DEF Ask, ShapeInv, Job
  <2>2. PICK listed \in Listing, texts \in Round :
          call' = [call EXCEPT ![c] = [phase |-> "lookup", job |-> asked + 1, cards |-> Cards(listed), texts |-> texts,
                                       missing |-> <<>>, sent |-> 0, got |-> <<>>, errs |-> {}, hits |-> {}]]
    BY <1>3 DEF Ask
  <2> DEFINE cards == Cards(listed)
  <2>a. cards \in Seq(Memory \X Text)
    BY CardsType
  <2>b. texts \in Seq(Text) /\ <<>> \in Seq(Text) /\ <<>> \in Seq(Provider \X Text)
    BY RoundAssumption
  <2> HIDE DEF cards
  <2>3. [phase |-> "lookup", job |-> asked + 1, cards |-> cards, texts |-> texts,
         missing |-> <<>>, sent |-> 0, got |-> <<>>, errs |-> {}, hits |-> {}] \in Searching
    BY <2>1, <2>a, <2>b DEF Searching
  <2>4. call' \in [Caller -> {Idle} \cup Searching \cup Closing]
    BY <2>2, <2>3 DEF ShapeInv, cards
  <2> QED BY <1>3, <2>1, <2>4 DEF Ask, ShapeInv, TableTypes
<1>4. ASSUME NEW c \in Caller, Lookup(c) PROVE Goal
  <2>1. call[c] \in Searching /\ Wanted(c) \in Seq(Text)
    BY <1>4, PhaseShape, WantedType DEF Lookup
  <2>2. PICK found \in {{t \in Range(Wanted(c)) : Cached(t) # None}, {}} :
          call' = [call EXCEPT ![c] = [call[c] EXCEPT !.phase = "embed", !.sent = 0, !.got = <<>>, !.errs = {},
                     !.hits = {<<t, Cached(t)>> : t \in found},
                     !.missing = At(Wanted(c), {i \in DOMAIN Wanted(c) : Wanted(c)[i] \notin found})]]
    BY <1>4 DEF Lookup
  <2>3. At(Wanted(c), {i \in DOMAIN Wanted(c) : Wanted(c)[i] \notin found}) \in Seq(Text)
    BY <2>1, SubsequenceType
  <2>4. {<<t, Cached(t)>> : t \in found} \in SUBSET (Text \X (Provider \X Text))
    <3>1. \A t \in Range(Wanted(c)) : t \in Text
      BY <2>1 DEF Range
    <3>2. \A t \in Text : Key(provider, t) \in Keys
      BY DEF Key, Keys, ShapeInv
    <3>3. \A t \in found : t \in Text /\ Cached(t) \in Provider \X Text
      BY <2>2, <3>1, <3>2 DEF Cached, TableTypes
    <3> QED BY <3>3
  <2> DEFINE hits == {<<t, Cached(t)>> : t \in found}
             missing == At(Wanted(c), {i \in DOMAIN Wanted(c) : Wanted(c)[i] \notin found})
             k == [call[c] EXCEPT !.phase = "embed", !.sent = 0, !.got = <<>>, !.errs = {}, !.hits = hits, !.missing = missing]
  <2>5. k \in Searching
    <3> HIDE DEF hits, missing
    <3>1. hits \in SUBSET (Text \X (Provider \X Text)) /\ missing \in Seq(Text)
      BY <2>3, <2>4 DEF hits, missing
    <3>2. <<>> \in Seq(Provider \X Text)
      OBVIOUS
    <3> QED BY <2>1, <3>1, <3>2 DEF Searching
  <2> QED BY <1>1, <1>4, <2>2, <2>5 DEF Lookup
<1>5. ASSUME NEW c \in Caller, Embed(c) PROVE Goal
  <2>1. call[c] \in Searching
    BY <1>5, PhaseShape DEF Embed
  <2>2. CASE Raise(c)
    BY <1>1, <2>2 DEF Raise
  <2>3. CASE ~Raise(c)
    <3> DEFINE last == Min({call[c].sent + MaxBatch, Len(call[c].missing)})
               batch == [i \in 1..(last - call[c].sent) |-> Vector(provider, call[c].missing[call[c].sent + i])]
    <3>1. PICK given \in Given(batch) :
            call' = [call EXCEPT ![c] = [call[c] EXCEPT !.sent = last, !.got = @ \o given[1], !.errs = @ \cup given[2]]]
      BY <1>5, <2>3 DEF Embed
    <3>2. last \in Nat /\ given[1] \in Seq(Provider \X Text) /\ given[2] \in SUBSET {"short", "long"}
      <4>1. call[c].sent < Len(call[c].missing)
        BY <1>5 DEF Embed
      <4> HIDE DEF last, batch
      <4>2. LET l == Min({call[c].sent + MaxBatch, Len(call[c].missing)})
                b == [i \in 1..(l - call[c].sent) |-> Vector(provider, call[c].missing[call[c].sent + i])]
            IN  l = last /\ b = batch
        BY DEF last, batch
      <4>3. last \in Nat /\ \A g \in Given(batch) :
              g[1] \in Seq(Provider \X Text) /\ (g[2] = {} \/ g[2] = {"short"} \/ g[2] = {"long"})
        BY <2>1, <4>1, <4>2, BatchGiven
      <4> QED BY <3>1, <4>3
    <3>5. [call[c] EXCEPT !.sent = last, !.got = @ \o given[1], !.errs = @ \cup given[2]] \in Searching
      <4> HIDE DEF last, batch
      <4>1. call[c].got \o given[1] \in Seq(Provider \X Text)
        BY <2>1, <3>2 DEF Searching
      <4>2. call[c].errs \cup given[2] \in SUBSET {"short", "long"}
        BY <2>1, <3>2 DEF Searching
      <4> QED BY <2>1, <3>2, <4>1, <4>2 DEF Searching
    <3> QED BY <1>1, <1>5, <2>3, <3>1, <3>5 DEF Embed
  <2> QED BY <2>2, <2>3
<1>6. ASSUME NEW c \in Caller, Mismatch(c) PROVE Goal
  BY <1>1, <1>6 DEF Mismatch, Raise
<1>7. ASSUME NEW c \in Caller, Store(c) PROVE Goal
  <2>1. call[c] \in Searching
    BY <1>7, PhaseShape DEF Store
  <2>2. Pairs(c) \in SUBSET (Text \X (Provider \X Text))
    <3>1. Min({Len(call[c].missing), Len(call[c].got)}) \in Nat
          /\ Min({Len(call[c].missing), Len(call[c].got)}) <= Len(call[c].missing)
          /\ Min({Len(call[c].missing), Len(call[c].got)}) <= Len(call[c].got)
      <4>1. Len(call[c].missing) \in Nat /\ Len(call[c].got) \in Nat
        BY <2>1 DEF Searching
      <4>2. Min({Len(call[c].missing), Len(call[c].got)}) =
              IF Len(call[c].missing) <= Len(call[c].got) THEN Len(call[c].missing) ELSE Len(call[c].got)
        BY <4>1, MinOfTwo
      <4> QED BY <4>1, <4>2
    <3> QED BY <2>1, <3>1 DEF Pairs, Searching
  <2>3. cache' \in [Keys -> (Provider \X Text) \cup {None}]
    <3>1. PICK kept \in {Pairs(c), {}} :
            cache' = [k \in Keys |-> IF \E p \in kept : Key(provider, p[1]) = k
                                     THEN (CHOOSE p \in kept : Key(provider, p[1]) = k)[2] ELSE cache[k]]
      BY <1>7 DEF Store
    <3>2. \A p \in kept : p[2] \in Provider \X Text
      BY <2>2
    <3>3. ASSUME NEW k \in Keys, \E p \in kept : Key(provider, p[1]) = k
          PROVE  (CHOOSE p \in kept : Key(provider, p[1]) = k)[2] \in Provider \X Text
      BY <3>2, <3>3
    <3>4. \A k \in Keys : cache'[k] \in (Provider \X Text) \cup {None}
      BY <3>1, <3>3 DEF TableTypes
    <3> QED BY <3>1, <3>4
  <2>4. [call[c] EXCEPT !.phase = "index", !.hits = @ \cup Pairs(c)] \in Searching
    BY <2>1, <2>2 DEF Searching
  <2>5. call' \in [Caller -> {Idle} \cup Searching \cup Closing]
    BY <1>7, <2>4 DEF Store, ShapeInv
  <2>6. crossed' \subseteq Text
    <3>1. \A t \in Range(call[c].missing) : t \in Text
      BY <2>1 DEF Searching, Range
    <3> QED BY <1>7, <3>1 DEF Store, TableTypes
  <2> QED BY <1>7, <2>3, <2>5, <2>6 DEF Store, ShapeInv, TableTypes
<1>8. ASSUME NEW c \in Caller, Use(c) PROVE Goal
  <2>1. call[c] \in Searching
    BY <1>8, PhaseShape DEF Use
  <2>2. index' \in [Memory -> (Provider \X Text) \cup {None}]
    <3>1. \A h \in call[c].hits : h[2] \in Provider \X Text
      BY <2>1 DEF Searching
    <3>2. ASSUME NEW m \in Memory, VectorsOf(c, m) # {}
          PROVE  (CHOOSE v \in VectorsOf(c, m) : TRUE) \in Provider \X Text
      BY <3>1, <3>2 DEF VectorsOf
    <3> QED BY <1>8, <3>2 DEF Use, TableTypes
  <2>3. /\ [call[c] EXCEPT !.phase = "lookup", !.cards = <<>>] \in Searching
        /\ [phase |-> "graph", job |-> call[c].job] \in Closing
    <3>1. <<>> \in Seq(Memory \X Text)
      OBVIOUS
    <3> QED BY <2>1, <3>1 DEF Searching, Closing
  <2>4. call' \in [Caller -> {Idle} \cup Searching \cup Closing]
    BY <1>8, <2>3 DEF Use, ShapeInv
  <2> QED BY <1>8, <2>2, <2>4 DEF Use, ShapeInv, TableTypes
<1>9. ASSUME NEW c \in Caller, NoGraph(c) PROVE Goal
  BY <1>1, <1>9 DEF NoGraph
<1>10. ASSUME NEW c \in Caller, CommitGraph(c) PROVE Goal
  <2>1. call[c].job \in Job
    BY <1>10, PhaseShape DEF CommitGraph, Closing
  <2> QED BY <1>10, <2>1 DEF CommitGraph, ShapeInv, TableTypes
<1>11. ASSUME NEW c \in Caller, Submit(c) PROVE Goal
  <2>1. call[c] \in Closing
    BY <1>11, PhaseShape DEF Submit
  <2>2. recent' \in Seq(Job)
    <3> DEFINE all == Append(recent, call[c].job)
    <3>1. all \in Seq(Job)
      BY <2>1 DEF ShapeInv, Closing
    <3>2. Min({Len(all), Recent}) \in Nat /\ Min({Len(all), Recent}) <= Len(all)
      BY <3>1, MinOfTwo, BoundAssumption
    <3>3. recent' = SubSeq(all, Len(all) - Min({Len(all), Recent}) + 1, Len(all))
      BY <1>11 DEF Submit
    <3> DEFINE from == Len(all) - Min({Len(all), Recent}) + 1
    <3>4. from \in Nat /\ from >= 1 /\ Len(all) \in Nat
      BY <3>1, <3>2
    <3>5. \A i \in from..Len(all) : all[i] \in Job
      BY <3>1, <3>4
    <3>6. from \in Int /\ Len(all) \in Int
      BY <3>4
    <3>7. recent' = SubSeq(all, from, Len(all))
      BY <3>3
    <3> HIDE DEF all, from
    <3> QED BY <3>5, <3>6, <3>7, SubSeqProperties
  <2>3. [call[c] EXCEPT !.phase = "put"] \in Closing
    BY <2>1 DEF Closing
  <2> QED BY <1>11, <2>1, <2>2, <2>3 DEF Submit, ShapeInv, TableTypes, Closing
<1>12. ASSUME NEW c \in Caller, Put(c) PROVE Goal
  <2>1. call[c].job \in Job
    BY <1>12, PhaseShape DEF Put, Closing
  <2> QED BY <1>12, <2>1 DEF Put, ShapeInv, TableTypes
<1>13. ASSUME NEW c \in Caller, Prewarm(c) PROVE Goal
  <2>1. cache' \in [Keys -> (Provider \X Text) \cup {None}]
    <3>1. PICK t \in Text : cache' = [cache EXCEPT ![<<Label[provider], <<t>>>>] = Vector(provider, t)]
      BY <1>13 DEF Prewarm
    <3>2. Vector(provider, t) \in Provider \X Text
      BY DEF Vector, ShapeInv
    <3> QED BY <3>1, <3>2 DEF TableTypes
  <2> QED BY <1>13, <2>1, BoundAssumption DEF Prewarm, ShapeInv, TableTypes
<1>14. CASE Take
  <2>1. Head(queue) \in Job /\ Tail(queue) \in Seq(Job)
    BY <1>14 DEF Take, ShapeInv
  <2> QED BY <1>14, <2>1 DEF Take, ShapeInv, TableTypes, Working
<1>15. CASE Begin
  BY <1>15 DEF Begin, ShapeInv, TableTypes, Working
<1>16. CASE Run
  BY <1>16 DEF Run, ShapeInv, TableTypes, Working
<1>17. CASE Finish
  BY <1>17 DEF Finish, ShapeInv, TableTypes, Working
<1>18. CASE Crash
  BY <1>18 DEF Crash, ShapeInv, TableTypes
<1>19. CASE UNCHANGED vars
  BY <1>19 DEF vars, ShapeInv, TableTypes
<1>20. ASSUME NEW m \in Memory, ChangeCard(m) PROVE Goal
  BY <1>20 DEF ChangeCard, ShapeInv, TableTypes
<1> QED
  BY <1>2, <1>3, <1>4, <1>5, <1>6, <1>7, <1>8, <1>9, <1>10, <1>11, <1>12, <1>13,
     <1>14, <1>15, <1>16, <1>17, <1>18, <1>19, <1>20 DEF Next

-----------------------------------------------------------------------------
(* Jobs                                                                     *)

\* The window over the jobs that submit() keeps.
LEMMA Remembered ==
  ASSUME NEW S, NEW s \in Seq(S), IsInjective(s), NEW x \in S, x \notin Range(s)
  PROVE  LET all == Append(s, x)
             kept == SubSeq(all, Len(all) - Min({Len(all), Recent}) + 1, Len(all))
         IN  IsInjective(kept) /\ Range(kept) \subseteq Range(s) \cup {x} /\ Len(kept) <= Recent
<1> DEFINE all == Append(s, x)
           n == Min({Len(all), Recent})
<1>1. all \in Seq(S) /\ IsInjective(all) /\ Range(all) = Range(s) \cup {x} /\ Len(all) \in Nat
  <2>1. all \in Seq(S) /\ Len(all) \in Nat
    OBVIOUS
  <2>2. IsInjective(all) /\ Range(all) = Range(s) \cup {x}
    BY AppendNew
  <2> QED BY <2>1, <2>2
<1>2. n = IF Len(all) <= Recent THEN Len(all) ELSE Recent
  BY <1>1, BoundAssumption, MinOfTwo
<1>3. Len(all) - n + 1 \in Nat /\ 1 <= Len(all) - n + 1 /\ Len(all) - n + 1 <= Len(all) + 1 /\ n <= Recent
  BY <1>1, <1>2, BoundAssumption
<1> HIDE DEF all, n
<1>4. LET kept == SubSeq(all, Len(all) - n + 1, Len(all))
      IN  IsInjective(kept) /\ Range(kept) \subseteq Range(all) /\ Len(kept) = Len(all) - (Len(all) - n + 1) + 1
  BY <1>1, <1>3, SuffixNew
<1>5. n \in Nat
  BY <1>1, <1>2, BoundAssumption
<1>6. LET kept == SubSeq(all, Len(all) - n + 1, Len(all))
      IN  IsInjective(kept) /\ Range(kept) \subseteq Range(s) \cup {x} /\ Len(kept) <= Recent
  BY <1>1, <1>3, <1>4, <1>5
<1> QED BY <1>6 DEF all, n

\* What TypeOK says of the jobs that are remembered.
RecentInv == Len(recent) <= Recent /\ IsInjective(recent)

\* A number is given once, and its job is listed, put and begun in this order.
LEMMA NumberNext ==
  ShapeInv /\ TableTypes /\ NumberInv /\ PlaceInv /\ RecentInv /\ [Next]_vars => NumberInv' /\ RecentInv'
<1> SUFFICES ASSUME ShapeInv, TableTypes, NumberInv, PlaceInv, RecentInv, [Next]_vars
             PROVE  NumberInv' /\ RecentInv'
  OBVIOUS
<1> DEFINE Goal == NumberInv' /\ RecentInv'
<1>a. asked \in Nat /\ \A c \in Caller : call[c].phase # "idle" => call[c].job \in 1..asked
  BY BoundAssumption DEF ShapeInv, NumberInv
<1> USE DEF callVars, jobVars, runVars, cardVars
<1>1. ASSUME NEW c \in Caller, UNCHANGED <<status, recent, submitted, asked>>,
             \A d \in Caller : d # c => call'[d] = call[d],
             \/ call'[c].phase = "idle"
             \/ /\ call[c].phase \notin {"idle", "put"} /\ call'[c].phase \notin {"idle", "put"}
                /\ call'[c].job = call[c].job
      PROVE  Goal
  BY <1>1 DEF NumberInv, RecentInv
<1>2. ASSUME NEW c \in Caller, Refuse(c) \/ Prewarm(c) PROVE Goal
  <2>1. asked' = asked + 1 /\ UNCHANGED <<call, status, recent, submitted>>
    BY <1>2 DEF Refuse, Prewarm
  <2>2. 1..asked \subseteq 1..asked' /\ \A j \in Job : j > asked' => j > asked
    BY <2>1, <1>a DEF Job
  <2> QED BY <2>1, <2>2 DEF NumberInv, RecentInv
<1>3. ASSUME NEW c \in Caller, Ask(c) PROVE Goal
  <2>1. /\ asked' = asked + 1 /\ UNCHANGED <<status, recent, submitted>>
        /\ \A d \in Caller : d # c => call'[d] = call[d]
        /\ call'[c].phase = "lookup" /\ call'[c].job = asked + 1
    BY <1>3 DEF Ask, ShapeInv
  <2>2. /\ 1..asked \subseteq 1..asked' /\ asked + 1 \in 1..asked' /\ asked + 1 \notin 1..asked
        /\ \A j \in Job : j > asked' => j > asked
    BY <2>1, <1>a DEF Job
  <2>3. status[asked + 1] = "absent"
    BY <1>3, <1>a, BoundAssumption DEF Ask, NumberInv, Job
  <2>4. submitted' \cup Range(recent') \subseteq 1..asked' /\ \A j \in Job : j > asked' => status'[j] = "absent"
    BY <2>1, <2>2 DEF NumberInv
  <2>5. RecentInv'
    BY <2>1 DEF RecentInv
  <2>6. ASSUME NEW d \in Caller, call'[d].phase # "idle"
        PROVE  /\ call'[d].job \in 1..asked' /\ call'[d].job \notin submitted'
               /\ \A e \in Caller : e # d /\ call'[e].phase # "idle" => call'[e].job # call'[d].job
               /\ call'[d].phase = "put" => status'[call'[d].job] = "queued"
               /\ call'[d].phase # "put" => status'[call'[d].job] = "absent" /\ call'[d].job \notin Range(recent')
    <3>1. CASE d = c
      BY <1>a, <2>1, <2>2, <2>3, <3>1 DEF NumberInv
    <3>2. CASE d # c
      BY <1>a, <2>1, <2>2, <2>6, <3>2 DEF NumberInv
    <3> QED BY <3>1, <3>2
  <2> QED BY <2>4, <2>5, <2>6 DEF NumberInv
<1>4. ASSUME NEW c \in Caller, Lookup(c) PROVE Goal
  <2>1. /\ call[c].phase = "lookup" /\ call[c] \in Searching
        /\ UNCHANGED <<status, recent, submitted, asked>>
    BY <1>4, PhaseShape DEF Lookup
  <2>2. PICK hits, missing : call' = [call EXCEPT ![c] = [call[c] EXCEPT !.phase = "embed", !.sent = 0, !.got = <<>>, !.errs = {},
                                        !.hits = hits, !.missing = missing]]
    BY <1>4 DEF Lookup
  <2>3. \A d \in Caller : d # c => call'[d] = call[d]
    BY <2>2 DEF ShapeInv
  <2>4. call'[c].phase = "embed" /\ call'[c].job = call[c].job
    BY <2>1, <2>2 DEF ShapeInv, Searching
  <2> QED BY <1>1, <2>1, <2>3, <2>4
<1>5. ASSUME NEW c \in Caller, Embed(c) PROVE Goal
  <2>1. /\ call[c].phase = "embed" /\ call[c] \in Searching
        /\ UNCHANGED <<status, recent, submitted, asked>>
    BY <1>5, PhaseShape DEF Embed, Raise
  <2>2. CASE Raise(c)
    BY <1>1, <2>1, <2>2 DEF Raise, ShapeInv, Idle
  <2>3. CASE ~Raise(c)
    <3>1. PICK sent, got, errs : call' = [call EXCEPT ![c] = [call[c] EXCEPT !.sent = sent, !.got = got, !.errs = errs]]
      BY <1>5, <2>3 DEF Embed
    <3>2. call'[c].phase = "embed" /\ call'[c].job = call[c].job
      BY <2>1, <3>1 DEF ShapeInv, Searching
    <3> QED BY <1>1, <2>1, <3>1, <3>2 DEF ShapeInv
  <2> QED BY <2>2, <2>3
<1>6. ASSUME NEW c \in Caller, Mismatch(c) \/ NoGraph(c) \/ CommitGraph(c) PROVE Goal
  <2>1. call' = [call EXCEPT ![c] = Idle] /\ UNCHANGED <<status, recent, submitted, asked>>
    BY <1>6 DEF Mismatch, Raise, NoGraph, CommitGraph
  <2> QED BY <1>1, <2>1 DEF ShapeInv, Idle
<1>7. ASSUME NEW c \in Caller, Store(c) PROVE Goal
  <2>1. call[c].phase = "embed" /\ call[c] \in Searching
    BY <1>7, PhaseShape DEF Store
  <2>2. PICK hits : call' = [call EXCEPT ![c] = [call[c] EXCEPT !.phase = "index", !.hits = hits]]
    BY <1>7 DEF Store
  <2>3. call'[c].phase = "index" /\ call'[c].job = call[c].job
    BY <2>1, <2>2 DEF ShapeInv, Searching
  <2> QED BY <1>1, <1>7, <2>1, <2>2, <2>3 DEF Store, ShapeInv
<1>8. ASSUME NEW c \in Caller, Use(c) PROVE Goal
  <2>1. call[c].phase = "index" /\ call[c] \in Searching
    BY <1>8, PhaseShape DEF Use
  <2>2. \E k \in {[call[c] EXCEPT !.phase = "lookup", !.cards = <<>>], [phase |-> "graph", job |-> call[c].job]} :
          call' = [call EXCEPT ![c] = k]
    BY <1>8 DEF Use
  <2>3. \E k : k.phase \in {"lookup", "graph"} /\ k.job = call[c].job /\ call' = [call EXCEPT ![c] = k]
    BY <2>1, <2>2 DEF Searching
  <2>4. /\ call'[c].phase \in {"lookup", "graph"} /\ call'[c].job = call[c].job
        /\ \A d \in Caller : d # c => call'[d] = call[d]
    BY <2>3 DEF ShapeInv
  <2> QED BY <1>1, <1>8, <2>1, <2>4 DEF Use
<1>9. ASSUME NEW c \in Caller, Submit(c) PROVE Goal
  <2>1. call[c] \in Closing /\ call[c].phase = "graph" /\ call[c].job \in Job
    BY <1>9, PhaseShape DEF Submit, Closing
  <2>2. /\ status' = [status EXCEPT ![call[c].job] = "queued"]
        /\ UNCHANGED <<submitted, asked>>
        /\ call'[c].phase = "put" /\ call'[c].job = call[c].job
        /\ \A d \in Caller : d # c => call'[d] = call[d]
    BY <1>9, <2>1 DEF Submit, ShapeInv, Closing
  <2>3. call[c].job \in 1..asked /\ call[c].job \notin Range(recent) /\ call[c].job \notin submitted
    BY <2>1 DEF NumberInv
  <2>4. RecentInv' /\ Range(recent') \subseteq Range(recent) \cup {call[c].job}
    <3>1. recent \in Seq(Job) /\ IsInjective(recent)
      BY DEF ShapeInv, RecentInv
    <3> DEFINE all == Append(recent, call[c].job)
               kept == SubSeq(all, Len(all) - Min({Len(all), Recent}) + 1, Len(all))
    <3>2. recent' = kept
      BY <1>9 DEF Submit
    <3>3. IsInjective(kept) /\ Range(kept) \subseteq Range(recent) \cup {call[c].job} /\ Len(kept) <= Recent
      <4>1. call[c].job \in Job /\ call[c].job \notin Range(recent)
        BY <2>1, <2>3
      <4> QED BY <3>1, <4>1, Remembered
    <3> HIDE DEF all, kept
    <3>4. RecentInv'
      BY <3>2, <3>3 DEF RecentInv
    <3> QED BY <3>2, <3>3, <3>4
  <2>5. /\ \A d \in Caller : d # c /\ call[d].phase # "idle" => call[d].job # call[c].job /\ call[d].job \in Job
        /\ \A j \in Job : j # call[c].job => status'[j] = status[j]
        /\ status'[call[c].job] = "queued"
    <3>1. \A d \in Caller : call[d].phase # "idle" => call[d].job \in Job
      BY PhaseShape DEF Searching, Closing
    <3>2. \A d \in Caller : d # c /\ call[d].phase # "idle" => call[d].job # call[c].job
      BY <2>1 DEF NumberInv
    <3> QED BY <2>1, <2>2, <3>1, <3>2 DEF TableTypes
  <2>6. NumberInv'
    BY <1>a, <2>1, <2>2, <2>3, <2>4, <2>5 DEF NumberInv
  <2> QED BY <2>4, <2>6
<1>10. ASSUME NEW c \in Caller, Put(c) PROVE Goal
  <2>1. call[c].phase = "put" /\ submitted' = submitted \cup {call[c].job}
        /\ UNCHANGED <<status, recent, asked>>
        /\ call'[c].phase = "idle" /\ \A d \in Caller : d # c => call'[d] = call[d]
    BY <1>10 DEF Put, ShapeInv, Idle
  <2>2. call[c].job \in 1..asked /\ \A d \in Caller : d # c /\ call[d].phase # "idle" => call[d].job # call[c].job
    BY <2>1 DEF NumberInv
  <2> QED BY <2>1, <2>2 DEF NumberInv, RecentInv
<1>11. ASSUME NEW j \in submitted, NEW place, status' = [status EXCEPT ![j] = place],
              UNCHANGED <<recent, submitted, asked, call>>
       PROVE  Goal
  <2>1. j \in Job /\ j \in 1..asked
    BY DEF TableTypes, NumberInv
  <2>2. \A i \in Job : i # j => status'[i] = status[i]
    BY <1>11, <2>1 DEF TableTypes
  <2>3. \A c \in Caller : call[c].phase # "idle" => call[c].job # j /\ call[c].job \in Job
    BY PhaseShape DEF NumberInv, Searching, Closing
  <2> QED BY <1>11, <1>a, <2>1, <2>2, <2>3 DEF NumberInv, RecentInv
<1>12. CASE Take \/ Run
  BY <1>12 DEF Take, Run, NumberInv, RecentInv
<1>13. CASE Begin \/ Finish
  <2>1. worker.job \in submitted
    BY <1>13 DEF Begin, Finish, PlaceInv
  <2> QED BY <1>11, <1>13, <2>1 DEF Begin, Finish
<1>14. CASE Crash
  <2>1. recent' = <<>> /\ UNCHANGED <<status, submitted, asked>> /\ \A c \in Caller : call'[c].phase = "idle"
    BY <1>14 DEF Crash, Idle
  <2> QED BY <2>1, BoundAssumption DEF NumberInv, RecentInv, Range, IsInjective
<1>15. CASE UNCHANGED vars \/ \E m \in Memory : ChangeCard(m)
  BY <1>15 DEF vars, ChangeCard, NumberInv, RecentInv
<1> QED
  BY <1>2, <1>3, <1>4, <1>5, <1>6, <1>7, <1>8, <1>9, <1>10, <1>12, <1>13, <1>14, <1>15 DEF Next

\* A job that is put is new to the queue, and one that is taken leaves it.
LEMMA PlaceNext == ShapeInv /\ TableTypes /\ NumberInv /\ PlaceInv /\ [Next]_vars => PlaceInv'
<1> SUFFICES ASSUME ShapeInv, TableTypes, NumberInv, PlaceInv, [Next]_vars PROVE PlaceInv'
  OBVIOUS
<1> USE DEF callVars, jobVars, runVars, cardVars
<1>a. queue \in Seq(Job) /\ IsInjective(queue) /\ \A j \in Range(queue) : j \in submitted /\ status[j] = "queued"
  BY DEF ShapeInv, PlaceInv, Range
<1>b. worker # None => worker \in Working /\ worker.job \in Job
  BY DEF ShapeInv, Working
<1>1. ASSUME UNCHANGED <<queue, submitted, status, worker>> PROVE PlaceInv'
  BY <1>1 DEF PlaceInv
<1>2. ASSUME NEW c \in Caller, Submit(c) PROVE PlaceInv'
  <2>1. call[c].job \in Job /\ call[c].job \notin submitted
    BY <1>2, PhaseShape DEF Submit, Closing, NumberInv
  <2>2. UNCHANGED <<queue, submitted, worker>> /\ \A j \in submitted : status'[j] = status[j]
    BY <1>2, <2>1 DEF Submit, TableTypes
  <2> QED BY <1>a, <2>2 DEF PlaceInv, Range
<1>3. ASSUME NEW c \in Caller, Put(c) PROVE PlaceInv'
  <2> DEFINE j == call[c].job
             longer == Append(queue, j)
  <2>1. j \in Job /\ j \notin submitted /\ status[j] = "queued"
    BY <1>3, PhaseShape DEF Put, Closing, NumberInv
  <2>2. /\ queue' = longer /\ submitted' = submitted \cup {j} /\ UNCHANGED <<status, worker>>
    BY <1>3 DEF Put
  <2>3. IsInjective(longer) /\ Range(longer) = Range(queue) \cup {j}
    BY <1>a, <2>1, AppendNew
  <2> HIDE DEF longer, j
  <2>4. \A i \in DOMAIN longer : longer[i] \in submitted' /\ status'[longer[i]] = "queued"
    BY <1>a, <2>1, <2>2, <2>3 DEF Range
  <2> QED BY <2>1, <2>2, <2>3, <2>4 DEF PlaceInv
<1>4. CASE Take
  <2>1. /\ queue # <<>> /\ worker' = [job |-> Head(queue), at |-> "taken"] /\ queue' = Tail(queue)
        /\ UNCHANGED <<status, submitted>>
    BY <1>4 DEF Take
  <2>2. /\ IsInjective(Tail(queue)) /\ Head(queue) \in Range(queue) /\ Head(queue) \notin Range(Tail(queue))
        /\ Range(Tail(queue)) \subseteq Range(queue)
    BY <1>a, <2>1, TailNew
  <2>3. \A i \in DOMAIN queue' : queue'[i] \in submitted' /\ status'[queue'[i]] = "queued"
    BY <1>a, <2>1, <2>2 DEF Range
  <2> QED BY <1>a, <2>1, <2>2, <2>3 DEF PlaceInv
<1>5. CASE Begin
  <2>1. /\ worker # None /\ worker.at = "taken" /\ status' = [status EXCEPT ![worker.job] = "running"]
        /\ worker' = [worker EXCEPT !.at = "running"] /\ UNCHANGED <<queue, submitted>>
    BY <1>5 DEF Begin
  <2>2. worker'.job = worker.job /\ worker'.at = "running" /\ status'[worker.job] = "running"
    BY <1>b, <2>1 DEF Working, TableTypes
  <2>3. \A j \in Range(queue) : status'[j] = status[j]
    BY <1>a, <1>b, <2>1 DEF TableTypes, PlaceInv
  <2> QED BY <1>a, <2>1, <2>2, <2>3 DEF PlaceInv, Range
<1>6. CASE Run
  <2>1. worker # None /\ worker.at = "running" /\ UNCHANGED <<queue, submitted, status>>
    BY <1>6 DEF Run
  <2>2. worker'.job = worker.job /\ worker'.at \in {"completed", "failed"}
    BY <1>6, <1>b DEF Run, Working
  <2> QED BY <2>1, <2>2 DEF PlaceInv
<1>7. CASE Finish
  <2>1. /\ worker # None /\ status' = [status EXCEPT ![worker.job] = worker.at] /\ worker' = None
        /\ UNCHANGED <<queue, submitted>>
    BY <1>7 DEF Finish
  <2>2. \A j \in Range(queue) : status'[j] = status[j]
    BY <1>a, <1>b, <2>1 DEF TableTypes, PlaceInv
  <2> QED BY <1>a, <2>1, <2>2 DEF PlaceInv, Range
<1>8. CASE Crash
  BY <1>8 DEF Crash, PlaceInv, IsInjective
<1>9. CASE UNCHANGED vars \/ \E m \in Memory : ChangeCard(m)
  BY <1>1, <1>9 DEF vars, ChangeCard
<1>10. ASSUME NEW c \in Caller,
              \/ Refuse(c) \/ Ask(c) \/ Lookup(c) \/ Embed(c) \/ Mismatch(c) \/ Store(c) \/ Use(c)
              \/ NoGraph(c) \/ CommitGraph(c) \/ Prewarm(c)
       PROVE  PlaceInv'
  <2>1. UNCHANGED <<queue, submitted, status, worker>>
    BY <1>10 DEF Refuse, Ask, Lookup, Embed, Mismatch, Raise, Store, Use, NoGraph, CommitGraph, Prewarm
  <2> QED BY <1>1, <2>1
<1> QED BY <1>2, <1>3, <1>4, <1>5, <1>6, <1>7, <1>8, <1>9, <1>10 DEF Next

-----------------------------------------------------------------------------
(* Vectors                                                                  *)

\* A call lists the cards as they are, and what a card was it has been.
LEMMA CardNext == ShapeInv /\ TableTypes /\ CardInv /\ [Next]_vars => CardInv'
<1> SUFFICES ASSUME ShapeInv, TableTypes, CardInv, [Next]_vars PROVE CardInv'
  OBVIOUS
<1> USE DEF callVars, jobVars, runVars, cardVars
<1>1. ASSUME NEW c \in Caller, NEW k, call' = [call EXCEPT ![c] = k], UNCHANGED <<text, past>>,
             \/ k.phase \notin {"lookup", "embed", "index"}
             \/ /\ call[c].phase \in {"lookup", "embed", "index"}
                /\ Range(k.cards) \subseteq Range(call[c].cards)
      PROVE  CardInv'
  <2>1. call'[c] = k /\ \A d \in Caller : d # c => call'[d] = call[d]
    BY <1>1 DEF ShapeInv
  <2> QED BY <1>1, <2>1 DEF CardInv
<1>2. ASSUME UNCHANGED <<text, past, call>> PROVE CardInv'
  BY <1>2 DEF CardInv
<1>3. ASSUME NEW c \in Caller, Ask(c) PROVE CardInv'
  <2>1. PICK listed \in Listing, texts \in Round :
          call' = [call EXCEPT ![c] = [phase |-> "lookup", job |-> asked + 1, cards |-> Cards(listed), texts |-> texts,
                                       missing |-> <<>>, sent |-> 0, got |-> <<>>, errs |-> {}, hits |-> {}]]
    BY <1>3 DEF Ask
  <2>2. call'[c].cards = Cards(listed) /\ \A d \in Caller : d # c => call'[d] = call[d]
    BY <2>1 DEF ShapeInv
  <2>3. \A k \in Range(call'[c].cards) : k[2] \in past[k[1]]
    BY <2>2, CardsType DEF CardInv
  <2> QED BY <1>3, <2>2, <2>3 DEF Ask, CardInv
<1>4. ASSUME NEW c \in Caller, Lookup(c) \/ Embed(c) \/ Store(c) \/ Use(c), ~Raise(c) PROVE CardInv'
  <2>1. call[c] \in Searching /\ call[c].phase \in {"lookup", "embed", "index"}
    BY <1>4, PhaseShape DEF Lookup, Embed, Store, Use
  <2>2. UNCHANGED <<text, past>>
    BY <1>4 DEF Lookup, Embed, Store, Use
  <2>3. CASE Lookup(c)
    <3>1. PICK hits, missing : call' = [call EXCEPT ![c] = [call[c] EXCEPT !.phase = "embed", !.sent = 0, !.got = <<>>, !.errs = {},
                                          !.hits = hits, !.missing = missing]]
      BY <2>3 DEF Lookup
    <3> DEFINE k == [call[c] EXCEPT !.phase = "embed", !.sent = 0, !.got = <<>>, !.errs = {}, !.hits = hits, !.missing = missing]
    <3>2. k.cards = call[c].cards
      BY <2>1 DEF Searching
    <3>3. call' = [call EXCEPT ![c] = k]
      BY <3>1
    <3> HIDE DEF k
    <3> QED BY <1>1, <2>1, <2>2, <3>2, <3>3
  <2>4. CASE Embed(c)
    <3>1. PICK sent, got, errs : call' = [call EXCEPT ![c] = [call[c] EXCEPT !.sent = sent, !.got = got, !.errs = errs]]
      BY <1>4, <2>4 DEF Embed
    <3> DEFINE k == [call[c] EXCEPT !.sent = sent, !.got = got, !.errs = errs]
    <3>2. k.cards = call[c].cards
      BY <2>1 DEF Searching
    <3>3. call' = [call EXCEPT ![c] = k]
      BY <3>1
    <3> HIDE DEF k
    <3> QED BY <1>1, <2>1, <2>2, <3>2, <3>3
  <2>5. CASE Store(c)
    <3>1. PICK hits : call' = [call EXCEPT ![c] = [call[c] EXCEPT !.phase = "index", !.hits = hits]]
      BY <2>5 DEF Store
    <3> DEFINE k == [call[c] EXCEPT !.phase = "index", !.hits = hits]
    <3>2. k.cards = call[c].cards
      BY <2>1 DEF Searching
    <3>3. call' = [call EXCEPT ![c] = k]
      BY <3>1
    <3> HIDE DEF k
    <3> QED BY <1>1, <2>1, <2>2, <3>2, <3>3
  <2>6. CASE Use(c)
    <3> DEFINE again == [call[c] EXCEPT !.phase = "lookup", !.cards = <<>>]
               done == [phase |-> "graph", job |-> call[c].job]
    <3>1. call' = [call EXCEPT ![c] = again] \/ call' = [call EXCEPT ![c] = done]
      BY <2>6 DEF Use
    <3>2. Range(again.cards) \subseteq Range(call[c].cards)
      BY <2>1 DEF Searching, Range
    <3>3. done.phase = "graph"
      OBVIOUS
    <3> HIDE DEF again, done
    <3> QED BY <1>1, <2>1, <2>2, <3>1, <3>2, <3>3
  <2> QED BY <1>4, <2>3, <2>4, <2>5, <2>6
<1>5. ASSUME NEW c \in Caller, Raise(c) \/ NoGraph(c) \/ CommitGraph(c) \/ Put(c) PROVE CardInv'
  <2>1. call' = [call EXCEPT ![c] = Idle] /\ UNCHANGED <<text, past>>
    BY <1>5 DEF Raise, NoGraph, CommitGraph, Put
  <2> QED BY <1>1, <2>1 DEF Idle
<1>6. ASSUME NEW c \in Caller, Submit(c) PROVE CardInv'
  <2>1. call[c] \in Closing
    BY <1>6, PhaseShape DEF Submit
  <2>2. [call[c] EXCEPT !.phase = "put"].phase = "put"
    BY <2>1 DEF Closing
  <2> QED BY <1>1, <1>6, <2>2 DEF Submit
<1>7. ASSUME NEW m \in Memory, ChangeCard(m) PROVE CardInv'
  <2>1. PICK t \in Text : text' = [text EXCEPT ![m] = t] /\ past' = [past EXCEPT ![m] = @ \cup {t}]
    BY <1>7 DEF ChangeCard
  <2>2. \A n \in Memory : text'[n] \in past'[n]
    BY <2>1 DEF TableTypes, CardInv
  <2>3. \A c \in Caller : call[c].phase \in {"lookup", "embed", "index"} =>
          \A k \in Range(call[c].cards) : k[1] \in Memory /\ k[2] \in past[k[1]]
    <3> SUFFICES ASSUME NEW c \in Caller, call[c].phase \in {"lookup", "embed", "index"}
                 PROVE  \A k \in Range(call[c].cards) : k[1] \in Memory /\ k[2] \in past[k[1]]
      OBVIOUS
    <3>1. call[c].cards \in Seq(Memory \X Text)
      BY PhaseShape DEF Searching
    <3>2. \A k \in Range(call[c].cards) : k \in Memory \X Text
      BY <3>1 DEF Range
    <3> QED BY <3>2 DEF CardInv
  <2>4. \A n \in Memory : past[n] \subseteq past'[n]
    BY <2>1 DEF TableTypes
  <2> QED BY <1>7, <2>2, <2>3, <2>4 DEF ChangeCard, CardInv
<1>8. CASE Crash
  BY <1>8 DEF Crash, Idle, CardInv
<1>9. ASSUME NEW c \in Caller, Refuse(c) \/ Prewarm(c) PROVE CardInv'
  BY <1>2, <1>9 DEF Refuse, Prewarm
<1>10. CASE Take \/ Begin \/ Run \/ Finish \/ UNCHANGED vars
  BY <1>2, <1>10 DEF Take, Begin, Run, Finish, vars
<1> QED BY <1>3, <1>4, <1>5, <1>6, <1>7, <1>8, <1>9, <1>10 DEF Next, Mismatch

\* Every vector that is kept or in hand is of a text that its place is for, and of
\* a model with the label that its place is for.
LEMMA EmbedNext ==
  ShapeInv /\ TableTypes /\ CardInv /\ EmbedInv /\ VectorsFit /\ [Next]_vars => EmbedInv' /\ VectorsFit'
<1> SUFFICES ASSUME ShapeInv, TableTypes, CardInv, EmbedInv, VectorsFit, [Next]_vars
             PROVE  EmbedInv' /\ VectorsFit'
  OBVIOUS
<1> DEFINE Goal == EmbedInv' /\ VectorsFit'
<1> USE DEF callVars, jobVars, runVars, cardVars
<1>1. ASSUME NEW c \in Caller, UNCHANGED <<cache, index, provider, crossed, past>>,
             \A d \in Caller : d # c => call'[d] = call[d],
             call'[c].phase \notin {"embed", "index"}
      PROVE  Goal
  BY <1>1 DEF EmbedInv, VectorsFit, Fits, Aligned
<1>2. ASSUME NEW c \in Caller, Refuse(c) \/ Put(c) \/ Submit(c) \/ NoGraph(c) \/ CommitGraph(c) \/ Mismatch(c) \/ Ask(c)
      PROVE  Goal
  <2>1. UNCHANGED <<cache, index, provider, crossed, past>>
    BY <1>2 DEF Refuse, Put, Submit, NoGraph, CommitGraph, Mismatch, Raise, Ask
  <2>2. \E k : call' = [call EXCEPT ![c] = k] /\ k.phase \notin {"embed", "index"}
    <3>1. CASE Refuse(c)
      <4>1. call' = [call EXCEPT ![c] = call[c]]
        BY <3>1 DEF Refuse, ShapeInv
      <4> QED BY <3>1, <4>1 DEF Refuse
    <3>2. CASE Put(c) \/ NoGraph(c) \/ CommitGraph(c) \/ Mismatch(c)
      BY <3>2 DEF Put, NoGraph, CommitGraph, Mismatch, Raise, Idle
    <3>3. CASE Submit(c)
      <4>1. call[c] \in Closing
        BY <3>3, PhaseShape DEF Submit
      <4>2. [call[c] EXCEPT !.phase = "put"].phase = "put"
        BY <4>1 DEF Closing
      <4> QED BY <3>3, <4>2 DEF Submit
    <3>4. CASE Ask(c)
      BY <3>4 DEF Ask
    <3> QED BY <1>2, <3>1, <3>2, <3>3, <3>4
  <2>3. call'[c].phase \notin {"embed", "index"} /\ \A d \in Caller : d # c => call'[d] = call[d]
    BY <2>2 DEF ShapeInv
  <2> QED BY <1>1, <2>1, <2>3
<1>3. ASSUME NEW c \in Caller, NEW k, UNCHANGED <<cache, index, provider, crossed, past>>,
             call' = [call EXCEPT ![c] = k], k.phase = "embed",
             \A h \in k.hits : Fits(h[2], provider, h[1]), Aligned(k)
      PROVE  Goal
  <2>1. call'[c] = k /\ \A d \in Caller : d # c => call'[d] = call[d]
    BY <1>3 DEF ShapeInv
  <2>2. EmbedInv'
    <3>1. ASSUME NEW d \in Caller, call'[d].phase = "embed"
          PROVE  (\A h \in call'[d].hits : Fits(h[2], provider, h[1])) /\ Aligned(call'[d])
      <4>1. CASE d = c
        BY <1>3, <2>1, <4>1
      <4>2. CASE d # c
        BY <2>1, <3>1, <4>2 DEF EmbedInv
      <4> QED BY <4>1, <4>2
    <3> QED BY <1>3, <3>1 DEF EmbedInv, Fits, Aligned
  <2>3. VectorsFit'
    BY <1>3, <2>1 DEF VectorsFit, Fits
  <2> QED BY <2>2, <2>3
<1>4. ASSUME NEW c \in Caller, Lookup(c) PROVE Goal
  <2>1. call[c] \in Searching /\ Wanted(c) \in Seq(Text) /\ UNCHANGED <<cache, index, provider, crossed, past>>
    BY <1>4, PhaseShape, WantedType DEF Lookup
  <2>2. PICK found \in {{t \in Range(Wanted(c)) : Cached(t) # None}, {}} :
          call' = [call EXCEPT ![c] = [call[c] EXCEPT !.phase = "embed", !.sent = 0, !.got = <<>>, !.errs = {},
                     !.hits = {<<t, Cached(t)>> : t \in found},
                     !.missing = At(Wanted(c), {i \in DOMAIN Wanted(c) : Wanted(c)[i] \notin found})]]
    BY <1>4 DEF Lookup
  <2> DEFINE hits == {<<t, Cached(t)>> : t \in found}
             missing == At(Wanted(c), {i \in DOMAIN Wanted(c) : Wanted(c)[i] \notin found})
             k == [call[c] EXCEPT !.phase = "embed", !.sent = 0, !.got = <<>>, !.errs = {}, !.hits = hits, !.missing = missing]
  <2>3. missing \in Seq(Text)
    BY <2>1, SubsequenceType
  <2>4. \A h \in hits : Fits(h[2], provider, h[1])
    <3>1. \A t \in Range(Wanted(c)) : t \in Text
      BY <2>1 DEF Range
    <3>2. \A t \in Text : Cached(t) # None => Fits(Cached(t), provider, t)
      BY DEF Cached, Key, VectorsFit, ShapeInv
    <3> QED BY <2>2, <3>1, <3>2
  <2>5. call' = [call EXCEPT ![c] = k]
    BY <2>2
  <2>6. /\ k.phase = "embed" /\ k.sent = 0 /\ k.got = <<>> /\ k.errs = {} /\ k.hits = hits
        /\ k.missing = missing
    <3> HIDE DEF hits, missing
    <3> QED BY <2>1 DEF Searching
  <2>7. Len(missing) \in Nat
    BY <2>3
  <2> HIDE DEF k, hits, missing
  <2>8. \A h \in k.hits : Fits(h[2], provider, h[1])
    BY <2>4, <2>6
  <2>9. Aligned(k)
    <3>1. k.sent <= Len(k.missing) /\ Len(k.got) = 0 /\ 1..k.sent = {} /\ DOMAIN k.got = {}
      BY <2>6, <2>7
    <3> QED BY <2>6, <3>1 DEF Aligned
  <2> QED BY <1>3, <2>1, <2>5, <2>6, <2>8, <2>9
<1>5. ASSUME NEW c \in Caller, Embed(c) PROVE Goal
  <2>1. call[c] \in Searching /\ call[c].phase = "embed" /\ UNCHANGED <<cache, index, provider, crossed, past>>
    BY <1>5, PhaseShape DEF Embed, Raise
  <2>2. CASE Raise(c)
    BY <1>1, <2>1, <2>2 DEF Raise, ShapeInv, Idle
  <2>3. CASE ~Raise(c)
    <3> DEFINE sent == call[c].sent
               missing == call[c].missing
               got == call[c].got
               last == Min({sent + MaxBatch, Len(missing)})
               batch == [i \in 1..(last - sent) |-> Vector(provider, missing[sent + i])]
    <3>1. PICK given \in Given(batch) :
            call' = [call EXCEPT ![c] = [call[c] EXCEPT !.sent = last, !.got = @ \o given[1], !.errs = @ \cup given[2]]]
      BY <1>5, <2>3 DEF Embed
    <3> DEFINE more == given[1]
               n == last - sent
               k == [call[c] EXCEPT !.sent = last, !.got = @ \o given[1], !.errs = @ \cup given[2]]
    <3>2. /\ sent \in Nat /\ Len(missing) \in Nat /\ sent < Len(missing)
          /\ got \in Seq(Provider \X Text) /\ call[c].errs \in SUBSET {"short", "long"}
      <4>1. sent < Len(missing)
        BY <1>5 DEF Embed
      <4>2. /\ call[c].sent \in Nat /\ call[c].missing \in Seq(Text) /\ call[c].got \in Seq(Provider \X Text)
            /\ call[c].errs \in SUBSET {"short", "long"}
        BY <2>1 DEF Searching
      <4> QED BY <4>1, <4>2
    <3>3. /\ last \in Nat /\ sent < last /\ last <= Len(missing)
          /\ more \in Seq(Provider \X Text)
          /\ \A i \in DOMAIN more : more[i][1] = provider
          /\ \/ given[2] = {} /\ Len(more) = n /\ \A i \in 1..n : more[i] = Vector(provider, missing[sent + i])
             \/ given[2] = {"short"} /\ Len(more) = n - 1
             \/ given[2] = {"long"} /\ Len(more) = n + 1
      BY <1>5, <2>1, <3>1, BatchGiven DEF Embed
    <3>4. /\ k.phase = "embed" /\ k.sent = last /\ k.got = got \o more /\ k.errs = call[c].errs \cup given[2]
          /\ k.hits = call[c].hits /\ k.missing = missing
      <4> HIDE DEF batch, last
      <4> QED BY <2>1 DEF Searching
    <3>5. (\A h \in call[c].hits : Fits(h[2], provider, h[1])) /\ Aligned(call[c])
      BY <2>1 DEF EmbedInv
    <3>6. call' = [call EXCEPT ![c] = k]
      BY <3>1
    <3> DEFINE errs == call[c].errs
    <3>7. /\ \A i \in DOMAIN got : got[i][1] = provider
          /\ errs = {} => Len(got) = sent /\ \A i \in 1..sent : got[i][2] = missing[i]
          /\ errs = {"short"} => Len(got) < sent
          /\ errs = {"long"} => Len(got) > sent
      BY <3>5 DEF Aligned
    <3>8. n = last - sent
      OBVIOUS
    <3> HIDE DEF batch, last, got, sent, missing, more, n, k, errs
    <3>9. /\ Len(got) \in Nat /\ Len(more) \in Nat /\ n \in Nat
          /\ Len(got \o more) = Len(got) + Len(more)
          /\ DOMAIN (got \o more) = 1..(Len(got) + Len(more))
          /\ DOMAIN got = 1..Len(got) /\ DOMAIN more = 1..Len(more)
          /\ \A i \in 1..Len(got) : (got \o more)[i] = got[i]
          /\ \A i \in 1..Len(more) : (got \o more)[Len(got) + i] = more[i]
      BY <3>2, <3>3, <3>8
    <3>a. /\ sent \in Nat /\ last \in Nat /\ sent < last /\ n = last - sent
          /\ Len(got) \in Nat /\ Len(more) \in Nat
      BY <3>2, <3>3, <3>8, <3>9
    <3>10. \A i \in DOMAIN k.got : k.got[i][1] = provider
      <4> SUFFICES ASSUME NEW i \in 1..(Len(got) + Len(more)) PROVE (got \o more)[i][1] = provider
        BY <3>4, <3>9
      <4>1. CASE i <= Len(got)
        BY <3>7, <3>9, <4>1
      <4>2. CASE i > Len(got)
        <5>1. i - Len(got) \in 1..Len(more) /\ Len(got) + (i - Len(got)) = i
          BY <3>9, <4>2
        <5>2. (got \o more)[Len(got) + (i - Len(got))] = more[i - Len(got)]
          BY <3>9, <5>1
        <5>3. (got \o more)[i] = more[i - Len(got)]
          BY <5>1, <5>2
        <5>4. more[i - Len(got)][1] = provider
          BY <3>3, <3>9, <5>1
        <5> QED BY <5>3, <5>4
      <4> QED BY <3>9, <4>1, <4>2
    <3>11. ASSUME k.errs = {} PROVE Len(k.got) = k.sent /\ \A i \in 1..k.sent : k.got[i][2] = k.missing[i]
      <4>1. errs = {} /\ given[2] = {}
        BY <3>4, <3>11 DEF errs
      <4>2. /\ Len(got) = sent /\ Len(more) = n
            /\ \A i \in 1..n : more[i] = Vector(provider, missing[sent + i])
            /\ \A i \in 1..sent : got[i][2] = missing[i]
        BY <3>3, <3>7, <4>1
      <4>3. Len(got \o more) = last
        BY <3>2, <3>3, <3>8, <3>9, <4>2
      <4>4. ASSUME NEW i \in 1..last PROVE (got \o more)[i][2] = missing[i]
        <5>1. CASE i <= sent
          BY <3>2, <3>3, <3>9, <4>2, <5>1
        <5>2. CASE i > sent
          <6>1. i - sent \in 1..n /\ sent + (i - sent) = i
            BY <3>2, <3>3, <3>8, <5>2
          <6>2. (got \o more)[sent + (i - sent)] = more[i - sent]
            BY <3>9, <4>2, <6>1
          <6>3. more[i - sent] = Vector(provider, missing[i])
            BY <4>2, <6>1
          <6>4. (got \o more)[i] = more[i - sent]
            BY <6>1, <6>2
          <6>5. Vector(provider, missing[i])[2] = missing[i]
            BY DEF Vector
          <6> QED BY <6>3, <6>4, <6>5
        <5>3. i <= sent \/ i > sent
          BY <3>a
        <5> QED BY <5>1, <5>2, <5>3
      <4> QED BY <3>4, <4>3, <4>4
    <3>12. k.errs = {"short"} => Len(k.got) < k.sent
      <4> SUFFICES ASSUME errs \cup given[2] = {"short"} PROVE Len(got) + Len(more) < last
        BY <3>4, <3>9 DEF errs
      <4>1. errs \in {{}, {"short"}} /\ given[2] \in {{}, {"short"}} /\ (errs # {} \/ given[2] # {})
        BY <3>2, <3>3 DEF errs
      <4>2. Len(got) <= sent /\ Len(more) <= n /\ (Len(got) < sent \/ Len(more) < n)
        <5>1. errs = {} => Len(got) = sent
          BY <3>7
        <5>2. given[2] = {} => Len(more) = n
          BY <3>3
        <5>3. given[2] = {"short"} => Len(more) = n - 1
          BY <3>3
        <5>4. errs # {} => errs = {"short"}
          BY <4>1
        <5>5. given[2] # {} => given[2] = {"short"}
          BY <4>1
        <5>6. errs = {"short"} => Len(got) < sent
          BY <3>7
        <5>7. /\ Len(got) = sent \/ Len(got) < sent
              /\ Len(more) = n \/ Len(more) = n - 1
              /\ Len(got) < sent \/ Len(more) = n - 1
          BY <4>1, <5>1, <5>2, <5>3, <5>4, <5>5, <5>6
        <5> QED BY <3>a, <5>7
      <4> QED BY <3>2, <3>3, <3>8, <3>9, <4>2
    <3>13. k.errs = {"long"} => Len(k.got) > k.sent
      <4> SUFFICES ASSUME errs \cup given[2] = {"long"} PROVE Len(got) + Len(more) > last
        BY <3>4, <3>9 DEF errs
      <4>1. errs \in {{}, {"long"}} /\ given[2] \in {{}, {"long"}} /\ (errs # {} \/ given[2] # {})
        BY <3>2, <3>3 DEF errs
      <4>2. Len(got) >= sent /\ Len(more) >= n /\ (Len(got) > sent \/ Len(more) > n)
        <5>1. errs = {} => Len(got) = sent
          BY <3>7
        <5>2. given[2] = {} => Len(more) = n
          BY <3>3
        <5>3. given[2] = {"long"} => Len(more) = n + 1
          BY <3>3
        <5>4. errs # {} => errs = {"long"}
          BY <4>1
        <5>5. given[2] # {} => given[2] = {"long"}
          BY <4>1
        <5>6. errs = {"long"} => Len(got) > sent
          BY <3>7
        <5>7. /\ Len(got) = sent \/ Len(got) > sent
              /\ Len(more) = n \/ Len(more) = n + 1
              /\ Len(got) > sent \/ Len(more) = n + 1
          BY <4>1, <5>1, <5>2, <5>3, <5>4, <5>5, <5>6
        <5> QED BY <3>a, <5>7
      <4> QED BY <3>2, <3>3, <3>8, <3>9, <4>2
    <3>14. Aligned(k)
      <4>1. k.sent <= Len(k.missing)
        BY <3>3, <3>4
      <4> QED BY <3>10, <3>11, <3>12, <3>13, <4>1 DEF Aligned
    <3>15. k.phase = "embed" /\ \A h \in k.hits : Fits(h[2], provider, h[1])
      BY <3>4, <3>5
    <3> QED BY <1>3, <2>1, <3>6, <3>14, <3>15
  <2> QED BY <2>2, <2>3
<1>6. ASSUME NEW c \in Caller, Store(c) PROVE Goal
  <2>1. call[c] \in Searching /\ call[c].phase = "embed" /\ UNCHANGED <<index, provider, past>>
    BY <1>6, PhaseShape DEF Store
  <2>2. crossed \subseteq crossed' /\ (call[c].errs = {"short", "long"} => Range(call[c].missing) \subseteq crossed')
    BY <1>6 DEF Store
  <2> DEFINE Fit(v, p, t) == Label[v[1]] = Label[p] /\ (v[2] = t \/ t \in crossed')
  <2>4. \A p \in Pairs(c) : Fit(p[2], provider, p[1])
    <3> DEFINE missing == call[c].missing
               got == call[c].got
    <3>1. /\ call[c].sent = Len(missing) /\ Len(missing) = Len(got) /\ Len(missing) \in Nat
          /\ got \in Seq(Provider \X Text) /\ missing \in Seq(Text)
      BY <1>6, <2>1 DEF Store, Paired, Searching
    <3>2. Min({Len(missing), Len(got)}) = Len(missing)
      BY <3>1, MinOfTwo
    <3>3. Pairs(c) = {<<missing[i], got[i]>> : i \in 1..Len(missing)}
      BY <3>2 DEF Pairs
    <3>4. Aligned(call[c]) /\ call[c].errs \in SUBSET {"short", "long"}
      BY <2>1 DEF EmbedInv, Searching
    <3>5. call[c].errs = {} \/ call[c].errs = {"short", "long"}
      <4>1. call[c].errs # {"short"} /\ call[c].errs # {"long"}
        BY <3>1, <3>4 DEF Aligned
      <4> QED BY <3>4, <4>1
    <3>6. ASSUME NEW i \in 1..Len(missing) PROVE got[i][1] = provider /\ (got[i][2] = missing[i] \/ missing[i] \in crossed')
      <4>1. got[i][1] = provider
        <5>1. i \in DOMAIN got
          BY <3>1
        <5> QED BY <3>4, <5>1 DEF Aligned
      <4>2. CASE call[c].errs = {}
        <5>1. i \in 1..call[c].sent
          BY <3>1
        <5> QED BY <3>4, <4>1, <4>2, <5>1 DEF Aligned
      <4>3. CASE call[c].errs = {"short", "long"}
        <5>1. missing[i] \in Range(missing)
          BY <3>1 DEF Range
        <5> QED BY <2>2, <4>1, <4>3, <5>1
      <4> QED BY <3>5, <4>2, <4>3
    <3> HIDE DEF missing, got
    <3> QED BY <2>1, <3>3, <3>6 DEF Fits
  <2>5. \A p \in Provider, t \in Text : cache'[<<Label[p], t>>] # None => Fit(cache'[<<Label[p], t>>], p, t)
    <3>1. PICK kept \in {Pairs(c), {}} :
            cache' = [k \in Keys |-> IF \E p \in kept : Key(provider, p[1]) = k
                                     THEN (CHOOSE p \in kept : Key(provider, p[1]) = k)[2] ELSE cache[k]]
      BY <1>6 DEF Store
    <3> SUFFICES ASSUME NEW p \in Provider, NEW t \in Text, cache'[<<Label[p], t>>] # None
                 PROVE  Fit(cache'[<<Label[p], t>>], p, t)
      BY <2>1 DEF Fits
    <3>2. <<Label[p], t>> \in Keys
      BY DEF Keys
    <3>3. ASSUME NEW q \in kept, Key(provider, q[1]) = <<Label[p], t>> PROVE Fit(q[2], p, t)
      <4>1. Label[provider] = Label[p] /\ q[1] = t
        BY <3>3 DEF Key
      <4>2. Fit(q[2], provider, q[1])
        BY <2>4, <3>1
      <4> QED BY <2>1, <4>1, <4>2 DEF Fits
    <3>4. CASE \E q \in kept : Key(provider, q[1]) = <<Label[p], t>>
      <4> DEFINE q == CHOOSE q \in kept : Key(provider, q[1]) = <<Label[p], t>>
      <4>1. q \in kept /\ Key(provider, q[1]) = <<Label[p], t>>
        BY <3>4
      <4>2. cache'[<<Label[p], t>>] = q[2]
        BY <3>1, <3>2, <3>4
      <4> HIDE DEF q
      <4>3. Fit(q[2], p, t)
        BY <3>3, <4>1
      <4> QED BY <4>2, <4>3 DEF Fits
    <3>5. CASE ~\E q \in kept : Key(provider, q[1]) = <<Label[p], t>>
      <4>1. cache'[<<Label[p], t>>] = cache[<<Label[p], t>>]
        BY <3>1, <3>2, <3>5
      <4>2. Fits(cache[<<Label[p], t>>], p, t)
        BY <3>2, <4>1 DEF VectorsFit
      <4> QED BY <2>2, <4>1, <4>2 DEF Fits
    <3> QED BY <3>4, <3>5
  <2>6. \A h \in call[c].hits \cup Pairs(c) : Fit(h[2], provider, h[1])
    <3>1. \A h \in call[c].hits : Fits(h[2], provider, h[1])
      BY <2>1 DEF EmbedInv
    <3> QED BY <2>1, <2>2, <2>4, <3>1 DEF Fits
  <2>7. /\ call'[c].phase = "index" /\ call'[c].hits = call[c].hits \cup Pairs(c)
        /\ \A d \in Caller : d # c => call'[d] = call[d]
    BY <1>6, <2>1 DEF Store, ShapeInv, Searching
  <2>8. EmbedInv'
    BY <2>1, <2>2, <2>7 DEF EmbedInv, Fits, Aligned
  <2>9. \A m \in Memory : index'[m] # None => \E t \in past'[m] : Fit(index'[m], provider, t)
    BY <2>1, <2>2 DEF VectorsFit, Fits
  <2>10. ASSUME NEW d \in Caller, call'[d].phase = "index", NEW h \in call'[d].hits PROVE Fit(h[2], provider, h[1])
    <3>1. CASE d = c
      BY <2>6, <2>7, <2>10, <3>1
    <3>2. CASE d # c
      BY <2>1, <2>2, <2>7, <2>10, <3>2 DEF VectorsFit, Fits
    <3> QED BY <3>1, <3>2
  <2>11. VectorsFit'
    BY <2>1, <2>5, <2>9, <2>10 DEF VectorsFit, Fits
  <2> QED BY <2>8, <2>11
<1>7. ASSUME NEW c \in Caller, Use(c) PROVE Goal
  <2>1. call[c] \in Searching /\ call[c].phase = "index" /\ UNCHANGED <<cache, provider, crossed, past>>
    BY <1>7, PhaseShape DEF Use
  <2>2. ASSUME NEW m \in Memory, index'[m] # None PROVE \E t \in past[m] : Fits(index'[m], provider, t)
    <3>1. CASE index'[m] = index[m]
      BY <2>2, <3>1 DEF VectorsFit
    <3>2. CASE index'[m] # index[m]
      <4>1. index'[m] \in VectorsOf(c, m)
        BY <1>7, <3>2 DEF Use
      <4>2. PICK h \in call[c].hits : <<m, h[1]>> \in Range(call[c].cards) /\ index'[m] = h[2]
        BY <4>1 DEF VectorsOf
      <4>3. Fits(h[2], provider, h[1])
        BY <2>1 DEF VectorsFit
      <4>4. h[1] \in past[m]
        <5>1. <<m, h[1]>>[2] \in past[<<m, h[1]>>[1]]
          BY <2>1, <4>2 DEF CardInv
        <5> QED BY <5>1
      <4> QED BY <4>2, <4>3, <4>4
    <3> QED BY <3>1, <3>2
  <2>3. \E k : k.phase \in {"lookup", "graph"} /\ call' = [call EXCEPT ![c] = k]
    <3> DEFINE again == [call[c] EXCEPT !.phase = "lookup", !.cards = <<>>]
               done == [phase |-> "graph", job |-> call[c].job]
    <3>1. call' = [call EXCEPT ![c] = again] \/ call' = [call EXCEPT ![c] = done]
      BY <1>7 DEF Use
    <3>2. again.phase = "lookup"
      BY <2>1 DEF Searching
    <3>3. done.phase = "graph"
      OBVIOUS
    <3> HIDE DEF again, done
    <3> QED BY <3>1, <3>2, <3>3
  <2>4. call'[c].phase \in {"lookup", "graph"} /\ \A d \in Caller : d # c => call'[d] = call[d]
    BY <2>3 DEF ShapeInv
  <2>5. EmbedInv'
    BY <2>1, <2>4 DEF EmbedInv, Fits, Aligned
  <2>6. VectorsFit'
    BY <2>1, <2>2, <2>4 DEF VectorsFit, Fits
  <2> QED BY <2>5, <2>6
<1>8. ASSUME NEW c \in Caller, Prewarm(c) PROVE Goal
  <2>1. PICK t \in Text : cache' = [cache EXCEPT ![<<Label[provider], <<t>>>>] = Vector(provider, t)]
    BY <1>8 DEF Prewarm
  <2>2. \A p \in Provider, u \in Text : cache'[<<Label[p], u>>] = cache[<<Label[p], u>>]
    BY <2>1, TextAssumption DEF TableTypes, Keys
  <2> QED BY <1>8, <2>2 DEF Prewarm, EmbedInv, VectorsFit, Fits, Aligned
<1>9. CASE Take \/ Begin \/ Run \/ Finish
  <2>1. UNCHANGED <<cache, index, provider, crossed, past, call>>
    BY <1>9 DEF Take, Begin, Run, Finish
  <2> QED BY <2>1 DEF EmbedInv, VectorsFit, Fits, Aligned
<1>10. CASE Crash
  <2>1. /\ UNCHANGED <<cache, crossed>> /\ index' = [m \in Memory |-> None]
        /\ \A c \in Caller : call'[c].phase = "idle"
    BY <1>10 DEF Crash, Idle
  <2> QED BY <2>1 DEF EmbedInv, VectorsFit, Fits
<1>11. CASE UNCHANGED vars
  BY <1>11 DEF vars, EmbedInv, VectorsFit, Fits, Aligned
<1>12. ASSUME NEW m \in Memory, ChangeCard(m) PROVE Goal
  <2>1. UNCHANGED <<cache, index, provider, crossed, call>>
    BY <1>12 DEF ChangeCard
  <2>2. \A n \in Memory : past[n] \subseteq past'[n]
    BY <1>12 DEF ChangeCard, TableTypes
  <2> QED BY <2>1, <2>2 DEF EmbedInv, VectorsFit, Fits, Aligned
<1> QED BY <1>2, <1>4, <1>5, <1>6, <1>7, <1>8, <1>9, <1>10, <1>11, <1>12 DEF Next

-----------------------------------------------------------------------------
(* The theorems                                                             *)

\* The parts of the invariant, which need each other.
IInv ==
    ShapeInv /\ TableTypes /\ NumberInv /\ RecentInv /\ PlaceInv /\ CardInv /\ EmbedInv /\ VectorsFit

\* A process that starts is in a state of the invariant, ...
LEMMA InitIInv == Init => IInv
<1> SUFFICES ASSUME Init PROVE IInv
  OBVIOUS
<1>1. ShapeInv
  <2>1. <<>> \in Seq(Job)
    OBVIOUS
  <2> QED BY <2>1, BoundAssumption DEF Init, ShapeInv
<1>2. TableTypes
  BY DEF Init, TableTypes
<1>3. \A c \in Caller : call[c].phase = "idle"
  BY DEF Init, Idle
<1>4. NumberInv /\ RecentInv
  BY <1>3, BoundAssumption DEF Init, NumberInv, RecentInv, Range, IsInjective
<1>5. PlaceInv
  BY DEF Init, PlaceInv, IsInjective
<1>6. CardInv /\ EmbedInv /\ VectorsFit
  <2>1. \A p \in Provider, t \in Text : <<Label[p], t>> \in Keys
    BY DEF Keys
  <2> QED BY <1>3, <2>1 DEF Init, CardInv, EmbedInv, VectorsFit
<1> QED BY <1>1, <1>2, <1>4, <1>5, <1>6 DEF IInv

\* ... every step of a call, of the worker or of a crash leads to another one, ...
LEMMA NextIInv == IInv /\ [Next]_vars => IInv'
BY ShapeNext, NumberNext, PlaceNext, CardNext, EmbedNext DEF IInv

\* ... and so every reachable state is one.
LEMMA IInvCorrect == Spec => []IInv
BY InitIInv, NextIInv, PTL DEF Spec

\* Every variable has its type in every reachable state: the list of jobs that
\* performance_stats() reads never grows beyond its bound nor names a job twice,
\* and the queue holds only jobs that were put.
THEOREM TypeCorrect == Spec => []TypeOK
<1>1. IInv => TypeOK
  BY DEF IInv, TypeOK, TableTypes, RecentInv, PlaceInv, Range
<1> QED BY <1>1, IInvCorrect, PTL

\* Whatever fails, comes back short or long, is restarted with another model or
\* runs beside it, a call writes and searches for vectors of its own texts, and
\* index and cache keep none of a text that its place never was for: models may
\* share a label, cards may change under a call, and a later index entry may be of
\* an earlier card. Texts of calls whose batches are wrong both ways are exempt.
THEOREM VectorsFitCorrect == Spec => []VectorsFit
<1>1. IInv => VectorsFit
  BY DEF IInv
<1> QED BY <1>1, IInvCorrect, PTL

\* The queue of a process that starts is WorkQueue's when it starts.
LEMMA WorkInit == Init => Work!Init
BY DEF Init, Work!Init

\* put(), the worker's get(), the end of a job and a crash are steps of WorkQueue;
\* listing a job, beginning it and committing its graph are none of its business.
LEMMA WorkNext == IInv /\ [Next]_vars => [Work!Next]_Work!vars
<1> SUFFICES ASSUME IInv, [Next]_vars PROVE [Work!Next]_Work!vars
  OBVIOUS
<1> USE DEF callVars, jobVars, runVars, cardVars
<1> DEFINE current == IF worker = None THEN None ELSE worker.job
           ended == {j \in Job : status[j] \in {"completed", "failed"}}
           Still == /\ submitted' = submitted /\ queue' = queue /\ current' = current /\ ended' = ended
                    /\ crashes' = crashes
<1>a. ShapeInv /\ TableTypes /\ NumberInv /\ PlaceInv
  BY DEF IInv
<1>b. worker # None => worker.job \in Job /\ worker.job # None /\ worker \in Working
  BY <1>a, NoneAssumption DEF ShapeInv, Working
<1>1. Still => [Work!Next]_Work!vars
  BY DEF Work!vars
<1>2. ASSUME UNCHANGED <<submitted, queue, worker, status, crashes>> PROVE [Work!Next]_Work!vars
  BY <1>1, <1>2
<1>3. ASSUME NEW j \in Job, NEW place, status' = [status EXCEPT ![j] = place],
             status[j] \notin {"completed", "failed"}, place \notin {"completed", "failed"}
      PROVE  ended' = ended
  <2>1. \A i \in Job : status'[i] \in {"completed", "failed"} <=> status[i] \in {"completed", "failed"}
    BY <1>a, <1>3 DEF TableTypes
  <2> QED BY <2>1
<1>4. ASSUME NEW c \in Caller, Submit(c) PROVE [Work!Next]_Work!vars
  <2>1. call[c].job \in Job /\ status[call[c].job] = "absent"
    BY <1>a, <1>4, PhaseShape DEF Submit, Closing, NumberInv
  <2>2. ended' = ended
    BY <1>3, <1>4, <2>1 DEF Submit
  <2> QED BY <1>1, <1>4, <2>2 DEF Submit
<1>5. ASSUME NEW c \in Caller, Put(c) PROVE [Work!Next]_Work!vars
  <2>1. call[c].job \in Job /\ call[c].job \notin submitted
    BY <1>a, <1>5, PhaseShape DEF Put, Closing, NumberInv
  <2>2. Work!Accept(call[c].job)
    BY <1>5, <2>1 DEF Put, Work!Accept
  <2> QED BY <2>1, <2>2 DEF Work!Next
<1>6. CASE Take
  <2>1. Head(queue) # None /\ worker' # None /\ worker'.job = Head(queue)
    BY <1>a, <1>6, NoneAssumption DEF Take, ShapeInv
  <2>2. Work!Start
    BY <1>6, <2>1 DEF Take, Work!Start
  <2> QED BY <2>2 DEF Work!Next
<1>7. CASE Begin
  <2>1. worker' # None /\ worker'.job = worker.job
    BY <1>b, <1>7, NoneAssumption DEF Begin, Working
  <2>2. status[worker.job] = "queued"
    BY <1>a, <1>7 DEF Begin, PlaceInv
  <2>3. ended' = ended
    BY <1>3, <1>b, <1>7, <2>2 DEF Begin
  <2> QED BY <1>1, <1>7, <2>1, <2>3 DEF Begin
<1>8. CASE Run
  <2>1. worker' # None /\ worker'.job = worker.job
    BY <1>b, <1>8, NoneAssumption DEF Run, Working
  <2> QED BY <1>1, <1>8, <2>1 DEF Run
<1>9. CASE Finish
  <2>1. \A j \in Job : j \in ended' <=> j \in ended \/ j = worker.job
    BY <1>a, <1>b, <1>9 DEF Finish, TableTypes
  <2>2. ended' = ended \cup {worker.job}
    BY <1>b, <1>9, <2>1 DEF Finish
  <2>3. Work!End
    BY <1>b, <1>9, <2>2 DEF Finish, Work!End
  <2> QED BY <2>3 DEF Work!Next
<1>10. CASE Crash
  <2>1. Work!Lose
    BY <1>10 DEF Crash, Work!Lose
  <2> QED BY <2>1 DEF Work!Next
<1>11. CASE UNCHANGED vars \/ \E m \in Memory : ChangeCard(m)
  BY <1>2, <1>11 DEF vars, ChangeCard
<1>12. ASSUME NEW c \in Caller,
              \/ Refuse(c) \/ Ask(c) \/ Lookup(c) \/ Embed(c) \/ Mismatch(c) \/ Store(c) \/ Use(c)
              \/ NoGraph(c) \/ CommitGraph(c) \/ Prewarm(c)
       PROVE  [Work!Next]_Work!vars
  <2>1. UNCHANGED <<submitted, queue, worker, status, crashes>>
    BY <1>12 DEF Refuse, Ask, Lookup, Embed, Mismatch, Raise, Store, Use, NoGraph, CommitGraph, Prewarm
  <2> QED BY <1>2, <2>1
<1> QED BY <1>4, <1>5, <1>6, <1>7, <1>8, <1>9, <1>10, <1>11, <1>12 DEF Next

\* Every behaviour of the background queue is one of WorkQueue, as far as safety
\* goes: jobs are accepted once, begun in the order in which they were put, one at
\* a time, and ended once, whatever the calls and the process do meanwhile.
THEOREM WorkQueueSafety == Spec => Work!Init /\ [][Work!Next]_Work!vars
BY WorkInit, WorkNext, IInvCorrect, PTL DEF Spec

=============================================================================
