-------------------------------- MODULE Jobs --------------------------------
(***************************************************************************)
(* What a query does beside the search itself: it embeds the texts of the    *)
(* listed memories and of the question, in batches and through a cache that  *)
(* outlives the process, fills the vector index, and has the graph of what   *)
(* it retrieved committed, by itself or by the background worker.            *)
(*                                                                          *)
(* The cache is a table of the database, shared by the threads of a process  *)
(* and by its restarts, perhaps with another embedding model; its keys are   *)
(* texts. The index belongs to the process; its keys are memories, and the   *)
(* text of a memory's card changes with its lifecycle. A vector is named by  *)
(* the model and the text it is of.                                         *)
(***************************************************************************)
EXTENDS Integers, SequencesExt, FiniteSetsExt, Subsequences

CONSTANTS
    Caller,      \* threads that call the runtime, through the facade or not
    Memory,      \* memories
    Text,        \* texts to embed: of cards and of questions
    Listing,     \* the lists of memories that a call may have to index
    Round,       \* the lists of texts that a question may be embedded as
    Provider,    \* embedding models
    Label,       \* Label[p]: the label under which vectors of p are cached
    Mode,        \* values of retrieval_graph_commit
    MaxBatch,    \* texts in a batch
    Recent,      \* jobs that are remembered (50 in the code)
    MaxCalls,    \* bound on the calls
    MaxWrites,   \* bound on the changes of cards
    MaxCrashes,  \* bound on the crashes
    None         \* no job, no vector

ASSUME BoundAssumption == MaxBatch \in Nat \ {0} /\ Recent \in Nat /\ MaxCalls \in Nat
ASSUME RoundAssumption == Round \subseteq Seq(Text) /\ Listing \subseteq Seq(Memory)
ASSUME TextAssumption == \A t \in Text : <<t>> \notin Text

Job == 1..MaxCalls

ASSUME NoneAssumption == None \notin Job /\ None \notin [job : Job, at : {"taken", "running", "completed", "failed"}]

VARIABLES
    cache,      \* cache[k]: the vector stored under k
    index,      \* index[m]: the vector that the index holds for m
    text,       \* text[m]: the text of m's card now
    past,       \* history: past[m] are the texts that m's card has had
    crossed,    \* history: texts of calls whose short and long batches made up for each other
    provider,   \* the model this process embeds with
    mode,       \* its retrieval_graph_commit
    call,       \* call[c]: the call of c
    graph,      \* calls whose graph is committed
    status,     \* status[j]: of the job that call j submits
    recent,     \* jobs as performance_stats() lists them
    queue,      \* jobs put and not taken
    submitted,  \* history: jobs put so far
    worker,     \* the job of the worker, and where it is
    asked,      \* number of calls so far
    writes,     \* number of changes of cards so far
    crashes     \* number of crashes so far

callVars == <<cache, index, graph, crossed>>
jobVars == <<status, recent, queue, submitted, worker>>
cardVars == <<text, past, writes>>
runVars == <<provider, mode, crashes, cardVars>>
vars == <<callVars, jobVars, runVars, call, asked>>

Vector(p, t) == <<p, t>>

\* cache_key(); the keys of prewarm_embeddings() are of no text that is asked for.
Key(p, t) == <<Label[p], t>>
Keys == {Label[p] : p \in Provider} \X (Text \cup {<<t>> : t \in Text})

Idle == [phase |-> "idle"]

Init ==
    /\ cache = [k \in Keys |-> None]
    /\ index = [m \in Memory |-> None]
    /\ text \in [Memory -> Text]
    /\ past = [m \in Memory |-> {text[m]}]
    /\ crossed = {}
    /\ provider \in Provider
    /\ mode \in Mode
    /\ call = [c \in Caller |-> Idle]
    /\ graph = {}
    /\ status = [j \in Job |-> "absent"]
    /\ recent = <<>>
    /\ queue = <<>>
    /\ submitted = {}
    /\ worker = None
    /\ asked = 0
    /\ writes = 0
    /\ crashes = 0

-----------------------------------------------------------------------------
(* Calls                                                                    *)

\* From within a running event loop the facade refuses the call.
Refuse(c) ==
    /\ call[c].phase = "idle"
    /\ asked < MaxCalls
    /\ asked' = asked + 1
    /\ UNCHANGED <<callVars, jobVars, runVars, call>>

\* The cards of the listed memories, as they are now.
Cards(listed) == [i \in DOMAIN listed |-> <<listed[i], text[listed[i]]>>]

\* query(), on a loop of its own: first the cards of the memories, then the question.
Ask(c) ==
    /\ call[c].phase = "idle"
    /\ asked < MaxCalls
    /\ asked' = asked + 1
    /\ \E listed \in Listing, texts \in Round :
        call' = [call EXCEPT ![c] = [phase |-> "lookup", job |-> asked + 1, cards |-> Cards(listed), texts |-> texts,
                                     missing |-> <<>>, sent |-> 0, got |-> <<>>, errs |-> {}, hits |-> {}]]
    /\ UNCHANGED <<callVars, jobVars, runVars>>

Wanted(c) ==
    IF call[c].cards # <<>> THEN [i \in DOMAIN call[c].cards |-> call[c].cards[i][2]] ELSE call[c].texts

\* The call ends in an exception.
Raise(c) ==
    /\ call' = [call EXCEPT ![c] = Idle]
    /\ UNCHANGED <<callVars, jobVars, runVars, asked>>

\* get_many().
Cached(t) == cache[Key(provider, t)]

\* When the reading fails, nothing is cached.
Lookup(c) ==
    /\ call[c].phase = "lookup"
    /\ \E found \in {{t \in Range(Wanted(c)) : Cached(t) # None}, {}} :
        call' = [call EXCEPT ![c] = [call[c] EXCEPT !.phase = "embed", !.sent = 0, !.got = <<>>, !.errs = {},
                                !.hits = {<<t, Cached(t)>> : t \in found},
                                !.missing = At(Wanted(c), {i \in DOMAIN Wanted(c) : Wanted(c)[i] \notin found})]]
    /\ UNCHANGED <<callVars, jobVars, runVars, asked>>

\* What the model gives for a batch: as many vectors as texts, one too few or one
\* too many; and what is wrong with it.
Given(batch) == {<<batch, {}>>, <<Front(batch), {"short"}>>, <<Append(batch, Last(batch)), {"long"}>>}

\* The next batch, of which nobody compares the lengths. The model may raise.
Embed(c) ==
    LET k == call[c]
        last == Min({k.sent + MaxBatch, Len(k.missing)})
        batch == [i \in 1..(last - k.sent) |-> Vector(provider, k.missing[k.sent + i])]
    IN /\ k.phase = "embed"
       /\ k.sent < Len(k.missing)
       /\ \/ Raise(c)
          \/ /\ \E given \in Given(batch) :
                call' = [call EXCEPT ![c] = [k EXCEPT !.sent = last, !.got = @ \o given[1], !.errs = @ \cup given[2]]]
             /\ UNCHANGED <<callVars, jobVars, runVars, asked>>

\* (variant) vectors and texts are paired as far as they go.
PairedLoosely(texts, vectors) == TRUE

\* zip(strict=True), over all batches.
Paired(texts, vectors) == Len(texts) = Len(vectors)

Mismatch(c) ==
    /\ call[c].phase = "embed"
    /\ call[c].sent = Len(call[c].missing)
    /\ ~Paired(call[c].missing, call[c].got)
    /\ Raise(c)

Pairs(c) == {<<call[c].missing[i], call[c].got[i]>> : i \in 1..Min({Len(call[c].missing), Len(call[c].got)})}

\* set_many(), which may fail unnoticed.
Store(c) ==
    /\ call[c].phase = "embed"
    /\ call[c].sent = Len(call[c].missing)
    /\ Paired(call[c].missing, call[c].got)
    /\ \E kept \in {Pairs(c), {}} :
        cache' = [k \in Keys |-> IF \E p \in kept : Key(provider, p[1]) = k
                                 THEN (CHOOSE p \in kept : Key(provider, p[1]) = k)[2] ELSE cache[k]]
    /\ crossed' = IF call[c].errs = {"short", "long"} THEN crossed \cup Range(call[c].missing) ELSE crossed
    /\ call' = [call EXCEPT ![c] = [call[c] EXCEPT !.phase = "index", !.hits = @ \cup Pairs(c)]]
    /\ UNCHANGED <<index, graph, jobVars, runVars, asked>>

\* The vectors that the call has for m: for the text that m's card had when it was listed.
VectorsOf(c, m) == {h[2] : h \in {x \in call[c].hits : <<m, x[1]>> \in Range(call[c].cards)}}

\* The vectors of the listed memories go to the index, over those of whatever later
\* listing came first; those of the question are searched for; the search follows.
Use(c) ==
    /\ call[c].phase = "index"
    /\ IF call[c].cards # <<>>
       THEN /\ index' = [m \in Memory |-> IF VectorsOf(c, m) = {} THEN index[m]
                                          ELSE CHOOSE v \in VectorsOf(c, m) : TRUE]
            /\ call' = [call EXCEPT ![c] = [call[c] EXCEPT !.phase = "lookup", !.cards = <<>>]]
       ELSE /\ call' = [call EXCEPT ![c] = [phase |-> "graph", job |-> call[c].job]]
            /\ UNCHANGED index
    /\ UNCHANGED <<cache, graph, crossed, jobVars, runVars, asked>>

\* _handle_retrieval_graph_commit(): with fewer than two memories, or unless it is
\* async or sync, there is nothing to commit.
NoGraph(c) ==
    /\ call[c].phase = "graph"
    /\ call' = [call EXCEPT ![c] = Idle]
    /\ UNCHANGED <<callVars, jobVars, runVars, asked>>

CommitGraph(c) ==
    /\ call[c].phase = "graph"
    /\ mode = "sync"
    /\ \/ graph' = graph \cup {call[c].job}
       \/ UNCHANGED graph
    /\ call' = [call EXCEPT ![c] = Idle]
    /\ UNCHANGED <<cache, index, crossed, jobVars, runVars, asked>>

\* (variant) every job is remembered.
SubmitRemembering(c) ==
    /\ call[c].phase = "graph"
    /\ mode = "async"
    /\ status' = [status EXCEPT ![call[c].job] = "queued"]
    /\ recent' = Append(recent, call[c].job)
    /\ call' = [call EXCEPT ![c] = [call[c] EXCEPT !.phase = "put"]]
    /\ UNCHANGED <<callVars, runVars, queue, submitted, worker, asked>>

\* submit() lists the job, under its lock, and then puts it.
Submit(c) ==
    /\ call[c].phase = "graph"
    /\ mode = "async"
    /\ status' = [status EXCEPT ![call[c].job] = "queued"]
    /\ LET all == Append(recent, call[c].job) IN recent' = SubSeq(all, Len(all) - Min({Len(all), Recent}) + 1, Len(all))
    /\ call' = [call EXCEPT ![c] = [call[c] EXCEPT !.phase = "put"]]
    /\ UNCHANGED <<callVars, runVars, queue, submitted, worker, asked>>

Put(c) ==
    /\ call[c].phase = "put"
    /\ queue' = Append(queue, call[c].job)
    /\ submitted' = submitted \cup {call[c].job}
    /\ call' = [call EXCEPT ![c] = Idle]
    /\ UNCHANGED <<callVars, runVars, status, recent, worker, asked>>

\* prewarm_embeddings().
Prewarm(c) ==
    /\ call[c].phase = "idle"
    /\ asked < MaxCalls
    /\ asked' = asked + 1
    /\ \E t \in Text : cache' = [cache EXCEPT ![<<Label[provider], <<t>>>>] = Vector(provider, t)]
    /\ UNCHANGED <<index, graph, crossed, jobVars, runVars, call>>

\* A commit, a replay or a decay changes the lifecycle or the provenance of a
\* memory, which its card shows. Nothing tells the index.
ChangeCard(m) ==
    /\ writes < MaxWrites
    /\ writes' = writes + 1
    /\ \E t \in Text \ {text[m]} :
        /\ text' = [text EXCEPT ![m] = t]
        /\ past' = [past EXCEPT ![m] = @ \cup {t}]
    /\ UNCHANGED <<callVars, jobVars, provider, mode, crashes, call, asked>>

-----------------------------------------------------------------------------
(* The worker                                                               *)

Take ==
    /\ worker = None
    /\ queue # <<>>
    /\ worker' = [job |-> Head(queue), at |-> "taken"]
    /\ queue' = Tail(queue)
    /\ UNCHANGED <<callVars, runVars, call, asked, status, recent, submitted>>

Begin ==
    /\ worker # None /\ worker.at = "taken"
    /\ status' = [status EXCEPT ![worker.job] = "running"]
    /\ worker' = [worker EXCEPT !.at = "running"]
    /\ UNCHANGED <<callVars, runVars, call, asked, recent, queue, submitted>>

\* _commit_auto_graph() of the worker: it commits or raises.
Run ==
    /\ worker # None /\ worker.at = "running"
    /\ \E outcome \in {"completed", "failed"} :
        /\ worker' = [worker EXCEPT !.at = outcome]
        /\ graph' = IF outcome = "completed" THEN graph \cup {worker.job} ELSE graph
    /\ UNCHANGED <<cache, index, crossed, runVars, call, asked, status, recent, queue, submitted>>

\* (variant) a job that fails takes the worker with it.
FinishUncaught ==
    /\ worker # None /\ worker.at = "completed"
    /\ status' = [status EXCEPT ![worker.job] = worker.at]
    /\ worker' = None
    /\ UNCHANGED <<callVars, runVars, call, asked, recent, queue, submitted>>

Finish ==
    /\ worker # None /\ worker.at \in {"completed", "failed"}
    /\ status' = [status EXCEPT ![worker.job] = worker.at]
    /\ worker' = None
    /\ UNCHANGED <<callVars, runVars, call, asked, recent, queue, submitted>>

\* The process ends and is started again, perhaps with another model; its jobs,
\* its index and its calls are gone.
Crash ==
    /\ crashes < MaxCrashes
    /\ crashes' = crashes + 1
    /\ provider' \in Provider
    /\ index' = [m \in Memory |-> None]
    /\ call' = [c \in Caller |-> Idle]
    /\ recent' = <<>>
    /\ queue' = <<>>
    /\ worker' = None
    /\ UNCHANGED <<cache, graph, crossed, mode, status, submitted, asked, cardVars>>

Next ==
    \/ \E c \in Caller :
        \/ Refuse(c) \/ Ask(c) \/ Lookup(c) \/ Embed(c) \/ Mismatch(c) \/ Store(c) \/ Use(c)
        \/ NoGraph(c) \/ CommitGraph(c) \/ Submit(c) \/ Put(c) \/ Prewarm(c)
    \/ \E m \in Memory : ChangeCard(m)
    \/ Take \/ Begin \/ Run \/ Finish
    \/ Crash

\* The worker's thread goes on, and the commit of a job ends.
Spec == Init /\ [][Next]_vars /\ WF_vars(Take) /\ WF_vars(Begin) /\ WF_vars(Run) /\ WF_vars(Finish)

-----------------------------------------------------------------------------
(* Properties                                                               *)

\* Every variable has its type; what is remembered of jobs stays bounded, and no
\* job is listed twice.
TypeOK ==
    /\ cache \in [Keys -> (Provider \X Text) \cup {None}]
    /\ index \in [Memory -> (Provider \X Text) \cup {None}]
    /\ text \in [Memory -> Text] /\ past \in [Memory -> SUBSET Text] /\ crossed \subseteq Text
    /\ graph \subseteq Job /\ submitted \subseteq Job /\ Range(queue) \subseteq submitted
    /\ status \in [Job -> {"absent", "queued", "running", "completed", "failed"}]
    /\ Len(recent) <= Recent /\ IsInjective(recent)

\* A vector of t, of a model with the label of p, unless t was in a call whose
\* batches were wrong both ways.
Fits(v, p, t) == Label[v[1]] = Label[p] /\ (v[2] = t \/ t \in crossed)

\* Whatever fails on the way (a batch, a short or a long answer, the cache),
\* whatever model filled the cache before and whatever call comes late, the vectors
\* that a call writes or searches for are of its texts and of a model with the
\* label of the one in use, a cached vector is of the text and the label of its
\* key, and the index holds for a memory a vector of a text that its card has or
\* had. Two things are left: a call whose batches are short and long by the same
\* count shifts its vectors unnoticed, and the index may hold the vector of an
\* older card although a call has indexed the newer one.
VectorsFit ==
    /\ \A m \in Memory : index[m] # None => \E t \in past[m] : Fits(index[m], provider, t)
    /\ \A c \in Caller : call[c].phase = "index" => \A h \in call[c].hits : Fits(h[2], provider, h[1])
    /\ \A p \in Provider, t \in Text : cache[<<Label[p], t>>] # None => Fits(cache[<<Label[p], t>>], p, t)

\* The background queue implements WorkQueue: jobs are done one at a time, in the
\* order in which they were put, each of them once, and every one that was put is
\* done unless the process ends, which alone loses jobs; a job that fails holds up
\* none behind it.
Work == INSTANCE WorkQueue WITH
    Job <- Job,
    None <- None,
    accepted <- submitted,
    waiting <- queue,
    current <- IF worker = None THEN None ELSE worker.job,
    ended <- {j \in Job : status[j] \in {"completed", "failed"}},
    process <- crashes

JobsAreDone == Work!Spec
=============================================================================
