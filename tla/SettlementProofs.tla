--------------------------- MODULE SettlementProofs ---------------------------
(***************************************************************************)
(* What the settlement service guarantees for any number of posts, runs,   *)
(* days and crashes.  The totals are left to TLC: they are sums, which are *)
(* defined by recursion.                                                   *)
(***************************************************************************)
EXTENDS Settlement, TLAPS

Shape ==
  /\ today \in Days
  /\ post \in [Posts -> [step : {"new", "insert", "replay", "done"}, ref : Refs \cup {NoRef}]]
  /\ entry \in [Posts -> [ref : Refs \cup {NoRef}, day : 0 .. LastDay, amount : Int]]
  /\ reply \in [Posts -> Posts \cup {Nobody}]
  /\ run \in [Runs -> [step : {"new", "pick", "collect", "total", "done"},
                       first : Days, last : Days]]
  /\ picked \in [Runs -> SUBSET Posts]
  /\ due \in [Runs -> SUBSET Posts]
  /\ lines \in [Runs -> SUBSET Posts]
  /\ contended \subseteq Posts

(* Each post inserts at most once. *)
OneInsert == \A p \in Posts : post[p].step # "done" => entry[p] = NoEntry /\ reply[p] = Nobody

PostInv == OneInsert /\ PostingIsIdempotent

Open(t) == run[t].step \in {"collect", "total"}

(* What a run that is collecting leaves aside is settled already. *)
LeftAsideIsSettled == \A t \in Runs : Open(t) => due[t] \subseteq picked[t] \cup Settled

LinesArePicked == \A t \in Runs : run[t].step = "total" => lines[t] = picked[t]

(* What a run that is collecting shares with another was seen to be        *)
(* contended when the later of them picked it.                             *)
SharedIsContended ==
  /\ \A t, u \in Runs : t # u /\ Open(t) /\ Open(u) => picked[t] \cap picked[u] \subseteq contended
  /\ \A t \in Runs, u \in Committed : Open(t) => picked[t] \cap lines[u] \subseteq contended

RunInv ==
  /\ LeftAsideIsSettled /\ LinesArePicked /\ SharedIsContended
  /\ NothingLeftOut /\ CollectedTwiceOnlyIfContended

-------------------------------------------------------------------------------
LEMMA ShapeInit == Init => Shape
  BY SettlementAssumption
  DEF Init, Shape, Days, IdlePost, IdleRun, NoEntry

LEMMA ShapeNext ==
  ASSUME Shape, [Next]_vars
  PROVE  Shape'
  <1>. USE SettlementAssumption DEF Shape, Days
  <1>1. ASSUME NEW p \in Posts, NEW ref \in Refs, FindByRef(p, ref)
        PROVE  Shape'
    <2>1. post' \in [Posts -> [step : {"new", "insert", "replay", "done"}, ref : Refs \cup {NoRef}]]
      BY <1>1 DEF FindByRef
    <2>2. reply' \in [Posts -> Posts \cup {Nobody}]
      <3>1. CASE UNCHANGED reply
        BY <3>1
      <3>2. ASSUME NEW e \in WithRef(ref), reply' = [reply EXCEPT ![p] = e]
            PROVE  reply' \in [Posts -> Posts \cup {Nobody}]
        <4>1. e \in Posts
          BY DEF WithRef, Entries
        <4> QED
          BY <3>2, <4>1
      <3> QED
        BY <1>1, <3>1, <3>2 DEF FindByRef
    <2>. QED
      BY <1>1, <2>1, <2>2 DEF FindByRef, runVars
  <1>2. ASSUME NEW p \in Posts, SkipFind(p) \/ Replay(p) \/ \E a \in Amounts : Insert(p, a)
        PROVE  Shape'
    <2>1. post' \in [Posts -> [step : {"new", "insert", "replay", "done"}, ref : Refs \cup {NoRef}]]
      <3>1. PICK s \in {"insert", "replay", "done"} : PostGoes(p, s)
        BY <1>2 DEF SkipFind, Replay, Insert, Answer
      <3> QED
        BY <3>1 DEF PostGoes
    <2>2. reply' \in [Posts -> Posts \cup {Nobody}]
      <3>1. CASE UNCHANGED reply
        BY <3>1
      <3>2. ASSUME NEW e \in Posts, reply' = [reply EXCEPT ![p] = e]
            PROVE  reply' \in [Posts -> Posts \cup {Nobody}]
        BY <3>2
      <3>3. CASE SkipFind(p)
        BY <3>1, <3>3 DEF SkipFind
      <3>4. CASE Replay(p)
        <4>1. PICK e \in WithRef(post[p].ref) : Answer(p, e)
          BY <3>4 DEF Replay
        <4>2. e \in Posts
          BY DEF WithRef, Entries
        <4> QED
          BY <3>2, <4>1, <4>2 DEF Answer
      <3>5. CASE \E a \in Amounts : Insert(p, a)
        BY <3>1, <3>2, <3>5 DEF Insert, Answer
      <3> QED
        BY <1>2, <3>3, <3>4, <3>5
    <2>3. entry' \in [Posts -> [ref : Refs \cup {NoRef}, day : 0 .. LastDay, amount : Int]]
      <3>1. ASSUME NEW a \in Amounts, Insert(p, a)
            PROVE  entry' \in [Posts -> [ref : Refs \cup {NoRef}, day : 0 .. LastDay, amount : Int]]
        <4>1. [ref |-> post[p].ref, day |-> today, amount |-> a]
                \in [ref : Refs \cup {NoRef}, day : 0 .. LastDay, amount : Int]
          OBVIOUS
        <4>. QED
          BY <3>1, <4>1 DEF Insert
      <3>. QED
        BY <1>2, <3>1 DEF SkipFind, Replay
    <2>4. UNCHANGED <<today, runVars>>
      BY <1>2 DEF SkipFind, Replay, Insert
    <2>. QED
      BY <2>1, <2>2, <2>3, <2>4 DEF runVars
  <1>3. ASSUME NEW t \in Runs,
               (\E first, last \in Days : BeginRun(t, first, last))
                 \/ Pick(t) \/ Collect(t) \/ FinishRun(t)
        PROVE  Shape'
    <2>1. run' \in [Runs -> [step : {"new", "pick", "collect", "total", "done"},
                             first : Days, last : Days]]
      <3>1. ASSUME NEW first \in Days, NEW last \in Days, BeginRun(t, first, last)
            PROVE  run' \in [Runs -> [step : {"new", "pick", "collect", "total", "done"},
                                      first : Days, last : Days]]
        BY <3>1 DEF BeginRun
      <3>2. ASSUME NEW s \in {"collect", "total", "done"}, RunGoes(t, s)
            PROVE  run' \in [Runs -> [step : {"new", "pick", "collect", "total", "done"},
                                      first : Days, last : Days]]
        <4>1. [run[t] EXCEPT !.step = s] \in
                [step : {"new", "pick", "collect", "total", "done"}, first : Days, last : Days]
          OBVIOUS
        <4>. QED
          BY <3>2, <4>1 DEF RunGoes
      <3>. QED
        BY <1>3, <3>1, <3>2 DEF Pick, Collect, FinishRun
    <2>2. picked' \in [Runs -> SUBSET Posts] /\ due' \in [Runs -> SUBSET Posts]
      <3>1. CASE Pick(t)
        <4>1. {p \in Entries \ Settled : InPeriod(t, p)} \in SUBSET Posts
              /\ {p \in Entries : InPeriod(t, p)} \in SUBSET Posts
          BY DEF Entries
        <4>. QED
          BY <3>1, <4>1 DEF Pick
      <3>. QED
        BY <1>3, <3>1 DEF BeginRun, Collect, FinishRun
    <2>3. lines' \in [Runs -> SUBSET Posts]
      BY <1>3 DEF BeginRun, Pick, Collect, FinishRun
    <2>4. contended' \subseteq Posts
      BY <1>3, <2>2 DEF BeginRun, Pick, Collect, FinishRun
    <2>5. UNCHANGED <<today, postVars>>
      BY <1>3 DEF BeginRun, Pick, Collect, FinishRun
    <2>. QED
      BY <2>1, <2>2, <2>3, <2>4, <2>5 DEF postVars
  <1>4. CASE NextDay
    BY <1>4 DEF NextDay, postVars, runVars
  <1>5. CASE Crash
    <2>1. post' \in [Posts -> [step : {"new", "insert", "replay", "done"}, ref : Refs \cup {NoRef}]]
      <3>1. ASSUME NEW p \in Posts
            PROVE  [post[p] EXCEPT !.step = "done"] \in
                     [step : {"new", "insert", "replay", "done"}, ref : Refs \cup {NoRef}]
        OBVIOUS
      <3>. QED
        BY <1>5, <3>1 DEF Crash
    <2>2. run' \in [Runs -> [step : {"new", "pick", "collect", "total", "done"},
                             first : Days, last : Days]]
      BY <1>5 DEF Crash, IdleRun
    <2>. QED
      BY <1>5, <2>1, <2>2 DEF Crash
  <1>6. CASE UNCHANGED vars
    BY <1>6 DEF vars, postVars, runVars
  <1>. QED
    BY <1>1, <1>2, <1>3, <1>4, <1>5, <1>6 DEF Next, PostStep, RunStep

-------------------------------------------------------------------------------
LEMMA PostInit == Init => PostInv
  BY DEF Init, PostInv, OneInsert, PostingIsIdempotent, Entries, NoEntry, IdlePost

(* Answering p with an entry of its reference. *)
LEMMA AnswerKeeps ==
  ASSUME Shape, PostInv, NEW p \in Posts, NEW e \in Entries, NEW ref \in Refs \cup {NoRef},
         entry[e].ref = ref, entry[p] = NoEntry,
         reply' = [reply EXCEPT ![p] = e],
         post' = [post EXCEPT ![p] = [step |-> "done", ref |-> ref]], UNCHANGED entry
  PROVE  PostInv'
  <1>. USE DEF PostInv, Shape
  <1>1. OneInsert'
    BY DEF OneInsert
  <1>2. PostingIsIdempotent'
    BY DEF PostingIsIdempotent, Entries
  <1>. QED
    BY <1>1, <1>2

LEMMA PostNext ==
  ASSUME Shape, PostInv, [Next]_vars
  PROVE  PostInv'
  <1>. USE DEF Shape
  <1>1. ASSUME NEW p \in Posts, NEW ref \in Refs, FindByRef(p, ref)
        PROVE  PostInv'
    <2>1. CASE WithRef(ref) = {}
      BY <1>1, <2>1 DEF FindByRef, PostInv, PostAt, OneInsert, PostingIsIdempotent, Entries
    <2>2. CASE WithRef(ref) # {}
      <3>1. PICK e \in WithRef(ref) : reply' = [reply EXCEPT ![p] = e]
        BY <1>1, <2>2 DEF FindByRef
      <3>2. entry[p] = NoEntry
        BY <1>1 DEF FindByRef, PostAt, PostInv, OneInsert
      <3>. QED
        BY <1>1, <2>2, <3>1, <3>2, AnswerKeeps DEF FindByRef, WithRef
    <2>. QED
      BY <2>1, <2>2
  <1>2. ASSUME NEW p \in Posts, SkipFind(p)
        PROVE  PostInv'
    BY <1>2
    DEF SkipFind, PostGoes, PostInv, PostAt, OneInsert, PostingIsIdempotent, Entries
  <1>3. ASSUME NEW p \in Posts, NEW a \in Amounts, Insert(p, a)
        PROVE  PostInv'
    <2>1. CASE post[p].ref # NoRef /\ WithRef(post[p].ref) # {}
      <3>1. /\ post' = [post EXCEPT ![p] = [step |-> "replay", ref |-> post[p].ref]]
            /\ UNCHANGED <<entry, reply>> /\ post[p].step = "insert"
        BY <1>3, <2>1 DEF Insert, PostGoes, PostAt
      <3>2. OneInsert' /\ \A q \in Posts : post'[q].ref = post[q].ref
        BY <3>1 DEF PostInv, OneInsert
      <3>. QED
        BY <3>1, <3>2 DEF PostInv, PostingIsIdempotent, Entries
    <2>2. CASE ~(post[p].ref # NoRef /\ WithRef(post[p].ref) # {})
      <3>. DEFINE new == [ref |-> post[p].ref, day |-> today, amount |-> a]
      <3>1. /\ entry' = [entry EXCEPT ![p] = new]
            /\ reply' = [reply EXCEPT ![p] = p]
            /\ post' = [post EXCEPT ![p] = [step |-> "done", ref |-> post[p].ref]]
            /\ entry[p] = NoEntry
        BY <1>3, <2>2 DEF Insert, Answer, PostGoes, PostInv, OneInsert, PostAt
      <3>2. new # NoEntry /\ new.ref = post[p].ref
        BY DEF NoEntry, Days
      <3>. HIDE DEF new
      <3>3. /\ Entries' = Entries \cup {p} /\ p \notin Entries
            /\ \A q \in Entries : entry'[q] = entry[q]
        BY <3>1, <3>2 DEF Entries
      <3>4. OneInsert'
        BY <3>1 DEF PostInv, OneInsert
      <3>5. ASSUME NEW q \in Entries, entry[q].ref = post[p].ref
            PROVE  entry[q].ref = NoRef
        BY <2>2, <3>5 DEF WithRef
      <3>6. \A q, s \in Entries' : entry'[q].ref = entry'[s].ref /\ entry'[q].ref # NoRef => q = s
        BY <3>1, <3>2, <3>3, <3>5 DEF PostInv, PostingIsIdempotent
      <3>7. \A q \in Posts : reply'[q] # Nobody =>
              reply'[q] \in Entries' /\ entry'[reply'[q]].ref = post'[q].ref
        BY <3>1, <3>2, <3>3 DEF PostInv, PostingIsIdempotent
      <3>. QED
        BY <3>4, <3>6, <3>7 DEF PostInv, PostingIsIdempotent
    <2>. QED
      BY <2>1, <2>2
  <1>4. ASSUME NEW p \in Posts, Replay(p)
        PROVE  PostInv'
    <2>1. PICK e \in WithRef(post[p].ref) : Answer(p, e)
      BY <1>4 DEF Replay
    <2>2. entry[p] = NoEntry
      BY <1>4 DEF Replay, PostAt, PostInv, OneInsert
    <2>. QED
      BY <1>4, <2>1, <2>2, AnswerKeeps DEF Replay, Answer, PostGoes, WithRef
  <1>5. CASE Crash
    <2>1. \A p \in Posts : post'[p].ref = post[p].ref
                            /\ (post'[p].step # "done" => post[p].step # "done")
      BY <1>5 DEF Crash
    <2>. QED
      BY <1>5, <2>1 DEF Crash, PostInv, OneInsert, PostingIsIdempotent, Entries
  <1>6. CASE UNCHANGED postVars
    BY <1>6 DEF postVars, PostInv, OneInsert, PostingIsIdempotent, Entries
  <1>7. ASSUME NEW t \in Runs, RunStep(t)
        PROVE  UNCHANGED postVars
    BY <1>7 DEF RunStep, BeginRun, Pick, Collect, FinishRun
  <1>. QED
    BY <1>1, <1>2, <1>3, <1>4, <1>5, <1>6, <1>7 DEF Next, PostStep, NextDay, vars

(* A client that posts an entry any number of times, at once or one after  *)
(* the other, leaves one entry and is always answered with it.             *)
THEOREM PostedOnce == Spec => []PostingIsIdempotent
  <1>1. Init => Shape /\ PostInv
    BY ShapeInit, PostInit
  <1>2. Shape /\ PostInv /\ [Next]_vars => (Shape /\ PostInv)'
    BY ShapeNext, PostNext
  <1>3. Shape /\ PostInv => PostingIsIdempotent
    BY DEF PostInv
  <1>. QED
    BY <1>1, <1>2, <1>3, PTL DEF Spec

-------------------------------------------------------------------------------
LEMMA RunInit == Init => RunInv
  BY DEF Init, RunInv, LeftAsideIsSettled, LinesArePicked, SharedIsContended, NothingLeftOut,
         CollectedTwiceOnlyIfContended, Open, Committed, RunAt, IdleRun

LEMMA UnionOfSame ==
  ASSUME NEW C, NEW f, NEW g, \A u \in C : f[u] = g[u]
  PROVE  UNION {f[u] : u \in C} = UNION {g[u] : u \in C}
OBVIOUS

(* What is settled depends on the lines of committed runs only. *)
LEMMA SettledStays ==
  ASSUME Committed' = Committed, \A u \in Committed : lines'[u] = lines[u]
  PROVE  Settled' = Settled
BY UnionOfSame DEF Settled

LEMMA RunNext ==
  ASSUME Shape, RunInv, [Next]_vars
  PROVE  RunInv'
  <1>. USE DEF Shape, RunInv, LeftAsideIsSettled, LinesArePicked, SharedIsContended,
               NothingLeftOut, CollectedTwiceOnlyIfContended
  <1>1. ASSUME NEW t \in Runs, NEW first \in Days, NEW last \in Days, BeginRun(t, first, last)
        PROVE  RunInv'
    <2>1. Committed' = Committed /\ Settled' = Settled /\ \A u \in Runs : Open(u)' => Open(u)
      BY <1>1 DEF BeginRun, Committed, Settled, RunAt, Open
    <2>2. \A u \in Runs : run'[u].step = "total" => run[u].step = "total"
      BY <1>1 DEF BeginRun
    <2>. QED
      BY <1>1, <2>1, <2>2 DEF BeginRun
  <1>2. ASSUME NEW t \in Runs, Pick(t)
        PROVE  RunInv'
    <2>1. /\ Committed' = Committed /\ Settled' = Settled /\ t \notin Committed
          /\ \A u \in Runs \ {t} : /\ Open(u)' = Open(u) /\ run'[u] = run[u]
                                    /\ picked'[u] = picked[u] /\ due'[u] = due[u]
          /\ run'[t].step = "collect" /\ lines' = lines
      BY <1>2 DEF Pick, RunGoes, Committed, Settled, RunAt, Open
    <2>2. due'[t] \subseteq picked'[t] \cup Settled /\ picked'[t] \cap Settled = {}
      BY <1>2 DEF Pick
    <2>3. contended' = contended \cup (picked'[t] \cap Collecting(t))
      BY <1>2 DEF Pick
    <2>4. \A u \in Runs \ {t} : Open(u) => picked[u] \subseteq Collecting(t)
      BY DEF Collecting, RunAt, Open
    <2>5. \A u \in Committed : picked'[t] \cap lines[u] = {}
      BY <2>2 DEF Settled
    <2>6. LeftAsideIsSettled' /\ LinesArePicked' /\ NothingLeftOut'
      BY <2>1, <2>2 DEF Committed
    <2>7. SharedIsContended'
      <3>1. ASSUME NEW u \in Runs, NEW w \in Runs, u # w, Open(u)', Open(w)'
            PROVE  picked'[u] \cap picked'[w] \subseteq contended'
        <4>1. CASE u # t /\ w # t
          BY <2>1, <2>3, <3>1, <4>1
        <4>2. CASE u = t
          BY <2>1, <2>3, <2>4, <3>1, <4>2
        <4>3. CASE w = t
          BY <2>1, <2>3, <2>4, <3>1, <4>3
        <4>. QED
          BY <4>1, <4>2, <4>3
      <3>2. ASSUME NEW u \in Runs, NEW w \in Committed, Open(u)'
            PROVE  picked'[u] \cap lines'[w] \subseteq contended'
        <4>1. CASE u = t
          BY <2>1, <2>5, <4>1
        <4>2. CASE u # t
          BY <2>1, <2>3, <3>2, <4>2
        <4>. QED
          BY <4>1, <4>2
      <3>. QED
        BY <2>1, <3>1, <3>2
    <2>8. CollectedTwiceOnlyIfContended'
      BY <2>1, <2>3
    <2>. QED
      BY <2>6, <2>7, <2>8
  <1>3. ASSUME NEW t \in Runs, Collect(t)
        PROVE  RunInv'
    <2>1. /\ Committed' = Committed /\ t \notin Committed
          /\ \A u \in Runs : Open(u)' = Open(u)
          /\ \A u \in Runs \ {t} : run'[u] = run[u] /\ lines'[u] = lines[u]
          /\ lines'[t] = picked[t]
          /\ UNCHANGED <<picked, due, contended>>
      BY <1>3 DEF Collect, RunGoes, Committed, RunAt, Open
    <2>2. Settled' = Settled
      <3>1. \A u \in Committed : lines'[u] = lines[u]
        BY <2>1 DEF Committed
      <3>. QED
        BY <2>1, <3>1, SettledStays
    <2>3. \A u \in Committed : u # t /\ lines'[u] = lines[u]
      BY <2>1 DEF Committed
    <2>4. LeftAsideIsSettled' /\ NothingLeftOut'
      BY <2>1, <2>2, <2>3
    <2>5. LinesArePicked'
      BY <2>1
    <2>6. SharedIsContended'
      <3>1. ASSUME NEW u \in Runs, NEW w \in Committed, Open(u)'
            PROVE  picked'[u] \cap lines'[w] \subseteq contended'
        BY <2>1, <2>3, <3>1
      <3>. QED
        BY <2>1, <3>1
    <2>7. CollectedTwiceOnlyIfContended'
      BY <2>1, <2>3
    <2>. QED
      BY <2>4, <2>5, <2>6, <2>7
  <1>4. ASSUME NEW t \in Runs, FinishRun(t)
        PROVE  RunInv'
    <2>1. /\ Committed' = Committed \cup {t} /\ t \notin Committed
          /\ Open(t) /\ ~Open(t)' /\ lines[t] = picked[t]
          /\ \A u \in Runs \ {t} : run'[u] = run[u] /\ Open(u)' = Open(u)
          /\ UNCHANGED <<picked, due, lines, contended>>
          /\ run'[t].step = "done"
      BY <1>4 DEF FinishRun, RunGoes, Committed, RunAt, Open
    <2>2. Settled' = Settled \cup lines[t]
      BY <2>1 DEF Settled
    <2>3. LeftAsideIsSettled' /\ LinesArePicked' /\ NothingLeftOut'
      BY <2>1, <2>2
    <2>4. SharedIsContended'
      <3>1. \A u, w \in Runs : u # w /\ Open(u)' /\ Open(w)' => u # t /\ w # t /\ Open(u) /\ Open(w)
        BY <2>1
      <3>2. ASSUME NEW u \in Runs, NEW w \in Committed', Open(u)'
            PROVE  picked'[u] \cap lines'[w] \subseteq contended'
        <4>1. u # t /\ Open(u)
          BY <2>1, <3>2
        <4>2. CASE w = t
          BY <2>1, <4>1, <4>2
        <4>3. CASE w \in Committed
          BY <2>1, <4>1, <4>3
        <4>. QED
          BY <2>1, <4>2, <4>3
      <3>. QED
        BY <2>1, <3>1, <3>2
    <2>5. CollectedTwiceOnlyIfContended'
      BY <2>1 DEF Committed
    <2>. QED
      BY <2>3, <2>4, <2>5
  <1>5. CASE Crash
    <2>1. /\ Committed' = Committed /\ \A u \in Committed : lines'[u] = lines[u]
          /\ \A u \in Runs : ~Open(u)' /\ run'[u].step # "total"
          /\ UNCHANGED <<due, contended>>
      BY <1>5 DEF Crash, Committed, RunAt, Open, IdleRun
    <2>2. Settled' = Settled
      BY <2>1, SettledStays
    <2>. QED
      BY <2>1, <2>2
  <1>6. CASE UNCHANGED runVars
    BY <1>6 DEF runVars, Open, Committed, Settled, RunAt
  <1>7. ASSUME NEW p \in Posts, PostStep(p)
        PROVE  UNCHANGED runVars
    BY <1>7 DEF PostStep, FindByRef, SkipFind, Insert, Replay
  <1>. QED
    BY <1>1, <1>2, <1>3, <1>4, <1>5, <1>6, <1>7 DEF Next, RunStep, NextDay, vars

(* Runs that overlap, roll back or follow each other never leave an entry  *)
(* to nobody: what was there when a run looked is settled once it commits. *)
THEOREM NoneLeftOut == Spec => []NothingLeftOut
  <1>1. Init => Shape /\ RunInv
    BY ShapeInit, RunInit
  <1>2. Shape /\ RunInv /\ [Next]_vars => (Shape /\ RunInv)'
    BY ShapeNext, RunNext
  <1>3. Shape /\ RunInv => NothingLeftOut
    BY DEF RunInv
  <1>. QED
    BY <1>1, <1>2, <1>3, PTL DEF Spec

(* Being collected at the same time is the only way an entry gets into two *)
(* settlements.                                                            *)
THEOREM TwiceOnlyIfContended == Spec => []CollectedTwiceOnlyIfContended
  <1>1. Init => Shape /\ RunInv
    BY ShapeInit, RunInit
  <1>2. Shape /\ RunInv /\ [Next]_vars => (Shape /\ RunInv)'
    BY ShapeNext, RunNext
  <1>3. Shape /\ RunInv => CollectedTwiceOnlyIfContended
    BY DEF RunInv
  <1>. QED
    BY <1>1, <1>2, <1>3, PTL DEF Spec
===============================================================================
