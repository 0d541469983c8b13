------------------------- MODULE PodWorkloadsProofs -------------------------
(***************************************************************************)
(* Proofs about the runs of PodWorkloads whose scripts fit together: for   *)
(* any command lines, numbers of containers and workers, and interleavings *)
(* of their steps, and with a worker that fails.                           *)
(*                                                                         *)
(* That the scripts fit (ScriptsFit) is a property of what a command line  *)
(* is expanded to, by recursion over its lists; it is a hypothesis of the  *)
(* theorems, and TLC checks it for every command line of the run.          *)
(***************************************************************************)
EXTENDS PodWorkloads, FiniteSetTheorems, TLAPS

Live == stage \in {"running", "finished", "failed"}

Blank ==
    /\ mains = <<>> /\ team = <<>> /\ main = <<>> /\ work = <<>> /\ pc = <<>>
    /\ raised = {} /\ dirs = {} /\ lost = {} /\ fault = "none" /\ skew = FALSE
    /\ round.command = "" /\ round.mains = {} /\ round.workers = {}

MainStates == {"start", "pending", "waiting", "timed", "forked", "done"}
WorkStates == {"unborn", "running", "waiting", "ended", "killed"}
Commands == {"", "tnet", "sync", "rslt"}

RoundOK ==
    /\ round.command \in Commands
    /\ round.mains \subseteq DOMAIN mains /\ round.workers \subseteq DOMAIN team
    /\ round.command = "" => round.mains = {} /\ round.workers = {}
    /\ round.mains # {} => round.command = "tnet"
    /\ round.workers # {} => round.command \in {"sync", "rslt"}

Awaited(command) == IF command = "sync" THEN "sync" ELSE "result"

\* A worker in the round is at the operation that the round is of.
RoundWaits ==
    /\ \A k \in round.mains : main[k] = "waiting"
    /\ \A w \in round.workers :
          work[w] = "waiting" /\ pc[w] \in DOMAIN team[w].ops /\ team[w].ops[pc[w]].op = Awaited(round.command)

Forks == \A w \in DOMAIN team : work[w] # "unborn" => main[team[w].main] \in {"forked", "done"}

Shape ==
    /\ stage \in {"options", "refused", "planned", "running", "finished", "failed"}
    /\ ~Live => Blank
    /\ Live => Fit
    /\ DOMAIN main = DOMAIN mains /\ DOMAIN work = DOMAIN team /\ DOMAIN pc = DOMAIN team
    /\ \A k \in DOMAIN main : main[k] \in MainStates
    /\ \A w \in DOMAIN work : work[w] \in WorkStates
    /\ \A w \in DOMAIN pc : pc[w] \in 1..(Len(team[w].ops) + 1)
    /\ raised \subseteq DOMAIN team /\ lost \subseteq DOMAIN team
    /\ \A d \in dirs : d.owner \in DOMAIN team
    /\ fault \in {"none"} \cup Faults /\ skew \in BOOLEAN

TInv == Shape /\ RoundOK /\ RoundWaits /\ Forks

-----------------------------------------------------------------------------
(***************************************************************************)
(* The steps, by what they do to the workers and the round.                *)
(***************************************************************************)
Same == UNCHANGED <<cfg, mains, team>>

\* A post fails the run, or joins the round, completes it, or finishes the run.
PostFails == stage' = "failed" /\ UNCHANGED <<main, work, pc, round, skew>>

PostJoins(command, ms, ws) ==
    /\ ~Complete(Joined(command, ms, ws)) /\ ~Fails(command)
    /\ stage' = stage /\ (skew' <=> skew) /\ skew' \in BOOLEAN /\ round' = Joined(command, ms, ws)
    /\ DOMAIN main' = DOMAIN main /\ DOMAIN work' = DOMAIN work /\ DOMAIN pc' = DOMAIN pc
    /\ \A k \in DOMAIN main : main'[k] = IF k \in ms THEN "waiting" ELSE main[k]
    /\ \A w \in DOMAIN work : work'[w] = IF w \in ws THEN "waiting" ELSE work[w]
    /\ \A w \in DOMAIN pc : pc'[w] = pc[w]

PostMeets(command, ms, ws) ==
    /\ Complete(Joined(command, ms, ws)) /\ ~Fails(command) /\ command # "rslt"
    /\ stage' = stage /\ round' = NewRound
    /\ (skew' <=> skew \/ OutOfStep(round.workers \cup ws)) /\ skew' \in BOOLEAN
    /\ DOMAIN main' = DOMAIN main /\ DOMAIN work' = DOMAIN work /\ DOMAIN pc' = DOMAIN pc
    /\ \A k \in DOMAIN main : main'[k] = IF k \in round.mains \cup ms THEN "timed" ELSE main[k]
    /\ \A w \in DOMAIN work : work'[w] = IF w \in round.workers \cup ws THEN "running" ELSE work[w]
    /\ \A w \in DOMAIN pc : pc'[w] = IF w \in round.workers \cup ws THEN pc[w] + 1 ELSE pc[w]

PostFinishes(command, ms, ws) ==
    /\ Complete(Joined(command, ms, ws)) /\ ~Fails(command) /\ command = "rslt"
    /\ stage' = "finished" /\ round' = NewRound
    /\ (skew' <=> skew \/ OutOfStep(round.workers \cup ws)) /\ skew' \in BOOLEAN
    /\ DOMAIN main' = DOMAIN main /\ DOMAIN work' = DOMAIN work /\ DOMAIN pc' = DOMAIN pc
    /\ \A k \in DOMAIN main : main'[k] = IF k \in ms THEN "waiting" ELSE main[k]
    /\ \A w \in DOMAIN work : work'[w] = IF w \in ws THEN "waiting" ELSE work[w]
    /\ \A w \in DOMAIN pc : pc'[w] = pc[w]

LEMMA PostCases ==
  ASSUME NEW command, NEW ms, NEW ws, Post(command, ms, ws)
  PROVE  \/ PostFails
         \/ PostJoins(command, ms, ws)
         \/ PostMeets(command, ms, ws)
         \/ PostFinishes(command, ms, ws)
<1>1. CASE Fails(command)
  BY <1>1 DEF Post, PostFails
<1> DEFINE r == Joined(command, ms, ws)
<1>2. r.mains = round.mains \cup ms /\ r.workers = round.workers \cup ws
  BY DEF Joined
<1>3. CASE ~Fails(command) /\ ~Complete(r)
  BY <1>3 DEF Post, PostJoins
<1>4. CASE ~Fails(command) /\ Complete(r) /\ command # "rslt"
  <2>1. /\ stage' = stage /\ round' = NewRound /\ skew' = (skew \/ OutOfStep(r.workers))
        /\ main' = [k \in DOMAIN main |-> IF k \in r.mains THEN "timed" ELSE IF k \in ms THEN "waiting" ELSE main[k]]
        /\ work' = [w \in DOMAIN work |-> IF w \in r.workers THEN "running" ELSE IF w \in ws THEN "waiting" ELSE work[w]]
        /\ pc' = [w \in DOMAIN pc |-> IF w \in r.workers THEN pc[w] + 1 ELSE pc[w]]
    BY <1>4 DEF Post
  <2> QED BY <1>2, <1>4, <2>1 DEF PostMeets
<1>5. CASE ~Fails(command) /\ Complete(r) /\ command = "rslt"
  BY <1>2, <1>5 DEF Post, PostFinishes
<1> QED BY <1>1, <1>3, <1>4, <1>5

LEMMA ScriptOK ==
  ASSUME Shape, stage \in {"running", "finished", "failed"}, NEW w \in DOMAIN team
  PROVE  /\ ScriptFits(w, team[w].ops)
         /\ Len(team[w].ops) \in Nat /\ DOMAIN team[w].ops = 1..Len(team[w].ops)
         /\ team[w].final \in 1..(Len(team[w].ops) + 1)
         /\ pc[w] \in 1..(Len(team[w].ops) + 1)
BY DEF Shape, Live, Fit, ScriptFits

LEMMA AtDomain ==
  ASSUME Shape, NEW w \in DOMAIN team, NEW op, At(w, op)
  PROVE  /\ stage = "running" /\ work[w] = "running"
         /\ pc[w] \in DOMAIN team[w].ops /\ team[w].ops[pc[w]].op = op
BY ScriptOK DEF At

\* Operations after which a worker goes on by itself.
Quiet ==
    {"clear", "make", "drop", "rmtree", "mkdir", "need", "connect", "serve", "probe", "start", "job", "clock"}

Advances(w, n) ==
    /\ stage = "running" /\ work[w] = "running"
    /\ pc[w] \in DOMAIN team[w].ops /\ team[w].ops[pc[w]].op \in Quiet
    /\ \/ n = pc[w] + 1
       \/ team[w].ops[pc[w]].op = "probe" /\ n = pc[w] + 2
       \/ team[w].ops[pc[w]].op = "clock" /\ n = Len(team[w].ops)
    /\ team[w].ops[pc[w]].op = "serve" => \E v \in DOMAIN team : work[v] \in Ended
    /\ pc' = [pc EXCEPT ![w] = n]
    /\ Same /\ UNCHANGED <<stage, main, work, raised, fault, round, skew>>

Falls(w) ==
    /\ stage = "running" /\ work[w] = "running"
    /\ pc[w] \in DOMAIN team[w].ops /\ team[w].ops[pc[w]].op \in {"need", "start", "raise", "job", "make"}
    /\ Raises(w) /\ Same /\ UNCHANGED <<dirs, lost>>
    /\ fault' = fault \/ (fault = "none" /\ fault' = "raise" /\ "raise" \in Faults)

Moves(w) ==
    \/ Clears(w) \/ Makes(w) \/ Drops(w) \/ RemovesOld(w) \/ MakesForProcess(w) \/ Needs(w)
    \/ Connects(w) \/ Serves(w) \/ Probes(w) \/ StartsDb(w) \/ Works(w) \/ ClockTicks(w) \/ Throws(w)
    \/ OpFails(w)

LEMMA ProceedsAdvances ==
  ASSUME NEW w, Proceeds(w), NEW op \in Quiet, stage = "running", work[w] = "running",
         pc[w] \in DOMAIN team[w].ops, team[w].ops[pc[w]].op = op,
         op = "serve" => \E v \in DOMAIN team : work[v] \in Ended
  PROVE  Advances(w, pc[w] + 1)
BY DEF Proceeds, Advances, Same, driverVars, podVars

LEMMA MovesCases ==
  ASSUME Shape, NEW w \in DOMAIN team, Moves(w)
  PROVE  (\E n : Advances(w, n)) \/ Falls(w)
<1>1. CASE Clears(w)
  BY <1>1, AtDomain, ProceedsAdvances DEF Clears, Quiet
<1>2. CASE Makes(w)
  BY <1>2, AtDomain, ProceedsAdvances DEF Makes, Quiet
<1>3. CASE Drops(w)
  BY <1>3, AtDomain, ProceedsAdvances DEF Drops, Quiet
<1>4. CASE RemovesOld(w)
  BY <1>4, AtDomain, ProceedsAdvances DEF RemovesOld, Quiet
<1>5. CASE MakesForProcess(w)
  BY <1>5, AtDomain, ProceedsAdvances DEF MakesForProcess, Quiet
<1>6. CASE Needs(w)
  <2>1. CASE Proceeds(w)
    BY <1>6, <2>1, AtDomain, ProceedsAdvances DEF Needs, Quiet
  <2>2. CASE Raises(w) /\ UNCHANGED fault
    BY <1>6, <2>2, AtDomain DEF Needs, Falls, Raises, Same, driverVars, podVars, fileVars
  <2> QED BY <1>6, <2>1, <2>2 DEF Needs
<1>7. CASE Connects(w)
  BY <1>7, AtDomain, ProceedsAdvances DEF Connects, Quiet
<1>8. CASE Serves(w)
  BY <1>8, AtDomain, ProceedsAdvances DEF Serves, ClientGone, Quiet
<1>9. CASE Probes(w)
  <2>1. At(w, "probe") BY <1>9 DEF Probes
  <2>2. pc' = [pc EXCEPT ![w] = pc[w] + 2] \/ pc' = [pc EXCEPT ![w] = pc[w] + 1]
    BY <1>9 DEF Probes
  <2>3. ASSUME NEW n, n = pc[w] + 1 \/ n = pc[w] + 2, pc' = [pc EXCEPT ![w] = n] PROVE Advances(w, n)
    <3>1. Same /\ UNCHANGED <<stage, main, work, raised, fault, round, skew>>
      BY <1>9 DEF Probes, Same, driverVars, podVars
    <3>2. /\ stage = "running" /\ work[w] = "running"
          /\ pc[w] \in DOMAIN team[w].ops /\ team[w].ops[pc[w]].op = "probe"
      BY <2>1, AtDomain
    <3> QED BY <2>3, <3>1, <3>2 DEF Advances, Quiet
  <2> QED BY <2>2, <2>3
<1>10. CASE StartsDb(w)
  <2>1. CASE Proceeds(w)
    BY <1>10, <2>1, AtDomain, ProceedsAdvances DEF StartsDb, Quiet
  <2>2. CASE Raises(w) /\ UNCHANGED fault
    BY <1>10, <2>2, AtDomain DEF StartsDb, Falls, Raises, Same, driverVars, podVars
  <2> QED BY <1>10, <2>1, <2>2 DEF StartsDb
<1>11. CASE Works(w)
  BY <1>11, AtDomain, ProceedsAdvances DEF Works, Quiet
<1>12. CASE ClockTicks(w)
  <2>1. CASE Proceeds(w)
    BY <1>12, <2>1, AtDomain, ProceedsAdvances DEF ClockTicks, Quiet
  <2>2. CASE ~Proceeds(w)
    <3>1. Advances(w, Len(team[w].ops))
      BY <1>12, <2>2, AtDomain DEF ClockTicks, Advances, Quiet, Same, driverVars, podVars
    <3> QED BY <3>1
  <2> QED BY <2>1, <2>2
<1>13. CASE Throws(w)
  BY <1>13, AtDomain DEF Throws, Falls, Raises, Same, driverVars, podVars, fileVars
<1>14. CASE OpFails(w)
  BY <1>14, AtDomain DEF OpFails, Falls, Raises, Same, driverVars, podVars, fileVars
<1> QED BY <1>1, <1>2, <1>3, <1>4, <1>5, <1>6, <1>7, <1>8, <1>9, <1>10, <1>11, <1>12, <1>13, <1>14 DEF Moves

\* Who posts what.
Posting ==
    \/ \E k \in DOMAIN mains : main[k] = "start" /\ Post("tnet", {k}, {})
    \/ \E w \in DOMAIN team : At(w, "sync") /\ Post("sync", {}, {w})
    \/ \E w \in DOMAIN team : At(w, "result") /\ Post("rslt", {}, {w})
    \/ PostFails

Posts == stage = "running" /\ Posting /\ Same /\ UNCHANGED <<raised, dirs, lost, fault>>

EndsWell(w) ==
    /\ stage = "running" /\ work[w] = "running" /\ pc[w] > Len(team[w].ops) /\ w \notin raised
    /\ work' = [work EXCEPT ![w] = "ended"]
    /\ Same /\ UNCHANGED <<stage, main, pc, round, skew, raised, dirs, lost, fault>>

MainDone(k) ==
    /\ stage = "running" /\ main[k] = "forked" /\ main' = [main EXCEPT ![k] = "done"]
    /\ \A w \in WorkersOf(k) : work[w] \in Ended
    /\ Same /\ UNCHANGED <<stage, work, pc, round, skew, raised, dirs, lost, fault>>

LEMMA FailPost == ASSUME NEW ms, NEW ws, Post("fail", ms, ws) PROVE PostFails
BY DEF Post, Fails, PostFails

LEMMA Steps ==
  ASSUME Shape, [Next]_vars
  PROVE  \/ UNCHANGED <<stage, cfg, mains, team, main, work, pc, raised, dirs, lost, fault, round, skew>>
         \/ Refuse \/ Plan \/ Create
         \/ Posts
         \/ \E k \in DOMAIN mains : MainForks(k) \/ MainDone(k)
         \/ \E w \in DOMAIN team : EndsWell(w) \/ Moves(w) \/ Killed(w)
<1>1. ASSUME NEW k \in DOMAIN mains, MainConnects(k) PROVE Posts
  BY <1>1 DEF MainConnects, Posts, Posting, Same, driverVars, podVars, fileVars
<1>2. ASSUME NEW k \in DOMAIN mains, MainAborts(k) PROVE Posts
  BY <1>2, FailPost DEF MainAborts, Posts, Posting, Same, driverVars, podVars, fileVars
<1>3. ASSUME NEW k \in DOMAIN mains, MainReaps(k) PROVE Posts \/ MainDone(k)
  BY <1>3, FailPost DEF MainReaps, Posts, Posting, MainDone, Same, driverVars, podVars, fileVars
<1>4. ASSUME NEW w \in DOMAIN team, Syncs(w) PROVE Posts
  BY <1>4 DEF Syncs, At, Posts, Posting, Same, driverVars, podVars, fileVars
<1>5. ASSUME NEW w \in DOMAIN team, Reports(w) PROVE Posts
  BY <1>5 DEF Reports, At, Posts, Posting, Same, driverVars, podVars, fileVars
<1>6. ASSUME NEW w \in DOMAIN team, Ends(w) PROVE Posts \/ EndsWell(w)
  BY <1>6, FailPost DEF Ends, Posts, Posting, EndsWell, Same, driverVars, podVars, fileVars
<1>7. CASE UNCHANGED vars
  BY <1>7 DEF vars
<1> QED BY <1>1, <1>2, <1>3, <1>4, <1>5, <1>6, <1>7 DEF Next, Driver, Pods, Fault, Moves
-----------------------------------------------------------------------------
(***************************************************************************)
(* Types, and the rounds.                                                  *)
(***************************************************************************)
LEMMA FitKept == ASSUME Fit, Same PROVE Fit'
<1>1. cfg' = cfg /\ mains' = mains /\ team' = team
  BY DEF Same
<1>2. Reporting' = Reporting
  BY <1>1 DEF Reporting
<1>3. \A w \in DOMAIN team : ScriptFits(w, team[w].ops) => ScriptFits(w, team[w].ops)'
  BY <1>1, <1>2 DEF ScriptFits
<1>4. TreesUsed' = TreesUsed /\ Clocked' = Clocked
  BY <1>1 DEF TreesUsed, Clocked
<1>5. ASSUME NEW v, NEW w PROVE TreesApart(v, w) => TreesApart(v, w)'
  <2>1. \A u, tree : Place(u, tree)' = Place(u, tree)
    BY <1>1 DEF Place, ClaimsAt
  <2>2. \A u : Homes(u)' = Homes(u)
    BY <1>1, <2>1 DEF Homes, Trees
  <2>3. \A u : ForProcess(u)' = ForProcess(u)
    BY <1>1, <2>1 DEF ForProcess, PodOf
  <2>4. \A u, op : MadeBy(u, op)' = MadeBy(u, op)
    BY <2>2, <2>3 DEF MadeBy
  <2> QED BY <1>1, <2>1, <2>3, <2>4 DEF TreesApart
<1>6. Unblocked(cfg)' = Unblocked(cfg) /\ Countable(cfg)' = Countable(cfg)
  BY <1>1 DEF Unblocked, Countable, Startable, OwnDirectories
<1>7. Flows => Flows'
  <2>1. /\ \A k : IsClient(k)' = IsClient(k) /\ ServersOf(k)' = ServersOf(k) /\ WorkersOf(k)' = WorkersOf(k)
    BY <1>1 DEF IsClient, ServersOf, WorkersOf
  <2> QED BY <1>1, <1>2, <2>1 DEF Flows, MainsFlow, ReportersFlow
<1> QED BY <1>1, <1>2, <1>3, <1>4, <1>5, <1>6, <1>7 DEF Fit, MainsFit, ReportersFit

\* A worker in the round, or one that joins it.
LEMMA PostRoundOK ==
  ASSUME TInv, Posts PROVE RoundOK'
<1> USE DEF TInv
<1>0. UNCHANGED <<mains, team>> BY DEF Posts, Same
<1>1. CASE PostFails
  BY <1>0, <1>1 DEF PostFails, RoundOK
<1>2. ASSUME NEW command \in {"tnet", "sync", "rslt"}, NEW ms, NEW ws, Post(command, ms, ws),
             ms \subseteq DOMAIN mains, ws \subseteq DOMAIN team,
             command = "tnet" => ws = {}, command # "tnet" => ms = {}
      PROVE  RoundOK'
  <2>1. CASE PostFails
    BY <1>1, <2>1
  <2>2. CASE PostJoins(command, ms, ws)
    <3>1. round' = [command |-> command, needed |-> round.needed,
                    mains |-> round.mains \cup ms, workers |-> round.workers \cup ws]
      BY <2>2 DEF PostJoins, Joined
    <3>2. round.command = "" \/ round.command = command
      BY <2>2 DEF PostJoins, Fails
    <3> QED BY <1>0, <1>2, <3>1, <3>2 DEF RoundOK, Commands
  <2>3. CASE round' = NewRound
    BY <1>0, <2>3 DEF RoundOK, NewRound, Commands
  <2> QED BY <1>2, <2>1, <2>2, <2>3, PostCases DEF PostMeets, PostFinishes
<1>3. ASSUME NEW k \in DOMAIN mains, Post("tnet", {k}, {}) PROVE RoundOK'
  BY <1>2, <1>3
<1>4. ASSUME NEW w \in DOMAIN team, Post("sync", {}, {w}) PROVE RoundOK'
  BY <1>2, <1>4
<1>5. ASSUME NEW w \in DOMAIN team, Post("rslt", {}, {w}) PROVE RoundOK'
  BY <1>2, <1>5
<1> QED BY <1>1, <1>3, <1>4, <1>5 DEF Posts, Posting

LEMMA PostTypes ==
  ASSUME TInv, Posts PROVE Shape' /\ RoundWaits' /\ Forks'
<1> USE DEF TInv
<1>0. /\ stage = "running" /\ cfg' = cfg /\ mains' = mains /\ team' = team
      /\ raised' = raised /\ dirs' = dirs /\ lost' = lost /\ fault' = fault
  BY DEF Posts, Same
<1>1. Fit' BY <1>0, FitKept DEF Shape, Live, Same
<1>2. CASE PostFails
  BY <1>0, <1>1, <1>2 DEF PostFails, Shape, Live, RoundWaits, Forks
<1>3. ASSUME NEW command \in {"tnet", "sync", "rslt"}, NEW ms, NEW ws, Post(command, ms, ws), ~PostFails,
             ms \subseteq DOMAIN mains, ws \subseteq DOMAIN team, command = "tnet" => ws = {},
             command # "tnet" => ms = {}, \A k \in ms : main[k] = "start", \A w \in ws : work[w] = "running",
             \A w \in ws : pc[w] \in DOMAIN team[w].ops /\ team[w].ops[pc[w]].op = Awaited(command)
      PROVE  Shape' /\ RoundWaits' /\ Forks'
  <2>1. /\ stage' \in {"running", "finished"} /\ skew' \in BOOLEAN
        /\ DOMAIN main' = DOMAIN main /\ DOMAIN work' = DOMAIN work /\ DOMAIN pc' = DOMAIN pc
    BY <1>0, <1>3, PostCases DEF PostJoins, PostMeets, PostFinishes
  <2>2. \A k \in DOMAIN main : main'[k] \in MainStates
    BY <1>3, PostCases DEF PostJoins, PostMeets, PostFinishes, Shape, MainStates
  <2>3. \A w \in DOMAIN work : work'[w] \in WorkStates
    BY <1>3, PostCases DEF PostJoins, PostMeets, PostFinishes, Shape, WorkStates
  <2>4. \A w \in DOMAIN pc : pc'[w] \in 1..(Len(team[w].ops) + 1)
    <3>1. ASSUME NEW w \in DOMAIN pc, PostMeets(command, ms, ws) PROVE pc'[w] \in 1..(Len(team[w].ops) + 1)
      <4>1. w \in DOMAIN team BY DEF Shape
      <4>2. CASE w \in round.workers \cup ws
        <5>1. pc[w] \in DOMAIN team[w].ops BY <1>3, <4>2 DEF RoundWaits
        <5>2. pc[w] \in 1..Len(team[w].ops) /\ Len(team[w].ops) \in Nat
          BY <1>0, <4>1, <5>1, ScriptOK
        <5>3. pc'[w] = pc[w] + 1 BY <3>1, <4>2 DEF PostMeets
        <5> QED BY <5>2, <5>3
      <4>3. CASE w \notin round.workers \cup ws
        BY <3>1, <4>3 DEF PostMeets, Shape
      <4> QED BY <4>2, <4>3
    <3>2. CASE PostJoins(command, ms, ws) \/ PostFinishes(command, ms, ws)
      BY <3>2 DEF PostJoins, PostFinishes, Shape
    <3> QED BY <1>3, <3>1, <3>2, PostCases
  <2>5. Shape'
    BY <1>0, <1>1, <2>1, <2>2, <2>3, <2>4 DEF Shape, Live
  <2>6. RoundWaits'
    <3>1. CASE round' = NewRound
      BY <3>1 DEF NewRound, RoundWaits
    <3>2. CASE PostJoins(command, ms, ws)
      <4>1. round'.command = command /\ round'.workers = round.workers \cup ws
        BY <3>2 DEF PostJoins, Joined
      <4>2. round.workers = {} \/ round.command = command
        BY <3>2 DEF PostJoins, Fails, RoundOK
      <4>4. \A k \in round.mains \cup ms : main'[k] = "waiting"
        BY <1>3, <3>2 DEF PostJoins, RoundWaits, RoundOK, Shape
      <4>5. round'.mains = round.mains \cup ms
        BY <3>2 DEF PostJoins, Joined
      <4>3. ASSUME NEW w \in round.workers \cup ws
            PROVE  /\ work'[w] = "waiting" /\ pc'[w] \in DOMAIN team'[w].ops
                   /\ team'[w].ops[pc'[w]].op = Awaited(command)
        <5>1. w \in DOMAIN work /\ w \in DOMAIN pc
          BY <1>3 DEF Shape, RoundOK
        <5> QED BY <1>0, <1>3, <3>2, <4>2, <5>1 DEF PostJoins, RoundWaits
      <4> QED BY <4>1, <4>3, <4>4, <4>5 DEF RoundWaits
    <3> QED BY <1>3, <3>1, <3>2, PostCases DEF PostMeets, PostFinishes
  <2>7. ASSUME NEW w \in DOMAIN team, work'[w] # "unborn" PROVE main'[team[w].main] \in {"forked", "done"}
    <3>1. w \in DOMAIN work BY DEF Shape
    <3>2. work[w] # "unborn"
      <4>1. CASE w \in round.workers \cup ws
        BY <1>3, <4>1 DEF RoundWaits
      <4>2. CASE w \notin round.workers \cup ws
        <5>1. ASSUME PostJoins(command, ms, ws) PROVE work'[w] = work[w]
          BY <3>1, <4>2, <5>1 DEF PostJoins
        <5>2. ASSUME PostMeets(command, ms, ws) PROVE work'[w] = work[w]
          BY <3>1, <4>2, <5>2 DEF PostMeets
        <5>3. ASSUME PostFinishes(command, ms, ws) PROVE work'[w] = work[w]
          BY <3>1, <4>2, <5>3 DEF PostFinishes
        <5> QED BY <1>3, <2>7, <5>1, <5>2, <5>3, PostCases
      <4> QED BY <4>1, <4>2
    <3>3. main[team[w].main] \in {"forked", "done"} /\ team[w].main \in DOMAIN main
      BY <1>0, <3>2, ScriptOK DEF Forks, ScriptFits, Shape
    <3>4. team[w].main \notin round.mains \cup ms
      BY <1>3, <3>3 DEF RoundWaits
    <3>5. ASSUME PostJoins(command, ms, ws) PROVE main'[team[w].main] = main[team[w].main]
      BY <3>3, <3>4, <3>5 DEF PostJoins
    <3>6. ASSUME PostMeets(command, ms, ws) PROVE main'[team[w].main] = main[team[w].main]
      BY <3>3, <3>4, <3>6 DEF PostMeets
    <3>7. ASSUME PostFinishes(command, ms, ws) PROVE main'[team[w].main] = main[team[w].main]
      BY <3>3, <3>4, <3>7 DEF PostFinishes
    <3> QED BY <1>3, <3>3, <3>5, <3>6, <3>7, PostCases
  <2> QED BY <1>0, <2>5, <2>6, <2>7 DEF Forks
<1>4. ASSUME NEW k \in DOMAIN mains, main[k] = "start", Post("tnet", {k}, {}), ~PostFails PROVE Shape' /\ RoundWaits' /\ Forks'
  BY <1>3, <1>4
<1>5. ASSUME NEW w \in DOMAIN team, At(w, "sync"), Post("sync", {}, {w}), ~PostFails PROVE Shape' /\ RoundWaits' /\ Forks'
  BY <1>3, <1>5, AtDomain DEF Awaited
<1>6. ASSUME NEW w \in DOMAIN team, At(w, "result"), Post("rslt", {}, {w}), ~PostFails PROVE Shape' /\ RoundWaits' /\ Forks'
  BY <1>3, <1>6, AtDomain DEF Awaited
<1> QED BY <1>2, <1>4, <1>5, <1>6 DEF Posts, Posting

LEMMA BlankTypes ==
  ASSUME Blank, stage \in {"options", "refused", "planned"} PROVE TInv
<1>1. /\ main = <<>> /\ mains = <<>> /\ work = <<>> /\ pc = <<>> /\ team = <<>>
      /\ raised = {} /\ lost = {} /\ dirs = {} /\ fault = "none" /\ skew = FALSE
  BY DEF Blank
<1>2. DOMAIN << >> = {} OBVIOUS
<1>3. /\ DOMAIN main = {} /\ DOMAIN mains = {} /\ DOMAIN work = {} /\ DOMAIN pc = {} /\ DOMAIN team = {}
  BY <1>1, <1>2
<1>4. Shape
  BY <1>1, <1>3 DEF Shape, Live
<1>5. RoundOK /\ RoundWaits
  BY DEF Blank, RoundOK, RoundWaits, Commands
<1>6. Forks
  BY <1>3 DEF Forks
<1> QED BY <1>4, <1>5, <1>6 DEF TInv

LEMMA InitTInv == Init => TInv
<1> SUFFICES ASSUME Init PROVE TInv
  OBVIOUS
<1>1. round = [command |-> "", needed |-> 0, mains |-> {}, workers |-> {}]
  BY DEF Init
<1>2. round.command = "" /\ round.mains = {} /\ round.workers = {}
  BY <1>1
<1>3. Blank /\ stage = "options"
  BY <1>2 DEF Init, Blank
<1> QED BY <1>3, BlankTypes

LEMMA CreateTypes == ASSUME TInv, Create, ScriptsFit' PROVE TInv'
<1> USE DEF TInv
<1>1. Blank /\ stage' = "running" BY DEF Create, Shape, Live
<1>2. /\ mains' = Mains(cfg) /\ team' = Workers(cfg, Mains(cfg))
      /\ main' = [k \in DOMAIN Mains(cfg) |-> IF Mains(cfg)[k].starts THEN "start" ELSE "pending"]
      /\ work' = [w \in DOMAIN Workers(cfg, Mains(cfg)) |-> "unborn"]
      /\ pc' = [w \in DOMAIN Workers(cfg, Mains(cfg)) |-> 1]
      /\ round' = [round EXCEPT !.needed = InitialClients(cfg, Len(Nss(cfg)))]
      /\ UNCHANGED <<driverVars, raised, dirs, lost, db, fault, skew>>
  BY DEF Create
<1>3. round'.command = round.command /\ round'.mains = round.mains /\ round'.workers = round.workers
  BY <1>2
<1>4. /\ DOMAIN main' = DOMAIN mains' /\ DOMAIN work' = DOMAIN team' /\ DOMAIN pc' = DOMAIN team'
      /\ \A k \in DOMAIN main' : main'[k] \in {"start", "pending"}
      /\ \A w \in DOMAIN work' : work'[w] = "unborn"
      /\ \A w \in DOMAIN pc' : pc'[w] = 1
  BY <1>2
<1>5. Fit'
  BY <1>1, <1>3, <1>4 DEF ScriptsFit, JustCreated, Blank
<1>6. \A w \in DOMAIN team' : Len(team'[w].ops) \in Nat
  BY <1>5 DEF Fit, ScriptFits
<1>7. Shape'
  <2>1. raised' = {} /\ lost' = {} /\ dirs' = {} /\ fault' = "none" /\ skew' = FALSE
    BY <1>1, <1>2 DEF Blank
  <2>2. \A w \in DOMAIN pc' : pc'[w] \in 1..(Len(team'[w].ops) + 1)
    BY <1>4, <1>6
  <2> QED BY <1>1, <1>4, <1>5, <2>1, <2>2 DEF Shape, Live, MainStates, WorkStates
<1>8. RoundOK' /\ RoundWaits' /\ Forks'
  BY <1>1, <1>3, <1>4 DEF RoundOK, RoundWaits, Forks, Blank, Commands
<1> QED BY <1>7, <1>8

LEMMA FileOwners ==
  ASSUME Shape, NEW w \in DOMAIN team, Moves(w)
  PROVE  lost' \subseteq DOMAIN team /\ \A d \in dirs' : d.owner \in DOMAIN team
<1> USE DEF Shape
<1>1. ASSUME NEW removed, Removes(w, removed), removed \subseteq dirs
      PROVE  lost' \subseteq DOMAIN team /\ \A d \in dirs' : d.owner \in DOMAIN team
  BY <1>1 DEF Removes
<1>2. CASE Clears(w)
  BY <1>1, <1>2 DEF Clears
<1>3. CASE Makes(w)
  BY <1>3 DEF Makes, Homes
<1>4. CASE Drops(w)
  BY <1>4 DEF Drops, Removes, Homes
<1>5. CASE RemovesOld(w)
  BY <1>1, <1>5 DEF RemovesOld
<1>6. CASE MakesForProcess(w)
  BY <1>6 DEF MakesForProcess, ForProcess
<1>7. CASE UNCHANGED <<dirs, lost>>
  BY <1>7
<1> QED BY <1>2, <1>3, <1>4, <1>5, <1>6, <1>7
        DEF Moves, Needs, Connects, Serves, Probes, StartsDb, Works, ClockTicks, Throws, OpFails, fileVars

LEMMA MoveTypes ==
  ASSUME TInv, NEW w \in DOMAIN team, Moves(w) PROVE TInv'
<1> USE DEF TInv
<1>1. /\ stage = "running" /\ Same /\ UNCHANGED <<stage, main, work, round, skew>>
      /\ pc[w] \in DOMAIN team[w].ops /\ work[w] = "running"
      /\ raised' = raised \/ raised' = raised \cup {w}
      /\ fault' = fault \/ (fault' = "raise" /\ "raise" \in Faults)
      /\ \E n : pc' = [pc EXCEPT ![w] = n] /\ n \in 1..(Len(team[w].ops) + 1)
  <2>1. CASE Falls(w)
    <3> DEFINE n == IF pc[w] < team[w].final THEN team[w].final ELSE Len(team[w].ops) + 1
    <3>1. pc' = [pc EXCEPT ![w] = n] /\ raised' = raised \cup {w} /\ UNCHANGED <<stage, main, work, round, skew>>
      BY <2>1 DEF Falls, Raises
    <3>2. n \in 1..(Len(team[w].ops) + 1)
      BY <2>1, ScriptOK DEF Falls
    <3> HIDE DEF n
    <3> QED BY <2>1, <3>1, <3>2 DEF Falls
  <2>2. ASSUME NEW n, Advances(w, n) PROVE n \in 1..(Len(team[w].ops) + 1)
    <3>1. stage = "running" BY <2>2 DEF Advances
    <3>2. ScriptFits(w, team[w].ops) BY <3>1, ScriptOK
    <3>3. pc[w] \in 1..Len(team[w].ops) /\ Len(team[w].ops) \in Nat
      BY <2>2, <3>1, ScriptOK DEF Advances
    <3>4. team[w].ops[pc[w]].op = "probe" => pc[w] + 1 \in 1..Len(team[w].ops)
      BY <3>2, <3>3 DEF ScriptFits
    <3> QED BY <2>2, <3>3, <3>4 DEF Advances
  <2>3. CASE \E n : Advances(w, n)
    <3>1. PICK n : Advances(w, n) BY <2>3
    <3> QED BY <2>2, <3>1 DEF Advances
  <2> QED BY <2>1, <2>3, MovesCases
<1>2. cfg' = cfg /\ mains' = mains /\ team' = team BY <1>1 DEF Same
<1>3. Fit' BY <1>1, FitKept DEF Shape, Live
<1>4. \A v \in DOMAIN pc : pc'[v] \in 1..(Len(team[v].ops) + 1) /\ (v # w => pc'[v] = pc[v])
  BY <1>1 DEF Shape
<1>5. Shape'
  BY <1>1, <1>2, <1>3, <1>4, FileOwners DEF Shape, Live
<1>6. RoundWaits'
  <2>1. w \notin round.workers BY <1>1 DEF RoundWaits
  <2> QED BY <1>1, <1>2, <1>4, <2>1 DEF RoundWaits, RoundOK, Shape
<1> QED BY <1>1, <1>2, <1>5, <1>6 DEF RoundOK, Forks

LEMMA NextTInv == ASSUME TInv, [Next]_vars, ScriptsFit' PROVE TInv'
<1> USE DEF TInv
<1>1. CASE UNCHANGED <<stage, cfg, mains, team, main, work, pc, raised, dirs, lost, fault, round, skew>>
  <2>1. Fit => Fit' BY <1>1, FitKept DEF Same
  <2> QED BY <1>1, <2>1 DEF Shape, RoundOK, RoundWaits, Forks, Blank, Live
<1>2. CASE Refuse \/ Plan
  <2>1. Blank /\ ~Live /\ stage' \in {"refused", "planned"}
    BY <1>2 DEF Refuse, Plan, Shape, Live
  <2>2. UNCHANGED <<mains, team, main, work, pc, raised, dirs, lost, fault, round, skew>>
    BY <1>2 DEF Refuse, Plan, podVars
  <2> QED BY <2>1, <2>2 DEF Shape, RoundOK, RoundWaits, Forks, Blank, Live
<1>3. CASE Create
  BY <1>3, CreateTypes
<1>4. CASE Posts
  BY <1>4, PostRoundOK, PostTypes
<1>5. ASSUME NEW k \in DOMAIN mains, MainForks(k) PROVE TInv'
  <2>1. /\ stage = "running" /\ cfg' = cfg /\ mains' = mains /\ team' = team
        /\ UNCHANGED <<stage, pc, raised, dirs, lost, fault, round, skew>>
        /\ main[k] = "timed"
        /\ main' = [main EXCEPT ![k] = "forked"]
        /\ work' = [w \in DOMAIN work |-> IF w \in WorkersOf(k) THEN "running" ELSE work[w]]
    BY <1>5 DEF MainForks, driverVars, podVars, fileVars
  <2>2. Fit' BY <2>1, FitKept DEF Shape, Live, Same
  <2>3. \A w \in DOMAIN team : team[w].main \in DOMAIN main
    BY <2>1, ScriptOK DEF ScriptFits, Shape
  <2>4. \A w \in round.workers : w \notin WorkersOf(k)
    BY <2>1 DEF WorkersOf, RoundWaits, RoundOK, Forks
  <2>5. Shape' BY <2>1, <2>2 DEF Shape, Live, MainStates, WorkStates
  <2>6. RoundOK' /\ RoundWaits'
    BY <2>1, <2>4 DEF RoundOK, RoundWaits, Shape
  <2>7. Forks'
    BY <2>1, <2>3 DEF Forks, WorkersOf, Shape
  <2> QED BY <2>5, <2>6, <2>7
<1>6. ASSUME NEW k \in DOMAIN mains, MainDone(k) PROVE TInv'
  <2>1. Fit' BY <1>6, FitKept DEF Shape, Live, MainDone
  <2>2. /\ stage' = "running" /\ stage = "running" /\ cfg' = cfg /\ mains' = mains /\ team' = team
        /\ UNCHANGED <<work, pc, round, skew, raised, dirs, lost, fault>>
        /\ main[k] = "forked" /\ main' = [main EXCEPT ![k] = "done"]
    BY <1>6 DEF MainDone, Same
  <2>3. Shape' BY <2>1, <2>2 DEF Shape, Live, MainStates
  <2>4. RoundOK' /\ RoundWaits' BY <2>2 DEF RoundOK, RoundWaits, Shape
  <2>5. Forks'
    <3>1. \A w \in DOMAIN team : team[w].main \in DOMAIN main
      BY <2>2, ScriptOK DEF ScriptFits, Shape
    <3> QED BY <2>2, <3>1 DEF Forks
  <2> QED BY <2>3, <2>4, <2>5
<1>7. ASSUME NEW w \in DOMAIN team, EndsWell(w) PROVE TInv'
  <2>1. Fit' BY <1>7, FitKept DEF Shape, Live, EndsWell
  <2> QED BY <1>7, <2>1 DEF EndsWell, Same, Shape, Live, RoundOK, RoundWaits, Forks, WorkStates
<1>8. ASSUME NEW w \in DOMAIN team, Killed(w) PROVE TInv'
  <2>1. /\ stage = "running" /\ work[w] = "running" /\ cfg' = cfg /\ mains' = mains /\ team' = team
        /\ UNCHANGED <<stage, main, pc, raised, dirs, lost, round, skew>>
        /\ work' = [work EXCEPT ![w] = "killed"] /\ fault' \in Faults
    BY <1>8 DEF Killed, At, driverVars, podVars, fileVars
  <2>2. Fit' BY <2>1, FitKept DEF Shape, Live, Same
  <2> QED BY <2>1, <2>2 DEF Shape, Live, RoundOK, RoundWaits, Forks, WorkStates
<1> QED BY <1>1, <1>2, <1>3, <1>4, <1>5, <1>6, <1>7, <1>8, MoveTypes, Steps

\* Whatever the command line and the faults, every worker stays within its script, the round is of
\* main processes, of synchronization or of results, and those in it are processes of the run
\* (TypeOK).
THEOREM TypeCorrect == Spec /\ []ScriptsFit => []TypeOK
<1>1. TInv => TypeOK
  BY DEF TInv, Shape, RoundOK, TypeOK, MainStates, WorkStates, Commands
<1> QED BY <1>1, InitTInv, NextTInv, PTL DEF Spec

-----------------------------------------------------------------------------
(***************************************************************************)
(* The lockstep.                                                           *)
(***************************************************************************)
Expected == ExpectedClients(cfg, Len(Nss(cfg)))

\* Once a main process has met the others, a round is of those that report.
Counted == (\E k \in DOMAIN main : main[k] \in {"timed", "forked", "done"}) => round.needed = Expected

\* A worker has passed none of the operations that stop it, unless by an exception or the clock.
Where ==
    \A w \in DOMAIN team :
        IF w \in raised THEN pc[w] >= team[w].final
        ELSE \/ NoneTo(team[w].ops, pc[w], Stopping)
             \/ Has(team[w].ops, {"clock"}) /\ pc[w] = Len(team[w].ops)

\* So none has ended but one that was killed, and one that does not report is where it began.
NotEnded == fault # "kill" => \A w \in DOMAIN work : work[w] \notin Ended

Idle == NoneAnswers => \A w \in DOMAIN team \ Reporting : pc[w] = 1 /\ w \notin raised

AtResult(w) == pc[w] \in DOMAIN team[w].ops /\ team[w].ops[pc[w]].op = "result"

\* Those that report have been in the same rounds, but for one that the clock has sent to its
\* result.
Lockstep ==
    NoneAnswers =>
        \A v, w \in Reporting \ raised :
            ~Clocked \/ (~AtResult(v) /\ ~AtResult(w)) =>
                SyncsTo(team[v].ops, pc[v]) = SyncsTo(team[w].ops, pc[w])

\* Only an exception takes a worker to a round out of step, and then it never reports.
Skewed == skew /\ NoneAnswers => raised \cap Reporting # {}

AllReported ==
    stage = "finished" /\ NoneAnswers =>
        \A w \in Reporting : w \notin raised /\ pc[w] \in DOMAIN team[w].ops /\ FirstResult(team[w].ops, pc[w])

\* A directory's owner has passed the operation that makes it.
Made ==
    \A d \in dirs : \E j \in 1..(pc[d.owner] - 1) : d \in MadeBy(d.owner, team[d.owner].ops[j].op)

NoneLost == lost # {} /\ OwnDirectories(cfg) => raised # {}

IInv == TInv /\ Counted /\ Where /\ NotEnded /\ Idle /\ Lockstep /\ Skewed /\ AllReported /\ Made /\ NoneLost

LEMMA SyncsFinite ==
  ASSUME NEW ops, NEW i \in Nat
  PROVE  IsFiniteSet({j \in 1..(i - 1) : ops[j].op = "sync"}) /\ SyncsTo(ops, i) \in Nat
<1>1. IsFiniteSet(1..(i - 1)) BY FS_Interval
<1>2. {j \in 1..(i - 1) : ops[j].op = "sync"} \subseteq 1..(i - 1) OBVIOUS
<1>3. IsFiniteSet({j \in 1..(i - 1) : ops[j].op = "sync"}) BY <1>1, <1>2, FS_Subset
<1> QED BY <1>3, FS_CardinalityType DEF SyncsTo

LEMMA SyncsNext ==
  ASSUME NEW ops, NEW i \in Nat \ {0}
  PROVE  SyncsTo(ops, i + 1) = IF ops[i].op = "sync" THEN SyncsTo(ops, i) + 1 ELSE SyncsTo(ops, i)
<1> DEFINE S(k) == {j \in 1..(k - 1) : ops[j].op = "sync"}
<1>1. CASE ops[i].op = "sync"
  <2>1. S(i + 1) = S(i) \cup {i} /\ i \notin S(i) BY <1>1
  <2>2. IsFiniteSet(S(i)) BY SyncsFinite
  <2> HIDE DEF S
  <2>3. Cardinality(S(i + 1)) = Cardinality(S(i)) + 1 BY <2>1, <2>2, FS_AddElement
  <2> QED BY <1>1, <2>3 DEF SyncsTo, S
<1>2. CASE ops[i].op # "sync"
  <2>1. S(i + 1) = S(i) BY <1>2
  <2> QED BY <1>2, <2>1 DEF SyncsTo
<1> QED BY <1>1, <1>2

LEMMA SyncsGrow ==
  ASSUME NEW ops, NEW i \in Nat, NEW k \in Nat, i <= k
  PROVE  SyncsTo(ops, i) <= SyncsTo(ops, k)
<1>1. {j \in 1..(i - 1) : ops[j].op = "sync"} \subseteq {j \in 1..(k - 1) : ops[j].op = "sync"}
  OBVIOUS
<1> QED BY <1>1, SyncsFinite, FS_Subset DEF SyncsTo

\* Where a worker is that no exception has moved.
LEMMA WhereRuns ==
  ASSUME TInv, Where, stage \in {"running", "finished", "failed"}, NEW w \in DOMAIN team, w \notin raised
  PROVE  /\ pc[w] \in DOMAIN team[w].ops
         /\ team[w].ops[pc[w]].op \notin Stopping => NoneTo(team[w].ops, pc[w], Stopping)
         /\ AtResult(w) => FirstResult(team[w].ops, pc[w])
<1> DEFINE ops == team[w].ops
<1>1. /\ ScriptFits(w, ops) /\ Len(ops) \in Nat /\ DOMAIN ops = 1..Len(ops) /\ pc[w] \in 1..(Len(ops) + 1)
  BY ScriptOK DEF TInv
<1>2. CASE NoneTo(ops, pc[w], Stopping)
  <2>1. PICK i \in DOMAIN ops : ops[i].op \in Stopping
    BY <1>1 DEF ScriptFits, Has
  <2>2. ~(i \in 1..(pc[w] - 1))
    BY <1>2, <2>1 DEF NoneTo
  <2>3. pc[w] \in DOMAIN ops
    BY <1>1, <2>1, <2>2
  <2> QED BY <1>2, <2>3 DEF AtResult, FirstResult, NoneTo, Stopping
<1>3. CASE Has(ops, {"clock"}) /\ pc[w] = Len(ops)
  <2>1. FirstResult(ops, Len(ops))
    BY <1>1, <1>3 DEF ScriptFits
  <2>2. Len(ops) \in DOMAIN ops
    BY <1>1, <1>3 DEF Has
  <2> QED BY <1>3, <2>1, <2>2 DEF FirstResult, Stopping
<1> QED BY <1>2, <1>3 DEF Where

\* In its final part a worker reports nothing.
LEMMA RaisedReportsNot ==
  ASSUME TInv, Where, stage \in {"running", "finished", "failed"}, NEW w \in raised
  PROVE  ~AtResult(w)
<1>1. w \in DOMAIN team /\ pc[w] >= team[w].final
  BY DEF TInv, Shape, Where
<1>2. ScriptFits(w, team[w].ops)
  BY <1>1, ScriptOK DEF TInv
<1> QED BY <1>1, <1>2 DEF ScriptFits, AtResult

LEMMA Kept ==
  ASSUME Same
  PROVE  /\ Reporting' = Reporting /\ Expected' = Expected /\ Clocked' = Clocked
         /\ \A v, op : MadeBy(v, op)' = MadeBy(v, op)
<1>1. cfg' = cfg /\ mains' = mains /\ team' = team BY DEF Same
<1>2. Reporting' = Reporting /\ Expected' = Expected BY <1>1 DEF Reporting, Expected
<1>3. Clocked' = Clocked BY <1>1 DEF Clocked
<1>4. ASSUME NEW v, NEW tree PROVE Place(v, tree)' = Place(v, tree)
  BY <1>1 DEF Place, ClaimsAt
<1>5. ASSUME NEW v PROVE Homes(v)' = Homes(v)
  BY <1>1, <1>4 DEF Homes, Trees
<1>6. ASSUME NEW v PROVE ForProcess(v)' = ForProcess(v)
  BY <1>1, <1>4 DEF ForProcess, PodOf
<1> QED BY <1>2, <1>3, <1>5, <1>6 DEF MadeBy

LEMMA AnswersKept ==
  ASSUME Same, fault' = fault \/ fault = "none", NoneAnswers'
  PROVE  NoneAnswers
BY DEF NoneAnswers, Same

\* A round of the workers waits for all that report, and only for them.
LEMMA AllIn ==
  ASSUME TInv, Counted, Idle, NoneAnswers, NEW w \in DOMAIN team, NEW op \in {"sync", "result"}, At(w, op),
         NEW command, command = IF op = "sync" THEN "sync" ELSE "rslt",
         ~Fails(command), Complete(Joined(command, {}, {w}))
  PROVE  /\ round.workers \cup {w} = Reporting
         /\ \A v \in Reporting : pc[v] \in DOMAIN team[v].ops /\ team[v].ops[pc[v]].op = op
<1>1. stage = "running" /\ work[w] = "running" /\ pc[w] \in DOMAIN team[w].ops /\ team[w].ops[pc[w]].op = op
  BY AtDomain DEF TInv
<1>2. round.command = "" \/ round.command = command
  BY DEF Fails
<1>3. round.mains = {} /\ \A v \in round.workers : pc[v] \in DOMAIN team[v].ops /\ team[v].ops[pc[v]].op = op
  BY <1>2 DEF TInv, RoundOK, RoundWaits, Awaited
<1>4. ASSUME NEW v \in round.workers \cup {w} PROVE v \in Reporting
  <2>1. v \in DOMAIN team /\ pc[v] \in DOMAIN team[v].ops /\ team[v].ops[pc[v]].op = op
    BY <1>1, <1>3 DEF TInv, RoundOK
  <2>2. ScriptFits(v, team[v].ops)
    BY <1>1, <2>1, ScriptOK DEF TInv
  <2> QED BY <2>1, <2>2 DEF Idle, ScriptFits
<1>5. round.needed = Expected
  <2>1. ScriptFits(w, team[w].ops)
    BY <1>1, ScriptOK DEF TInv
  <2>2. team[w].main \in DOMAIN main /\ main[team[w].main] \in {"forked", "done"}
    BY <1>1, <2>1 DEF TInv, Forks, Shape, ScriptFits
  <2> QED BY <2>2 DEF Counted
<1>6. IsFiniteSet(Reporting) /\ Cardinality(Reporting) = Expected
  <2>1. Fit BY <1>1 DEF TInv, Shape, Live
  <2>2. IsFiniteSet(DOMAIN team)
    BY <2>1, FS_Interval DEF Fit, ReportersFit
  <2>3. Reporting \subseteq DOMAIN team BY DEF Reporting, Reporters
  <2> QED BY <1>4, <2>1, <2>2, <2>3, FS_Subset DEF Fit, Expected, ReportersFit
<1>7. Cardinality({}) + Cardinality(round.workers \cup {w}) = Expected
  <2>1. round.mains \cup {} = {} BY <1>3
  <2> QED BY <1>5, <2>1 DEF Complete, Joined
<1>8. round.workers \cup {w} \subseteq Reporting /\ Cardinality(round.workers \cup {w}) = Cardinality(Reporting)
  BY <1>4, <1>6, <1>7, FS_EmptySet, FS_Subset, FS_CardinalityType
<1>9. round.workers \cup {w} = Reporting
  BY <1>6, <1>8, FS_Subset
<1> QED BY <1>1, <1>3, <1>9

LEMMA SameStep ==
  ASSUME TInv, stage \in {"running", "finished", "failed"}, NEW v \in Reporting, NEW w \in Reporting,
         pc[v] \in DOMAIN team[v].ops, pc[w] \in DOMAIN team[w].ops,
         \/ /\ team[v].ops[pc[v]].op = "sync" /\ team[w].ops[pc[w]].op = "sync"
            /\ SyncsTo(team[v].ops, pc[v]) = SyncsTo(team[w].ops, pc[w])
         \/ FirstResult(team[v].ops, pc[v]) /\ FirstResult(team[w].ops, pc[w])
  PROVE  Phase(v) = Phase(w)
<1>1. SameSteps(team[v].ops, team[w].ops)
  BY DEF TInv, Shape, Live, Fit
<1> QED BY <1>1 DEF SameSteps, Phase

-----------------------------------------------------------------------------
\* What a post does to those it releases.
LEMMA MeetsSync ==
  ASSUME IInv, NoneAnswers, NEW w \in DOMAIN team, At(w, "sync"), PostMeets("sync", {}, {w})
  PROVE  /\ \A v \in Reporting : pc'[v] = pc[v] + 1 /\ team[v].ops[pc[v]].op = "sync" /\ pc[v] \in DOMAIN team[v].ops
         /\ skew' => skew \/ raised \cap Reporting # {}
<1>1. stage = "running"
  BY AtDomain DEF IInv, TInv
<1>2. /\ round.workers \cup {w} = Reporting
      /\ \A v \in Reporting : pc[v] \in DOMAIN team[v].ops /\ team[v].ops[pc[v]].op = "sync"
  BY AllIn DEF IInv, PostMeets
<1>3. Reporting \subseteq DOMAIN pc
  BY DEF Reporting, Reporters, IInv, TInv, Shape
<1>4. \A v \in Reporting : pc'[v] = pc[v] + 1
  BY <1>2, <1>3 DEF PostMeets
<1>5. ASSUME raised \cap Reporting = {} PROVE ~OutOfStep(Reporting)
  <2>1. ASSUME NEW u \in Reporting, NEW v \in Reporting PROVE Phase(u) = Phase(v)
    <3>1. SyncsTo(team[u].ops, pc[u]) = SyncsTo(team[v].ops, pc[v])
      BY <1>2, <1>5 DEF IInv, Lockstep, AtResult
    <3> QED BY <1>1, <1>2, <3>1, SameStep DEF IInv
  <2> QED BY <2>1 DEF OutOfStep
<1> QED BY <1>2, <1>4, <1>5 DEF PostMeets

LEMMA FinishesInStep ==
  ASSUME IInv, NoneAnswers, NEW w \in DOMAIN team, At(w, "result"), PostFinishes("rslt", {}, {w})
  PROVE  /\ \A v \in Reporting : v \notin raised /\ pc[v] \in DOMAIN team[v].ops /\ FirstResult(team[v].ops, pc[v])
         /\ skew' => skew
<1>1. stage = "running"
  BY AtDomain DEF IInv, TInv
<1>2. /\ round.workers \cup {w} = Reporting
      /\ \A v \in Reporting : pc[v] \in DOMAIN team[v].ops /\ team[v].ops[pc[v]].op = "result"
  BY AllIn DEF IInv, PostFinishes
<1>3. ASSUME NEW v \in Reporting PROVE v \notin raised /\ FirstResult(team[v].ops, pc[v])
  <2>1. AtResult(v) BY <1>2 DEF AtResult
  <2>2. v \notin raised BY <1>1, <2>1, RaisedReportsNot DEF IInv
  <2>3. v \in DOMAIN team BY DEF Reporting, Reporters
  <2> QED BY <1>1, <2>1, <2>2, <2>3, WhereRuns DEF IInv
<1>4. ~OutOfStep(Reporting)
  <2>1. ASSUME NEW u \in Reporting, NEW v \in Reporting PROVE Phase(u) = Phase(v)
    BY <1>1, <1>2, <1>3, SameStep DEF IInv
  <2> QED BY <2>1 DEF OutOfStep
<1> QED BY <1>2, <1>3, <1>4 DEF PostFinishes

LEMMA PostEffects ==
  ASSUME IInv, Posts
  PROVE  /\ \A w \in DOMAIN team :
               \/ pc'[w] = pc[w]
               \/ pc'[w] = pc[w] + 1 /\ pc[w] \in DOMAIN team[w].ops /\ team[w].ops[pc[w]].op = "sync"
         /\ \A w \in DOMAIN team : work'[w] \in {"running", "waiting"} \/ work'[w] = work[w]
         /\ NoneAnswers => \/ \A w \in Reporting : pc'[w] = pc[w]
                           \/ \A w \in Reporting : /\ pc'[w] = pc[w] + 1 /\ pc[w] \in DOMAIN team[w].ops
                                                     /\ team[w].ops[pc[w]].op = "sync"
         /\ NoneAnswers /\ skew' => skew \/ raised \cap Reporting # {}
         /\ NoneAnswers /\ stage' = "finished" =>
               \A w \in Reporting : /\ pc'[w] = pc[w] /\ w \notin raised
                                     /\ pc[w] \in DOMAIN team[w].ops /\ FirstResult(team[w].ops, pc[w])
<1> USE DEF IInv, TInv
<1>0. stage = "running" /\ DOMAIN pc = DOMAIN team /\ DOMAIN work = DOMAIN team /\ Reporting \subseteq DOMAIN team
  BY DEF Posts, Shape, Reporting, Reporters
<1>1. CASE PostFails
  BY <1>0, <1>1 DEF PostFails
<1>2. ASSUME NEW command, NEW ms, NEW ws, PostJoins(command, ms, ws) PROVE
         /\ stage' = "running" /\ (skew' => skew) /\ \A w \in DOMAIN team : pc'[w] = pc[w]
         /\ \A w \in DOMAIN team : work'[w] \in {"running", "waiting"} \/ work'[w] = work[w]
  BY <1>0, <1>2 DEF PostJoins
<1>3. ASSUME NEW k \in DOMAIN mains, Post("tnet", {k}, {}), ~PostFails PROVE
         /\ stage' = "running" /\ (skew' => skew) /\ \A w \in DOMAIN team : pc'[w] = pc[w]
         /\ \A w \in DOMAIN team : work'[w] \in {"running", "waiting"} \/ work'[w] = work[w]
  <2>1. CASE PostJoins("tnet", {k}, {})
    BY <1>2, <2>1
  <2>2. CASE PostMeets("tnet", {k}, {})
    <3>1. round.workers \cup {} = {}
      BY <2>2 DEF PostMeets, Fails, RoundOK
    <3>2. ~OutOfStep({})
      BY DEF OutOfStep
    <3> QED BY <1>0, <2>2, <3>1, <3>2 DEF PostMeets
  <2>3. ~PostFinishes("tnet", {k}, {}) BY DEF PostFinishes
  <2>4. PostJoins("tnet", {k}, {}) \/ PostMeets("tnet", {k}, {}) BY <1>3, <2>3, PostCases
  <2> QED BY <2>1, <2>2, <2>4
<1>4. ASSUME NEW w \in DOMAIN team, At(w, "sync"), PostMeets("sync", {}, {w})
      PROVE  /\ stage' = "running"
             /\ \A v \in DOMAIN team : work'[v] \in {"running", "waiting"} \/ work'[v] = work[v]
             /\ \A v \in DOMAIN team :
                  \/ pc'[v] = pc[v]
                  \/ pc'[v] = pc[v] + 1 /\ pc[v] \in DOMAIN team[v].ops /\ team[v].ops[pc[v]].op = "sync"
  <2>1. pc[w] \in DOMAIN team[w].ops /\ team[w].ops[pc[w]].op = "sync"
    BY <1>4, AtDomain
  <2>2. \A v \in round.workers : pc[v] \in DOMAIN team[v].ops /\ team[v].ops[pc[v]].op = "sync"
    BY <1>4 DEF PostMeets, Fails, RoundOK, RoundWaits, Awaited
  <2> QED BY <1>0, <1>4, <2>1, <2>2 DEF PostMeets
<1>5. ASSUME NEW w \in DOMAIN team, At(w, "result"), PostFinishes("rslt", {}, {w})
      PROVE  /\ \A v \in DOMAIN team : pc'[v] = pc[v]
             /\ \A v \in DOMAIN team : work'[v] \in {"running", "waiting"} \/ work'[v] = work[v]
  BY <1>0, <1>5 DEF PostFinishes
<1>6. CASE \E k \in DOMAIN mains : Post("tnet", {k}, {}) /\ ~PostFails
  BY <1>0, <1>3, <1>6
<1>7. CASE \E w \in DOMAIN team : At(w, "sync") /\ Post("sync", {}, {w}) /\ ~PostFails
  <2>1. PICK w \in DOMAIN team : At(w, "sync") /\ Post("sync", {}, {w}) /\ ~PostFails BY <1>7
  <2>2. CASE PostJoins("sync", {}, {w}) BY <1>0, <1>2, <2>2
  <2>3. CASE PostMeets("sync", {}, {w})
    <3>1. /\ stage' = "running"
          /\ \A v \in DOMAIN team : work'[v] \in {"running", "waiting"} \/ work'[v] = work[v]
          /\ \A v \in DOMAIN team :
                  \/ pc'[v] = pc[v]
                  \/ pc'[v] = pc[v] + 1 /\ pc[v] \in DOMAIN team[v].ops /\ team[v].ops[pc[v]].op = "sync"
      BY <1>4, <2>1, <2>3
    <3>2. NoneAnswers => /\ \A v \in Reporting : /\ pc'[v] = pc[v] + 1 /\ pc[v] \in DOMAIN team[v].ops
                                                  /\ team[v].ops[pc[v]].op = "sync"
                         /\ skew' => skew \/ raised \cap Reporting # {}
      BY <2>1, <2>3, MeetsSync
    <3> QED BY <3>1, <3>2
  <2>4. ~PostFinishes("sync", {}, {w}) BY DEF PostFinishes
  <2>5. PostJoins("sync", {}, {w}) \/ PostMeets("sync", {}, {w}) BY <2>1, <2>4, PostCases
  <2> QED BY <2>2, <2>3, <2>5
<1>8. CASE \E w \in DOMAIN team : At(w, "result") /\ Post("rslt", {}, {w}) /\ ~PostFails
  <2>1. PICK w \in DOMAIN team : At(w, "result") /\ Post("rslt", {}, {w}) /\ ~PostFails BY <1>8
  <2>2. CASE PostJoins("rslt", {}, {w}) BY <1>0, <1>2, <2>2
  <2>3. CASE PostFinishes("rslt", {}, {w})
    <3>1. /\ \A v \in DOMAIN team : pc'[v] = pc[v]
          /\ \A v \in DOMAIN team : work'[v] \in {"running", "waiting"} \/ work'[v] = work[v]
      BY <1>5, <2>1, <2>3
    <3>2. NoneAnswers =>
            /\ \A v \in Reporting : /\ v \notin raised /\ pc[v] \in DOMAIN team[v].ops
                                     /\ FirstResult(team[v].ops, pc[v])
            /\ skew' => skew
      BY <2>1, <2>3, FinishesInStep
    <3> QED BY <1>0, <3>1, <3>2
  <2>4. ~PostMeets("rslt", {}, {w}) BY DEF PostMeets
  <2>5. PostJoins("rslt", {}, {w}) \/ PostFinishes("rslt", {}, {w}) BY <2>1, <2>4, PostCases
  <2> QED BY <2>2, <2>3, <2>5
<1> QED BY <1>1, <1>6, <1>7, <1>8 DEF Posts, Posting

LEMMA PostCounted == ASSUME IInv, Posts PROVE Counted'
<1> USE DEF IInv, TInv
<1>1. Expected' = Expected /\ mains' = mains
  BY Kept DEF Posts, Same
<1>2. NewRound.needed = Expected
  BY DEF NewRound, Expected
<1>3. ASSUME NEW command, NEW ms, NEW ws, Post(command, ms, ws), ~PostFails PROVE Counted'
  <2>1. CASE round' = NewRound
    BY <1>1, <1>2, <2>1 DEF Counted
  <2>2. CASE PostJoins(command, ms, ws)
    <3>1. round'.needed = round.needed BY <2>2 DEF PostJoins, Joined
    <3> QED BY <1>1, <2>2, <3>1 DEF Counted, PostJoins
  <2> QED BY <1>3, <2>1, <2>2, PostCases DEF PostMeets, PostFinishes
<1>13. "needed" \in DOMAIN NewRound BY DEF NewRound
<1>4. CASE PostFails
  BY <1>1, <1>4 DEF PostFails, Counted
<1> QED BY <1>3, <1>4 DEF Posts, Posting

LEMMA PostWhere ==
  ASSUME IInv, Posts PROVE Where' /\ NotEnded' /\ Idle' /\ Lockstep'
<1> USE DEF IInv
<1>1. /\ stage = "running" /\ team' = team /\ raised' = raised /\ fault' = fault
      /\ Reporting' = Reporting /\ Clocked' = Clocked
  BY Kept DEF Posts, Same
<1>2. NoneAnswers' <=> NoneAnswers
  BY <1>1 DEF NoneAnswers
<1>3. DOMAIN pc = DOMAIN team /\ DOMAIN work = DOMAIN team /\ DOMAIN work' = DOMAIN team /\ Reporting \subseteq DOMAIN team
  BY <1>1, PostTypes DEF TInv, Shape, Reporting, Reporters
<1>4. \A w \in DOMAIN team : /\ ScriptFits(w, team[w].ops) /\ team[w].final \in Nat
                            /\ pc[w] \in Nat \ {0} /\ DOMAIN team[w].ops \subseteq Nat
  BY <1>1, ScriptOK DEF TInv
<1>5. Where'
  <2> SUFFICES ASSUME NEW w \in DOMAIN team
               PROVE  IF w \in raised THEN pc'[w] >= team[w].final
                      ELSE \/ NoneTo(team[w].ops, pc'[w], Stopping)
                           \/ Has(team[w].ops, {"clock"}) /\ pc'[w] = Len(team[w].ops)
    BY <1>1 DEF Where
  <2>1. CASE pc'[w] = pc[w]
    BY <2>1 DEF Where
  <2>2. CASE pc'[w] = pc[w] + 1 /\ pc[w] \in DOMAIN team[w].ops /\ team[w].ops[pc[w]].op = "sync"
    <3>1. CASE w \in raised
      BY <1>4, <2>2, <3>1 DEF Where
    <3>2. CASE w \notin raised
      <4>1. NoneTo(team[w].ops, pc[w], Stopping)
        BY <1>1, <2>2, <3>2, WhereRuns DEF Stopping
      <4> QED BY <1>4, <2>2, <3>2, <4>1 DEF NoneTo, Stopping
    <3> QED BY <3>1, <3>2
  <2> QED BY <2>1, <2>2, PostEffects
<1>6. NotEnded'
  <2>1. ASSUME NEW w \in DOMAIN team PROVE work'[w] \in {"running", "waiting"} \/ work'[w] = work[w]
    BY PostEffects
  <2> QED BY <1>1, <1>3, <2>1 DEF NotEnded, Ended
<1>7. Idle'
  <2> SUFFICES ASSUME NoneAnswers, NEW w \in DOMAIN team \ Reporting PROVE pc'[w] = 1 /\ w \notin raised
    BY <1>1, <1>2 DEF Idle
  <2>1. pc[w] = 1 /\ w \notin raised
    BY DEF Idle
  <2>2. team[w].ops[1].op # "sync"
    BY <1>4 DEF ScriptFits
  <2> QED BY <2>1, <2>2, PostEffects
<1>8. Lockstep'
  <2> SUFFICES ASSUME NoneAnswers, NEW v \in Reporting \ raised, NEW w \in Reporting \ raised,
                      ~Clocked \/ (~AtResult(v)' /\ ~AtResult(w)')
               PROVE  SyncsTo(team[v].ops, pc'[v]) = SyncsTo(team[w].ops, pc'[w])
    BY <1>1, <1>2 DEF Lockstep
  <2>1. CASE \A u \in Reporting : pc'[u] = pc[u]
    BY <1>1, <2>1 DEF Lockstep, AtResult
  <2>2. CASE \A u \in Reporting : /\ pc'[u] = pc[u] + 1 /\ pc[u] \in DOMAIN team[u].ops
                                  /\ team[u].ops[pc[u]].op = "sync"
    <3>1. SyncsTo(team[v].ops, pc[v]) = SyncsTo(team[w].ops, pc[w])
      BY <2>2 DEF Lockstep, AtResult
    <3>2. \A u \in Reporting : SyncsTo(team[u].ops, pc'[u]) = SyncsTo(team[u].ops, pc[u]) + 1
      BY <1>3, <1>4, <2>2, SyncsNext
    <3> QED BY <3>1, <3>2
  <2> QED BY <2>1, <2>2, PostEffects
<1> QED BY <1>5, <1>6, <1>7, <1>8

LEMMA PostResults ==
  ASSUME IInv, Posts PROVE Skewed' /\ AllReported' /\ Made' /\ NoneLost'
<1> USE DEF IInv
<1>1. /\ stage = "running" /\ cfg' = cfg /\ team' = team /\ raised' = raised /\ fault' = fault
      /\ dirs' = dirs /\ lost' = lost /\ Reporting' = Reporting
  BY Kept DEF Posts, Same
<1>2. NoneAnswers' <=> NoneAnswers
  BY <1>1 DEF NoneAnswers
<1>3. Skewed'
  BY <1>1, <1>2, PostEffects DEF Skewed
<1>4. AllReported'
  <2> SUFFICES ASSUME stage' = "finished", NoneAnswers, NEW w \in Reporting
               PROVE  w \notin raised /\ pc'[w] \in DOMAIN team[w].ops /\ FirstResult(team[w].ops, pc'[w])
    BY <1>1, <1>2 DEF AllReported
  <2> QED BY PostEffects
<1>5. Made'
  <2> SUFFICES ASSUME NEW d \in dirs
               PROVE  \E j \in 1..(pc'[d.owner] - 1) : d \in MadeBy(d.owner, team[d.owner].ops[j].op)
    BY <1>1, Kept DEF Made, Posts
  <2>1. d.owner \in DOMAIN team /\ pc[d.owner] \in Nat
    BY <1>1, ScriptOK DEF TInv, Shape
  <2>2. pc'[d.owner] = pc[d.owner] \/ pc'[d.owner] = pc[d.owner] + 1
    BY <2>1, PostEffects
  <2> QED BY <2>1, <2>2 DEF Made
<1>6. NoneLost'
  BY <1>1 DEF NoneLost, OwnDirectories
<1> QED BY <1>3, <1>4, <1>5, <1>6

-----------------------------------------------------------------------------
\* What a worker's own step does.
LEMMA AdvanceEffects ==
  ASSUME IInv, NEW w \in DOMAIN team, NEW n, Advances(w, n)
  PROVE  /\ n \in Nat /\ n >= pc[w]
         /\ \/ team[w].ops[pc[w]].op = "clock" /\ n = Len(team[w].ops)
            \/ /\ n > pc[w]
               /\ \A j \in pc[w]..(n - 1) : team[w].ops[j].op \in Quiet
               /\ SyncsTo(team[w].ops, n) = SyncsTo(team[w].ops, pc[w])
<1> USE DEF IInv, TInv
<1> DEFINE ops == team[w].ops
<1>1. /\ stage = "running" /\ pc[w] \in 1..Len(ops) /\ Len(ops) \in Nat /\ DOMAIN ops = 1..Len(ops)
      /\ ops[pc[w]].op \in Quiet /\ ScriptFits(w, ops)
  BY ScriptOK DEF Advances
<1>2. ops[pc[w]].op # "sync" BY <1>1 DEF Quiet
<1>3. SyncsTo(ops, pc[w] + 1) = SyncsTo(ops, pc[w])
  <2> HIDE DEF ops
  <2> QED BY <1>1, <1>2, SyncsNext
<1>4. CASE n = pc[w] + 1
  BY <1>1, <1>3, <1>4
<1>5. CASE ops[pc[w]].op = "probe" /\ n = pc[w] + 2
  <2>1. ops[pc[w] + 1].op = "start" BY <1>1, <1>5 DEF ScriptFits
  <2>2. SyncsTo(ops, pc[w] + 1 + 1) = SyncsTo(ops, pc[w] + 1)
    <3> HIDE DEF ops
    <3> QED BY <1>1, <2>1, SyncsNext
  <2>3. n = pc[w] + 1 + 1 BY <1>1, <1>5
  <2>4. \A j \in pc[w]..(n - 1) : j = pc[w] \/ j = pc[w] + 1 BY <1>1, <1>5
  <2> QED BY <1>1, <1>3, <2>1, <2>2, <2>3, <2>4 DEF Quiet
<1>6. CASE ops[pc[w]].op = "clock" /\ n = Len(ops)
  BY <1>1, <1>6
<1> QED BY <1>4, <1>5, <1>6 DEF Advances

LEMMA AdvanceWhere ==
  ASSUME IInv, NEW w \in DOMAIN team, NEW n, Advances(w, n) PROVE Where'
<1> USE DEF IInv
<1>1. /\ stage = "running" /\ team' = team /\ raised' = raised /\ pc' = [pc EXCEPT ![w] = n]
      /\ w \in DOMAIN pc /\ DOMAIN pc = DOMAIN team
      /\ team[w].ops[pc[w]].op \in Quiet /\ pc[w] \in DOMAIN team[w].ops
  BY DEF Advances, Same, TInv, Shape
<1>2. /\ ScriptFits(w, team[w].ops) /\ team[w].final \in Nat /\ pc[w] \in Nat \ {0}
  BY <1>1, ScriptOK DEF TInv
<1>3. n \in Nat /\ n >= pc[w]
  BY AdvanceEffects
<1>4. CASE w \in raised
  <2>1. pc'[w] >= team[w].final
    BY <1>1, <1>2, <1>3, <1>4 DEF Where
  <2> QED BY <1>1, <1>4, <2>1 DEF Where
<1>5. CASE w \notin raised
  <2>1. NoneTo(team[w].ops, pc[w], Stopping)
    BY <1>1, <1>5, WhereRuns DEF Quiet, Stopping
  <2>2. CASE team[w].ops[pc[w]].op = "clock" /\ n = Len(team[w].ops)
    <3>1. Has(team[w].ops, {"clock"}) BY <1>1, <2>2 DEF Has
    <3> QED BY <1>1, <1>5, <2>2, <3>1 DEF Where
  <2>3. CASE \A j \in pc[w]..(n - 1) : team[w].ops[j].op \in Quiet
    <3>1. NoneTo(team[w].ops, n, Stopping)
      <4> SUFFICES ASSUME NEW j \in 1..(n - 1) PROVE team[w].ops[j].op \notin Stopping
        BY DEF NoneTo
      <4>1. j \in 1..(pc[w] - 1) \/ j \in pc[w]..(n - 1) BY <1>2, <1>3
      <4> QED BY <2>1, <2>3, <4>1 DEF NoneTo, Quiet, Stopping
    <3> QED BY <1>1, <1>5, <3>1 DEF Where
  <2> QED BY <2>2, <2>3, AdvanceEffects
<1> QED BY <1>4, <1>5

\* No server is answered for by a client that has ended, so no worker that does not report moves.
LEMMA AdvancesReporting ==
  ASSUME IInv, NoneAnswers, NEW w \in DOMAIN team, (\E n : Advances(w, n)) \/ Falls(w)
  PROVE  w \in Reporting
<1> SUFFICES ASSUME w \notin Reporting PROVE FALSE
  OBVIOUS
<1> USE DEF IInv, TInv
<1>1. stage = "running" /\ pc[w] \in DOMAIN team[w].ops
  BY DEF Advances, Falls
<1>2. pc[w] = 1 /\ ScriptFits(w, team[w].ops)
  BY <1>1, ScriptOK DEF Idle
<1>3. team[w].ops[pc[w]].op \in {"serve", "forever"}
  BY <1>2 DEF ScriptFits
<1>4. team[w].ops[pc[w]].op = "serve" /\ \E v \in DOMAIN team : work[v] \in Ended
  BY <1>3 DEF Advances, Falls, Quiet
<1>5. fault = "kill"
  BY <1>4 DEF NotEnded, Shape
<1> QED BY <1>1, <1>4, <1>5 DEF NoneAnswers, Has

LEMMA AdvanceLockstep ==
  ASSUME IInv, NEW w \in DOMAIN team, NEW n, Advances(w, n) PROVE Lockstep'
<1> USE DEF IInv
<1>1. /\ stage = "running" /\ team' = team /\ raised' = raised /\ pc' = [pc EXCEPT ![w] = n]
      /\ w \in DOMAIN pc /\ DOMAIN pc = DOMAIN team
      /\ team[w].ops[pc[w]].op \in Quiet /\ pc[w] \in DOMAIN team[w].ops
      /\ Reporting' = Reporting /\ Clocked' = Clocked /\ Reporting \subseteq DOMAIN team
  BY Kept DEF Advances, Same, TInv, Shape, Reporting, Reporters
<1>2. NoneAnswers' => NoneAnswers
  BY AnswersKept DEF Advances
<1>3. ~AtResult(w)
  BY <1>1 DEF AtResult, Quiet
<1>4. (Clocked /\ AtResult(w)') \/ SyncsTo(team[w].ops, n) = SyncsTo(team[w].ops, pc[w])
  <2>1. CASE team[w].ops[pc[w]].op = "clock" /\ n = Len(team[w].ops)
    <3>1. Has(team[w].ops, {"clock"}) BY <1>1, <2>1 DEF Has
    <3>2. FirstResult(team[w].ops, n) /\ Len(team[w].ops) \in DOMAIN team[w].ops
      BY <1>1, <2>1, <3>1, ScriptOK DEF ScriptFits, TInv
    <3> QED BY <1>1, <2>1, <3>1, <3>2 DEF AtResult, FirstResult, Clocked
  <2> QED BY <2>1, AdvanceEffects
<1>5. \A u \in DOMAIN team : u # w => pc'[u] = pc[u] /\ (AtResult(u)' <=> AtResult(u))
  BY <1>1 DEF AtResult
<1>6. pc'[w] = n
  BY <1>1
<1> SUFFICES ASSUME NoneAnswers, NEW u \in Reporting \ raised, NEW v \in Reporting \ raised,
                    ~Clocked \/ (~AtResult(u)' /\ ~AtResult(v)')
             PROVE  SyncsTo(team[u].ops, pc'[u]) = SyncsTo(team[v].ops, pc'[v])
  BY <1>1, <1>2 DEF Lockstep
<1>7. \A x \in {u, v} : SyncsTo(team[x].ops, pc'[x]) = SyncsTo(team[x].ops, pc[x])
  BY <1>1, <1>4, <1>5, <1>6
<1>8. ~Clocked \/ (~AtResult(u) /\ ~AtResult(v))
  BY <1>1, <1>3, <1>5
<1> QED BY <1>7, <1>8 DEF Lockstep

\* An exception takes a worker out of the lockstep.
LEMMA FallInv ==
  ASSUME IInv, NEW w \in DOMAIN team, Falls(w)
  PROVE  Where' /\ Lockstep' /\ Made' /\ NoneLost'
<1> USE DEF IInv
<1> DEFINE n == IF pc[w] < team[w].final THEN team[w].final ELSE Len(team[w].ops) + 1
<1>1. /\ stage = "running" /\ cfg' = cfg /\ team' = team /\ raised' = raised \cup {w} /\ pc' = [pc EXCEPT ![w] = n]
      /\ w \in DOMAIN pc /\ DOMAIN pc = DOMAIN team /\ dirs' = dirs /\ lost' = lost
      /\ Reporting' = Reporting /\ Clocked' = Clocked /\ Reporting \subseteq DOMAIN team
  BY Kept DEF Falls, Raises, Same, TInv, Shape, Reporting, Reporters
<1>2. n \in Nat /\ n >= pc[w] /\ n >= team[w].final
  BY <1>1, ScriptOK DEF TInv
<1> HIDE DEF n
<1>3. NoneAnswers' => NoneAnswers
  BY AnswersKept DEF Falls
<1>4. Where'
  BY <1>1, <1>2 DEF Where
<1>5. Lockstep'
  BY <1>1, <1>3 DEF Lockstep, AtResult
<1>6. Made'
  <2>1. ASSUME NEW d \in dirs
        PROVE  \E j \in 1..(pc'[d.owner] - 1) : d \in MadeBy(d.owner, team[d.owner].ops[j].op)
    <3>1. d.owner \in DOMAIN team /\ pc[d.owner] \in Nat
      BY <1>1, ScriptOK DEF TInv, Shape
    <3>2. pc'[d.owner] \in Nat /\ pc'[d.owner] >= pc[d.owner]
      BY <1>1, <1>2, <3>1
    <3> QED BY <3>1, <3>2 DEF Made
  <2>2. \A v, op : MadeBy(v, op)' = MadeBy(v, op)
    BY Kept DEF Falls
  <2> QED BY <1>1, <2>1, <2>2 DEF Made
<1>7. NoneLost'
  BY <1>1 DEF NoneLost
<1> QED BY <1>4, <1>5, <1>6, <1>7

-----------------------------------------------------------------------------
(***************************************************************************)
(* The directories.                                                        *)
(***************************************************************************)
\* An action adds only the directory of a worker that goes on from where it makes it.
LEMMA MadeKept ==
  ASSUME IInv, NEW w \in DOMAIN team, NEW n, Advances(w, n),
         \A d \in dirs' :
            \/ d \in dirs
            \/ d.owner = w /\ d \in MadeBy(w, team[w].ops[pc[w]].op)
  PROVE  Made'
<1> USE DEF IInv
<1>1. /\ stage = "running" /\ team' = team /\ pc' = [pc EXCEPT ![w] = n]
      /\ w \in DOMAIN pc /\ DOMAIN pc = DOMAIN team /\ pc[w] \in DOMAIN team[w].ops
  BY DEF Advances, Same, TInv, Shape
<1>2. n \in Nat /\ n >= pc[w]
  BY AdvanceEffects
<1>3. \A v, op : MadeBy(v, op)' = MadeBy(v, op)
  BY Kept DEF Advances
<1> SUFFICES ASSUME NEW d \in dirs'
             PROVE  \E j \in 1..(pc'[d.owner] - 1) : d \in MadeBy(d.owner, team[d.owner].ops[j].op)
  BY <1>1, <1>3 DEF Made
<1>4. CASE d \in dirs
  <2>1. d.owner \in DOMAIN team /\ pc[d.owner] \in Nat
    BY <1>1, <1>4, ScriptOK DEF TInv, Shape
  <2>2. pc'[d.owner] \in Nat /\ pc'[d.owner] >= pc[d.owner]
    BY <1>1, <1>2, <2>1
  <2> QED BY <1>4, <2>1, <2>2 DEF Made
<1>5. CASE d \notin dirs
  <2>1. d.owner = w /\ d \in MadeBy(w, team[w].ops[pc[w]].op) /\ team[w].ops[pc[w]].op \in {"make", "mkdir"}
    BY <1>5 DEF MadeBy
  <2>2. n > pc[w] /\ pc[w] \in Nat \ {0}
    BY <1>1, <2>1, AdvanceEffects, ScriptOK DEF TInv
  <2>3. pc[w] \in 1..(pc'[w] - 1)
    BY <1>1, <1>2, <2>2
  <2> QED BY <2>1, <2>3
<1> QED BY <1>4, <1>5

\* Whose a directory is that a worker removes.
LEMMA ClearsOwn ==
  ASSUME IInv, NEW w \in DOMAIN team, At(w, "clear"), w \notin raised, raised = {},
         NEW d \in dirs, d.place = Place(w, Arg(w)[1])
  PROVE  d.owner = w
<1> USE DEF IInv
<1> DEFINE v == d.owner
<1> SUFFICES ASSUME v # w PROVE FALSE
  OBVIOUS
<1>1. stage = "running" /\ pc[w] \in DOMAIN team[w].ops /\ team[w].ops[pc[w]].op = "clear" /\ v \in DOMAIN team
  BY AtDomain DEF TInv, Shape
<1>2. /\ Fit /\ ScriptFits(w, team[w].ops) /\ ScriptFits(v, team[v].ops) /\ DOMAIN team[v].ops = 1..Len(team[v].ops)
      /\ pc[v] \in 1..(Len(team[v].ops) + 1) /\ Len(team[v].ops) \in Nat
  BY <1>1, ScriptOK DEF TInv, Shape, Live
<1>3. TreesUsed
  BY <1>1 DEF TreesUsed, Has
<1>4. ~Clocked /\ NoneAnswers
  BY <1>2, <1>3 DEF Fit, NoneAnswers
<1>5. PICK j \in 1..(pc[v] - 1) : d \in MadeBy(v, team[v].ops[j].op)
  BY DEF Made
<1>6. v \in Reporting
  BY <1>1, <1>2, <1>4, <1>5 DEF Idle
<1>7. w \in Reporting
  BY <1>1, <1>2, <1>4 DEF Idle, ScriptFits
<1>8. SyncsTo(team[v].ops, pc[v]) = SyncsTo(team[w].ops, pc[w])
  BY <1>4, <1>6, <1>7 DEF Lockstep
<1>9. NoneTo(team[w].ops, pc[w], Stopping)
  BY <1>1, WhereRuns DEF Stopping
<1>10. j \in DOMAIN team[v].ops /\ j \in Nat /\ pc[v] \in Nat /\ j <= pc[v]
  BY <1>2, <1>5
<1>11. SyncsTo(team[w].ops, pc[w]) < SyncsTo(team[v].ops, j)
  <2>1. TreesApart(v, w) BY <1>1, <1>2 DEF Fit
  <2>2. d.place = Place(w, team[w].ops[pc[w]].arg[1])
    BY DEF Arg
  <2> QED BY <1>1, <1>5, <1>9, <1>10, <2>1, <2>2 DEF TreesApart
<1>12. SyncsTo(team[v].ops, j) <= SyncsTo(team[v].ops, pc[v])
  BY <1>10, SyncsGrow
<1>13. SyncsTo(team[v].ops, pc[v]) \in Nat /\ SyncsTo(team[v].ops, j) \in Nat
  BY <1>10, SyncsFinite
<1> QED BY <1>8, <1>11, <1>12, <1>13

LEMMA RemovesOwn ==
  ASSUME IInv, OwnDirectories(cfg), NEW w \in DOMAIN team, At(w, "rmtree"),
         NEW d \in dirs, d.place = ForProcess(w).place, d.key = ForProcess(w).key
  PROVE  d.owner = w
<1> USE DEF IInv
<1> DEFINE v == d.owner
<1> SUFFICES ASSUME v # w PROVE FALSE
  OBVIOUS
<1>1. stage = "running" /\ pc[w] \in DOMAIN team[w].ops /\ team[w].ops[pc[w]].op = "rmtree" /\ v \in DOMAIN team
  BY AtDomain DEF TInv, Shape
<1>2. TreesApart(v, w)
  BY <1>1 DEF TInv, Shape, Live, Fit
<1>3. d.key # <<>>
  BY DEF ForProcess
<1>4. PICK j \in 1..(pc[v] - 1) : d \in MadeBy(v, team[v].ops[j].op)
  BY DEF Made
<1>5. d = ForProcess(v) /\ team[v].ops[j].op = "mkdir"
  BY <1>3, <1>4 DEF MadeBy, Homes
<1>6. j \in DOMAIN team[v].ops
  BY <1>1, <1>4, ScriptOK DEF TInv, Shape
<1> QED BY <1>1, <1>2, <1>5, <1>6 DEF TreesApart

LEMMA AdvanceFiles ==
  ASSUME IInv, NEW w \in DOMAIN team, Moves(w), NEW n, Advances(w, n) PROVE Made' /\ NoneLost'
<1> USE DEF IInv
<1>1. cfg' = cfg /\ raised' = raised
  BY DEF Advances, Same
<1>2. ASSUME NEW removed, Removes(w, removed), removed \subseteq dirs,
             OwnDirectories(cfg) /\ raised = {} => \A d \in removed : d.owner = w
      PROVE  Made' /\ NoneLost'
  <2>1. dirs' \subseteq dirs BY <1>2 DEF Removes
  <2>2. Made' BY <2>1, MadeKept
  <2>3. OwnDirectories(cfg) /\ raised = {} => lost' = lost
    BY <1>2 DEF Removes
  <2> QED BY <1>1, <2>2, <2>3 DEF NoneLost
<1>3. CASE Clears(w)
  <2> DEFINE R == {d \in dirs : d.place = Place(w, Arg(w)[1])}
  <2>1. Removes(w, R) BY <1>3 DEF Clears
  <2>2. raised = {} => \A d \in R : d.owner = w
    BY <1>3, ClearsOwn DEF Clears
  <2> QED BY <1>2, <2>1, <2>2
<1>4. CASE Makes(w)
  <2>1. lost' = lost /\ dirs' = dirs \cup Homes(w) /\ team[w].ops[pc[w]].op = "make"
    BY <1>4, AtDomain DEF Makes, TInv
  <2>2. \A d \in Homes(w) : d.owner = w /\ d \in MadeBy(w, "make")
    BY DEF Homes, MadeBy
  <2>3. Made' BY <2>1, <2>2, MadeKept
  <2> QED BY <1>1, <2>1, <2>3 DEF NoneLost
<1>5. CASE Drops(w)
  <2>1. dirs' \subseteq dirs /\ lost' = lost
    BY <1>5 DEF Drops, Removes, Homes
  <2>2. Made' BY <2>1, MadeKept
  <2> QED BY <1>1, <2>1, <2>2 DEF NoneLost
<1>6. CASE RemovesOld(w)
  <2> DEFINE R == {d \in dirs : d.place = ForProcess(w).place /\ d.key = ForProcess(w).key}
  <2>1. Removes(w, R) BY <1>6 DEF RemovesOld
  <2>2. OwnDirectories(cfg) => \A d \in R : d.owner = w
    BY <1>6, RemovesOwn DEF RemovesOld
  <2> QED BY <1>2, <2>1, <2>2
<1>7. CASE MakesForProcess(w)
  <2>1. lost' = lost /\ dirs' = dirs \cup {ForProcess(w)} /\ team[w].ops[pc[w]].op = "mkdir"
    BY <1>7, AtDomain DEF MakesForProcess, TInv
  <2>2. ForProcess(w).owner = w /\ ForProcess(w) \in MadeBy(w, "mkdir")
    BY DEF ForProcess, MadeBy
  <2>3. Made' BY <2>1, <2>2, MadeKept
  <2> QED BY <1>1, <2>1, <2>3 DEF NoneLost
<1>8. CASE UNCHANGED <<dirs, lost>>
  <2>1. Made' BY <1>8, MadeKept
  <2> QED BY <1>1, <1>8, <2>1 DEF NoneLost
<1> QED BY <1>3, <1>4, <1>5, <1>6, <1>7, <1>8
        DEF Moves, Needs, Connects, Serves, Probes, StartsDb, Works, ClockTicks, Throws, OpFails, fileVars

LEMMA MoveInv ==
  ASSUME IInv, NEW w \in DOMAIN team, Moves(w)
  PROVE  Counted' /\ Where' /\ NotEnded' /\ Idle' /\ Lockstep' /\ Skewed' /\ AllReported' /\ Made' /\ NoneLost'
<1> USE DEF IInv
<1>1. (\E n : Advances(w, n)) \/ Falls(w)
  BY MovesCases DEF TInv
<1>2. /\ Same /\ UNCHANGED <<stage, main, work, round, skew>> /\ stage = "running"
      /\ fault' = fault \/ (fault = "none" /\ fault' = "raise")
      /\ raised \subseteq raised' /\ raised' \subseteq raised \cup {w}
      /\ \A v \in DOMAIN pc : v # w => pc'[v] = pc[v]
  BY <1>1 DEF Advances, Falls, Raises
<1>3. NoneAnswers' => NoneAnswers
  BY <1>2, AnswersKept
<1>4. Reporting' = Reporting /\ Expected' = Expected
  BY <1>2, Kept
<1>5. Counted' /\ NotEnded'
  BY <1>2, <1>4 DEF Counted, NotEnded
<1>6. Idle'
  <2> SUFFICES ASSUME NoneAnswers, NEW v \in DOMAIN team \ Reporting PROVE pc'[v] = 1 /\ v \notin raised'
    BY <1>2, <1>3, <1>4 DEF Idle, Same
  <2>1. v # w
    BY <1>1, AdvancesReporting
  <2> QED BY <1>2, <2>1 DEF Idle, TInv, Shape
<1>7. Skewed' /\ AllReported'
  BY <1>2, <1>3, <1>4 DEF Skewed, AllReported
<1>8. Where' /\ Lockstep' /\ Made' /\ NoneLost'
  BY <1>1, AdvanceWhere, AdvanceLockstep, AdvanceFiles, FallInv
<1> QED BY <1>5, <1>6, <1>7, <1>8

-----------------------------------------------------------------------------
Marching == Counted /\ Where /\ NotEnded /\ Idle /\ Lockstep /\ Skewed /\ AllReported /\ Made /\ NoneLost

LEMMA BlankInv == Blank /\ stage # "finished" => Marching
<1> SUFFICES ASSUME Blank, stage # "finished" PROVE Marching
  OBVIOUS
<1>1. /\ main = <<>> /\ work = <<>> /\ team = <<>>
      /\ raised = {} /\ lost = {} /\ dirs = {} /\ skew = FALSE
  BY DEF Blank
<1>2. DOMAIN << >> = {} OBVIOUS
<1>3. DOMAIN main = {} /\ DOMAIN work = {} /\ DOMAIN team = {}
  BY <1>1, <1>2
<1>4. Reporting = {}
  BY <1>3 DEF Reporting, Reporters
<1>5. Counted /\ Where /\ NotEnded /\ Idle
  BY <1>3 DEF Counted, Where, NotEnded, Idle
<1> QED BY <1>1, <1>4, <1>5 DEF Marching, Lockstep, Skewed, AllReported, Made, NoneLost

LEMMA CreateInv == ASSUME IInv, Create, ScriptsFit' PROVE Marching'
<1>1. Blank /\ stage' = "running"
  BY DEF Create, IInv, TInv, Shape, Live
<1>2. TInv'
  BY CreateTypes DEF IInv
<1>3. /\ \A k \in DOMAIN main' : main'[k] \in {"start", "pending"}
      /\ \A w \in DOMAIN work' : work'[w] = "unborn"
      /\ \A w \in DOMAIN pc' : pc'[w] = 1
      /\ UNCHANGED <<raised, dirs, lost, skew>>
  BY DEF Create
<1>4. DOMAIN pc' = DOMAIN team' /\ raised' = {} /\ lost' = {} /\ dirs' = {} /\ ~skew'
  BY <1>1, <1>2, <1>3 DEF TInv, Shape, Blank
<1>5. Counted' /\ NotEnded'
  BY <1>3 DEF Counted, NotEnded, Ended
<1>6. Where' /\ Idle'
  BY <1>3, <1>4 DEF Where, Idle, NoneTo
<1>7. Lockstep'
  <2>1. \A ops : {j \in 1..(1 - 1) : ops[j].op = "sync"} = {} OBVIOUS
  <2>2. \A w \in Reporting' : pc'[w] = 1
    BY <1>3, <1>4 DEF Reporting, Reporters
  <2> QED BY <2>1, <2>2 DEF Lockstep, SyncsTo
<1>8. Skewed' /\ AllReported' /\ Made' /\ NoneLost'
  BY <1>1, <1>4 DEF Skewed, AllReported, Made, NoneLost
<1> QED BY <1>5, <1>6, <1>7, <1>8 DEF Marching

\* What depends on neither the main processes, the round, nor whether a worker runs.
LEMMA PlacesKept ==
  ASSUME IInv, Same, UNCHANGED <<stage, pc, raised, dirs, lost, skew>>, fault' = fault \/ fault = "none"
  PROVE  Where' /\ Idle' /\ Lockstep' /\ Skewed' /\ AllReported' /\ Made' /\ NoneLost'
<1> USE DEF IInv
<1>1. NoneAnswers' => NoneAnswers
  BY AnswersKept
<1>2. Reporting' = Reporting /\ Clocked' = Clocked
  BY Kept
<1>3. cfg' = cfg /\ team' = team
  BY DEF Same
<1>4. Where' /\ Idle' /\ Lockstep'
  BY <1>1, <1>2, <1>3 DEF Where, Idle, Lockstep, AtResult
<1>5. Skewed' /\ AllReported' /\ NoneLost'
  BY <1>1, <1>2, <1>3 DEF Skewed, AllReported, NoneLost
<1>6. \A v, op : MadeBy(v, op)' = MadeBy(v, op)
  BY Kept
<1>7. Made'
  BY <1>3, <1>6 DEF Made
<1> QED BY <1>4, <1>5, <1>7

LEMMA MainInv ==
  ASSUME IInv, NEW k \in DOMAIN mains, MainForks(k) \/ MainDone(k) PROVE Marching'
<1> USE DEF IInv
<1>1. /\ Same /\ UNCHANGED <<stage, pc, raised, dirs, lost, fault, round, skew>>
      /\ main[k] \in {"timed", "forked"} /\ DOMAIN main' = DOMAIN main /\ DOMAIN work' = DOMAIN work
      /\ \A w \in DOMAIN work : work'[w] = "running" \/ work'[w] = work[w]
  BY DEF MainForks, MainDone, Same, driverVars, podVars, fileVars
<1>2. Counted'
  <2>1. k \in DOMAIN main BY DEF TInv, Shape
  <2>2. Expected' = Expected BY <1>1, Kept
  <2> QED BY <1>1, <2>1, <2>2 DEF Counted
<1>3. NotEnded'
  BY <1>1 DEF NotEnded, Ended
<1> QED BY <1>1, <1>2, <1>3, PlacesKept DEF Marching

LEMMA NextIInv == ASSUME IInv, [Next]_vars, ScriptsFit' PROVE IInv'
<1> USE DEF IInv
<1>1. TInv'
  BY NextTInv
<1>2. CASE UNCHANGED <<stage, cfg, mains, team, main, work, pc, raised, dirs, lost, fault, round, skew>>
  <2>1. Same /\ Expected' = Expected BY <1>2, Kept DEF Same
  <2>2. Counted' /\ NotEnded' BY <1>2, <2>1 DEF Counted, NotEnded
  <2> QED BY <1>1, <1>2, <2>1, <2>2, PlacesKept
<1>3. CASE Refuse \/ Plan
  <2>1. Blank' /\ stage' # "finished"
    BY <1>3 DEF TInv, Shape, Live, Blank, Refuse, Plan, podVars
  <2>2. (Blank /\ stage # "finished" => Marching)' BY BlankInv, PTL
  <2> QED BY <1>1, <2>1, <2>2 DEF Marching
<1>4. CASE Create
  BY <1>1, <1>4, CreateInv DEF Marching
<1>5. CASE Posts
  BY <1>1, <1>5, PostCounted, PostWhere, PostResults
<1>6. ASSUME NEW k \in DOMAIN mains, MainForks(k) \/ MainDone(k) PROVE IInv'
  BY <1>1, <1>6, MainInv DEF Marching
<1>7. ASSUME NEW w \in DOMAIN team, EndsWell(w) PROVE FALSE
  BY <1>7, WhereRuns, ScriptOK DEF EndsWell, TInv
<1>8. ASSUME NEW w \in DOMAIN team, Moves(w) PROVE IInv'
  BY <1>1, <1>8, MoveInv
<1>9. ASSUME NEW w \in DOMAIN team, Killed(w) PROVE IInv'
  <2>1. /\ Same /\ UNCHANGED <<stage, main, pc, raised, dirs, lost, round, skew>>
        /\ fault = "none" /\ fault' = "kill"
    BY <1>9 DEF Killed, Same, driverVars, podVars, fileVars
  <2>2. Counted' /\ NotEnded'
    <3>1. Expected' = Expected BY <2>1, Kept
    <3> QED BY <2>1, <3>1 DEF Counted, NotEnded
  <2> QED BY <1>1, <2>1, <2>2, PlacesKept
<1> QED BY <1>2, <1>3, <1>4, <1>5, <1>6, <1>7, <1>8, <1>9, Steps DEF TInv

LEMMA InitIInv == Init => IInv
<1> SUFFICES ASSUME Init PROVE IInv
  OBVIOUS
<1>1. TInv BY InitTInv
<1>2. stage = "options" BY DEF Init
<1>3. Marching
  BY <1>1, <1>2, BlankInv DEF TInv, Shape, Live
<1> QED BY <1>1, <1>3 DEF Marching, IInv

LEMMA Invariant == Spec /\ []ScriptsFit => []IInv
BY InitIInv, NextIInv, PTL DEF Spec

-----------------------------------------------------------------------------
\* In a run in which no worker has raised an exception, whatever the pods, the claims that they
\* share and the order of their steps, no worker removes a directory that another has made
\* (TreesIntact): the round between the clearing of the trees and the making is one for all.
THEOREM TreesStay == Spec /\ []ScriptsFit => []TreesIntact
<1>1. IInv => TreesIntact
  BY DEF IInv, NoneLost, TreesIntact
<1> QED BY <1>1, Invariant, PTL

\* A run that finishes was in step in every round, for any number of workers and any fault but
\* the kill of a client whose server answers for it (FinishedInStep).
THEOREM FinishInStep == Spec /\ []ScriptsFit => []FinishedInStep
<1>1. ASSUME IInv PROVE FinishedInStep
  BY <1>1 DEF IInv, Skewed, AllReported, FinishedInStep
<1> QED BY <1>1, Invariant, PTL

\* When a run finishes, every worker that reports is at its result and has run the jobs that the
\* driver describes to the report, for any number of workers and with the same exception
\* (JobsReported).
THEOREM JobsAreReported == Spec /\ []ScriptsFit => []JobsReported
<1>1. ASSUME IInv PROVE JobsReported
  <2> SUFFICES ASSUME stage = "finished", NoneAnswers, NEW w \in Reporting
               PROVE  /\ team[w].ops[pc[w]].op = "result"
                      /\ Described(cfg) => JobsOf(w) = GenerateMetadata(cfg)
    BY DEF JobsReported
  <2>1. pc[w] \in DOMAIN team[w].ops /\ FirstResult(team[w].ops, pc[w])
    BY <1>1 DEF IInv, AllReported
  <2>2. Fit
    BY <1>1 DEF IInv, TInv, Shape, Live
  <2> QED BY <2>1, <2>2 DEF Fit, FirstResult, JobsOf
<1> QED BY <1>1, Invariant, PTL

-----------------------------------------------------------------------------
(***************************************************************************)
(* Who waits for whom.                                                     *)
(***************************************************************************)
Initial == InitialClients(cfg, Len(Nss(cfg)))

\* The first round of the main processes is over.
Met == \E k \in DOMAIN main : main[k] \in {"timed", "forked", "done"}

Open == stage = "running" /\ Unblocked(cfg) => ~Complete(round)

Waiters ==
    stage = "running" =>
        /\ \A k \in DOMAIN main : main[k] = "waiting" => k \in round.mains
        /\ \A w \in DOMAIN work : work[w] = "waiting" => w \in round.workers

First == "needed" \in DOMAIN round /\ (stage = "running" /\ ~Met => round.needed = Initial)

Together ==
    stage = "running" /\ Unblocked(cfg) =>
        /\ \A k \in DOMAIN main : main[k] # "pending"
        /\ Met => \A k \in DOMAIN main : main[k] \notin {"start", "waiting"}

Born == \A w \in DOMAIN team : main[team[w].main] \in {"forked", "done"} => work[w] # "unborn"

Over == \A k \in DOMAIN mains : main[k] = "done" => \A w \in WorkersOf(k) : work[w] \in Ended

Served == \A k \in DOMAIN main : main[k] \in {"forked", "done"} /\ IsClient(k) => ServersOf(k) # {}

LInv == Open /\ Waiters /\ First /\ Together /\ Born /\ Over /\ Served

LEMMA InitialKept ==
  ASSUME Same
  PROVE  /\ Initial' = Initial /\ (Unblocked(cfg)' <=> Unblocked(cfg))
         /\ \A k : WorkersOf(k)' = WorkersOf(k)
         /\ \A k : ServersOf(k)' = ServersOf(k)
         /\ \A k : IsClient(k)' <=> IsClient(k)
BY DEF Same, Initial, Unblocked, Countable, Startable, OwnDirectories, WorkersOf, ServersOf, IsClient

\* A round has somebody to wait for.
LEMMA Somebody ==
  ASSUME Fit, Unblocked(cfg)
  PROVE  /\ Flows /\ IsFiniteSet(Reporting) /\ Cardinality(Reporting) = Expected /\ Expected # 0
         /\ IsFiniteSet(DOMAIN mains) /\ Cardinality(DOMAIN mains) = Initial /\ Initial # 0
<1>1. Flows /\ Countable(cfg)
  BY DEF Fit, Unblocked
<1>2. Reporting \subseteq DOMAIN team /\ Reporting # {} /\ Cardinality(Reporting) = Expected
  BY <1>1 DEF Reporting, Reporters, Flows, Fit, Expected, MainsFit, ReportersFit, MainsFlow, ReportersFlow
<1>3. IsFiniteSet(Reporting)
  BY <1>2, FS_Subset DEF Fit, ReportersFit
<1>4. Expected # 0
  BY <1>2, <1>3, FS_EmptySet
<1>5. IsFiniteSet(DOMAIN mains) /\ Cardinality(DOMAIN mains) = Initial
  BY <1>1 DEF Fit, Initial, MainsFit
<1>6. Initial # 0
  <2>1. PICK w \in DOMAIN team : team[w].main \in DOMAIN mains
    BY <1>2 DEF Fit, ScriptFits
  <2> QED BY <1>5, <2>1, FS_EmptySet
<1> QED BY <1>1, <1>2, <1>3, <1>4, <1>5, <1>6

LEMMA Expects == Fit /\ Unblocked(cfg) => Flows /\ Initial # 0
BY Somebody

LEMMA NewRoundOpen ==
  ASSUME Fit, Unblocked(cfg) PROVE ~Complete(NewRound)
<1>1. Expected # 0 BY Somebody
<1>2. Cardinality({}) = 0 BY FS_EmptySet
<1> QED BY <1>1, <1>2 DEF Complete, NewRound, Expected

LEMMA MeetsMains ==
  ASSUME TInv, LInv, stage = "running", NEW k \in DOMAIN mains, main[k] = "start", PostMeets("tnet", {k}, {}),
         Unblocked(cfg)
  PROVE  round.mains \cup {k} = DOMAIN main
<1>1. Fit BY DEF TInv, Shape, Live
<1>2. round.workers = {} BY DEF PostMeets, Fails, TInv, RoundOK
<1>3. ~Met BY DEF LInv, Together, TInv, Shape
<1>4. round.needed = Initial BY <1>3 DEF LInv, First
<1>5. Cardinality(round.mains \cup {k}) + Cardinality({}) = Initial
  <2>1. round.workers \cup {} = {} BY <1>2
  <2> QED BY <1>4, <2>1 DEF PostMeets, Complete, Joined
<1>6. round.mains \cup {k} \subseteq DOMAIN mains BY DEF TInv, RoundOK
<1>7. IsFiniteSet(DOMAIN mains) /\ Cardinality(DOMAIN mains) = Initial BY <1>1, Somebody
<1>8. Cardinality(round.mains \cup {k}) = Cardinality(DOMAIN mains)
  BY <1>5, <1>6, <1>7, FS_EmptySet, FS_Subset, FS_CardinalityType
<1>9. round.mains \cup {k} = DOMAIN mains BY <1>6, <1>7, <1>8, FS_Subset
<1> QED BY <1>9 DEF TInv, Shape

LEMMA PostLInv == ASSUME TInv, LInv, Posts PROVE LInv'
<1> USE DEF TInv, LInv
<1>0. /\ stage = "running" /\ team' = team /\ mains' = mains /\ cfg' = cfg
      /\ Initial' = Initial /\ (Unblocked(cfg)' <=> Unblocked(cfg))
      /\ \A k : WorkersOf(k)' = WorkersOf(k)
      /\ \A k : ServersOf(k)' = ServersOf(k)
      /\ \A k : IsClient(k)' <=> IsClient(k)
  BY InitialKept DEF Posts, Same
<1>1. Fit /\ DOMAIN main = DOMAIN mains /\ DOMAIN work = DOMAIN team
  BY <1>0 DEF Shape, Live
<1>2. \A w \in DOMAIN team : team[w].main \in DOMAIN main
  BY <1>1 DEF Fit, ScriptFits
<1>3. \A k \in DOMAIN mains : WorkersOf(k) \subseteq DOMAIN work
  BY <1>1 DEF WorkersOf
<1>13. "needed" \in DOMAIN NewRound BY DEF NewRound
<1>4. CASE PostFails
  BY <1>0, <1>4 DEF PostFails, Open, Waiters, First, Together, Born, Over, Served
<1>5. ASSUME NEW command, NEW ms \in SUBSET DOMAIN main, NEW ws \in SUBSET DOMAIN work,
             \A k \in ms : main[k] = "start", \A w \in ws : work[w] = "running",
             PostJoins(command, ms, ws)
      PROVE  LInv'
  <2>1. round' = [command |-> command, needed |-> round.needed, mains |-> round.mains \cup ms,
                  workers |-> round.workers \cup ws]
    BY <1>5 DEF PostJoins, Joined
  <2>2. Open'
    <3>1. Complete(round') <=> Complete(Joined(command, ms, ws)) BY <1>5 DEF PostJoins
    <3> QED BY <1>0, <1>5, <3>1 DEF Open, PostJoins, Complete
  <2>3. /\ stage' = "running" /\ DOMAIN main' = DOMAIN main /\ DOMAIN work' = DOMAIN work
        /\ \A k \in DOMAIN main : main'[k] = IF k \in ms THEN "waiting" ELSE main[k]
        /\ \A w \in DOMAIN work : work'[w] = IF w \in ws THEN "waiting" ELSE work[w]
    BY <1>0, <1>5 DEF PostJoins
  <2>4. Met' <=> Met
    BY <1>5, <2>3 DEF Met
  <2>5. Waiters' /\ First'
    BY <1>0, <2>1, <2>3, <2>4 DEF Waiters, First
  <2>6. Together'
    BY <1>0, <1>5, <2>3, <2>4 DEF Together
  <2>7. Born'
    BY <1>0, <1>1, <1>2, <1>5, <2>3 DEF Born
  <2>8. Over'
    BY <1>0, <1>1, <1>3, <1>5, <2>3 DEF Over, Ended
  <2>9. Served'
    BY <1>0, <2>3 DEF Served
  <2> QED BY <2>2, <2>5, <2>6, <2>7, <2>8, <2>9
<1>6. ASSUME NEW k \in DOMAIN mains, main[k] = "start", PostMeets("tnet", {k}, {}) PROVE LInv'
  <2>1. /\ stage' = "running" /\ DOMAIN main' = DOMAIN main /\ DOMAIN work' = DOMAIN work /\ round' = NewRound
        /\ \A j \in DOMAIN main : main'[j] = IF j \in round.mains \cup {k} THEN "timed" ELSE main[j]
        /\ \A w \in DOMAIN work : work'[w] = work[w]
    <3>1. round.workers = {} BY <1>6 DEF PostMeets, Fails, RoundOK
    <3> QED BY <1>0, <1>6, <3>1 DEF PostMeets
  <2>2. Open'
    BY <1>0, <1>1, <2>1, NewRoundOpen DEF Open, Complete
  <2>3. round.workers = {} BY <1>6 DEF PostMeets, Fails, RoundOK
  <2>4. Waiters'
    BY <1>0, <2>1, <2>3 DEF Waiters
  <2>5. Met' BY <1>1, <1>6, <2>1 DEF Met
  <2>6. Together'
    <3>1. Unblocked(cfg) => \A j \in DOMAIN main : main'[j] = "timed"
      BY <1>0, <1>6, <2>1, MeetsMains
    <3> QED BY <1>0, <2>1, <3>1 DEF Together
  <2>7. Born' /\ Over' /\ Served'
    BY <1>0, <1>1, <1>2, <1>3, <2>1 DEF Born, Over, Served
  <2> QED BY <1>13, <2>1, <2>2, <2>4, <2>5, <2>6, <2>7 DEF First
<1>7. ASSUME NEW w \in DOMAIN team, work[w] = "running", PostMeets("sync", {}, {w}) PROVE LInv'
  <2>1. round.mains = {} BY <1>7 DEF PostMeets, Fails, RoundOK
  <2>2. /\ stage' = "running" /\ DOMAIN main' = DOMAIN main /\ DOMAIN work' = DOMAIN work /\ round' = NewRound
        /\ \A j \in DOMAIN main : main'[j] = main[j]
        /\ \A v \in DOMAIN work : work'[v] = IF v \in round.workers \cup {w} THEN "running" ELSE work[v]
    BY <1>0, <1>7, <2>1 DEF PostMeets
  <2>3. Open'
    BY <1>0, <1>1, <2>2, NewRoundOpen DEF Open, Complete
  <2>4. Waiters'
    BY <1>0, <2>1, <2>2 DEF Waiters
  <2>5. Met /\ (Met' <=> Met)
    <3>1. main[team[w].main] \in {"forked", "done"} BY <1>7 DEF Forks
    <3> QED BY <1>2, <2>2, <3>1 DEF Met
  <2>6. Together'
    BY <1>0, <2>2, <2>5 DEF Together
  <2>7. Born'
    BY <1>0, <1>1, <1>2, <2>2 DEF Born
  <2>8. Over'
    <3>1. \A v \in round.workers \cup {w} : work[v] \notin Ended
      BY <1>7 DEF RoundWaits, Ended
    <3> QED BY <1>0, <1>1, <1>3, <2>2, <3>1 DEF Over
  <2>9. Served' BY <1>0, <2>2 DEF Served
  <2> QED BY <1>13, <2>2, <2>3, <2>4, <2>5, <2>6, <2>7, <2>8, <2>9 DEF First
<1>8. ASSUME NEW w \in DOMAIN team, work[w] = "running", PostFinishes("rslt", {}, {w}) PROVE LInv'
  <2>1. /\ stage' = "finished" /\ DOMAIN main' = DOMAIN main /\ DOMAIN work' = DOMAIN work
        /\ \A j \in DOMAIN main : main'[j] = main[j]
        /\ \A v \in DOMAIN work : work'[v] = IF v = w THEN "waiting" ELSE work[v]
    BY <1>8 DEF PostFinishes
  <2>2. Born' BY <1>0, <1>1, <1>2, <2>1 DEF Born
  <2>3. Over' BY <1>0, <1>1, <1>3, <1>8, <2>1 DEF Over, Ended
  <2>4. Served' BY <1>0, <2>1 DEF Served
  <2>5. First' BY <1>8, <1>13, <2>1 DEF PostFinishes, First
  <2> QED BY <2>1, <2>2, <2>3, <2>4, <2>5 DEF Open, Waiters, Together
<1>9. ASSUME NEW k \in DOMAIN mains, main[k] = "start", Post("tnet", {k}, {}), ~PostFails PROVE LInv'
  <2>1. ~PostFinishes("tnet", {k}, {}) BY DEF PostFinishes
  <2>2. PostJoins("tnet", {k}, {}) \/ PostMeets("tnet", {k}, {}) BY <1>9, <2>1, PostCases
  <2> QED BY <1>1, <1>5, <1>6, <1>9, <2>2
<1>10. ASSUME NEW w \in DOMAIN team, At(w, "sync"), Post("sync", {}, {w}), ~PostFails PROVE LInv'
  <2>1. ~PostFinishes("sync", {}, {w}) BY DEF PostFinishes
  <2>2. PostJoins("sync", {}, {w}) \/ PostMeets("sync", {}, {w}) BY <1>10, <2>1, PostCases
  <2>3. work[w] = "running" BY <1>10 DEF At
  <2> QED BY <1>1, <1>5, <1>7, <2>2, <2>3
<1>11. ASSUME NEW w \in DOMAIN team, At(w, "result"), Post("rslt", {}, {w}), ~PostFails PROVE LInv'
  <2>1. ~PostMeets("rslt", {}, {w}) BY DEF PostMeets
  <2>2. PostJoins("rslt", {}, {w}) \/ PostFinishes("rslt", {}, {w}) BY <1>11, <2>1, PostCases
  <2>3. work[w] = "running" BY <1>11 DEF At
  <2> QED BY <1>1, <1>5, <1>8, <2>2, <2>3
<1> QED BY <1>4, <1>9, <1>10, <1>11 DEF Posts, Posting

LEMMA QuietLInv == ASSUME TInv, LInv, Same, UNCHANGED <<stage, main, work, round>> PROVE LInv'
<1>1. cfg' = cfg /\ mains' = mains /\ team' = team BY DEF Same
<1>2. Initial' = Initial /\ (Unblocked(cfg)' <=> Unblocked(cfg))
  BY InitialKept
<1>3. /\ \A k : WorkersOf(k)' = WorkersOf(k)
      /\ \A k : ServersOf(k)' = ServersOf(k)
      /\ \A k : IsClient(k)' <=> IsClient(k)
  BY InitialKept
<1>4. Met' <=> Met BY DEF Met
<1>5. Open' /\ Waiters' /\ First' /\ Together'
  BY <1>2, <1>4 DEF LInv, Open, Waiters, First, Together, Complete
<1>6. Born' /\ Over' /\ Served'
  BY <1>1, <1>3 DEF LInv, Born, Over, Served
<1> QED BY <1>5, <1>6 DEF LInv

LEMMA BlankLInv == Blank /\ "needed" \in DOMAIN round /\ stage # "running" => LInv
<1> SUFFICES ASSUME Blank, "needed" \in DOMAIN round, stage # "running" PROVE LInv
  OBVIOUS
<1>1. DOMAIN << >> = {} OBVIOUS
<1>2. DOMAIN main = {} /\ DOMAIN mains = {} /\ DOMAIN team = {}
  BY <1>1 DEF Blank
<1> QED BY <1>2 DEF LInv, Open, Waiters, First, Together, Born, Over, Served

LEMMA CreateLInv == ASSUME TInv, LInv, Create, TInv' PROVE LInv'
<1>1. Blank /\ stage' = "running"
  BY DEF Create, TInv, Shape, Live
<1>2. /\ DOMAIN main' = DOMAIN mains' /\ DOMAIN work' = DOMAIN team' /\ Fit'
  BY <1>1 DEF TInv, Shape, Live
<1>3. /\ mains' = Mains(cfg)
      /\ main' = [k \in DOMAIN Mains(cfg) |-> IF Mains(cfg)[k].starts THEN "start" ELSE "pending"]
      /\ \A w \in DOMAIN work' : work'[w] = "unborn"
      /\ round' = [round EXCEPT !.needed = InitialClients(cfg, Len(Nss(cfg)))]
      /\ cfg' = cfg
  BY DEF Create, driverVars
<1>4. \A k \in DOMAIN main' : main'[k] = IF mains'[k].starts THEN "start" ELSE "pending"
  BY <1>3
<1>5. round'.mains = {} /\ round'.workers = {} /\ "needed" \in DOMAIN round'
  <2>1. round'.mains = round.mains /\ round'.workers = round.workers /\ DOMAIN round' = DOMAIN round
    BY <1>3
  <2> QED BY <1>1, <2>1 DEF Blank, LInv, First
<1>6. Initial' = InitialClients(cfg, Len(Nss(cfg)))
  BY <1>3 DEF Initial
<1>7. \A w \in DOMAIN team' : team'[w].main \in DOMAIN mains'
  BY <1>2 DEF Fit, ScriptFits
<1>8. ~Met'
  BY <1>4 DEF Met
<1>9. (Fit /\ Unblocked(cfg) => Flows /\ Initial # 0)'
  BY Expects, PTL
<1>10. First'
  <2>1. "needed" \in DOMAIN round BY DEF LInv, First
  <2>2. round'.needed = InitialClients(cfg, Len(Nss(cfg)))
    BY <1>3, <2>1
  <2> QED BY <1>5, <1>6, <2>2 DEF First
<1>11. Open'
  <2>1. Cardinality({}) + Cardinality({}) = 0 BY FS_EmptySet
  <2> QED BY <1>1, <1>2, <1>5, <1>8, <1>9, <1>10, <2>1 DEF Open, First, Complete
<1>12. Waiters'
  BY <1>3, <1>4 DEF Waiters
<1>13. Together'
  BY <1>2, <1>4, <1>8, <1>9 DEF Together, Flows, MainsFlow
<1>14. Born' /\ Over' /\ Served'
  BY <1>2, <1>4, <1>7 DEF Born, Over, Served
<1> QED BY <1>10, <1>11, <1>12, <1>13, <1>14 DEF LInv

LEMMA MainLInv ==
  ASSUME TInv, LInv, NEW k \in DOMAIN mains, MainForks(k) \/ MainDone(k) PROVE LInv'
<1> USE DEF TInv, LInv
<1>1. /\ Same /\ UNCHANGED <<stage, round>> /\ stage = "running"
      /\ k \in DOMAIN main /\ main[k] \in {"timed", "forked"} /\ DOMAIN main' = DOMAIN main
      /\ main'[k] \in {"forked", "done"} /\ \A j \in DOMAIN main \ {k} : main'[j] = main[j]
  BY DEF MainForks, MainDone, Same, driverVars, podVars, fileVars, Shape
<1>2. /\ cfg' = cfg /\ mains' = mains /\ team' = team
      /\ Initial' = Initial /\ (Unblocked(cfg)' <=> Unblocked(cfg))
      /\ \A j : WorkersOf(j)' = WorkersOf(j)
      /\ \A j : ServersOf(j)' = ServersOf(j)
      /\ \A j : IsClient(j)' <=> IsClient(j)
  BY <1>1, InitialKept DEF Same
<1>3. /\ DOMAIN work' = DOMAIN work /\ DOMAIN work = DOMAIN team
      /\ \A w \in DOMAIN work : work'[w] = IF MainForks(k) /\ w \in WorkersOf(k) THEN "running" ELSE work[w]
  BY DEF MainForks, MainDone, Shape
<1>4. Open' /\ Waiters'
  BY <1>1, <1>2, <1>3 DEF Open, Waiters, Complete
<1>5. Met /\ Met'
  BY <1>1 DEF Met
<1>6. First' /\ Together'
  BY <1>1, <1>2, <1>5 DEF First, Together
<1>7. Born'
  <2> SUFFICES ASSUME NEW w \in DOMAIN team, main'[team[w].main] \in {"forked", "done"} PROVE work'[w] # "unborn"
    BY <1>2 DEF Born
  <2>1. team[w].main \in DOMAIN main
    BY <1>1 DEF Fit, ScriptFits, Shape, Live
  <2>2. CASE team[w].main = k /\ MainForks(k)
    BY <1>3, <2>2 DEF WorkersOf
  <2>3. CASE team[w].main = k /\ ~MainForks(k)
    BY <1>3, <2>3 DEF MainDone, Born
  <2>4. CASE team[w].main # k
    BY <1>1, <1>3, <2>1, <2>4 DEF Born, WorkersOf
  <2> QED BY <2>2, <2>3, <2>4
<1>8. Over'
  <2> SUFFICES ASSUME NEW j \in DOMAIN mains, main'[j] = "done", NEW w \in WorkersOf(j) PROVE work'[w] \in Ended
    BY <1>2 DEF Over
  <2>1. w \in DOMAIN work /\ team[w].main = j BY <1>3 DEF WorkersOf
  <2>2. CASE j = k
    <3>1. MainDone(k)
      BY <2>2, <1>1 DEF MainForks
    <3>2. ~MainForks(k)
      BY <3>1 DEF MainDone, MainForks
    <3> QED BY <1>3, <2>1, <2>2, <3>1, <3>2 DEF MainDone
  <2>3. CASE j # k
    BY <1>1, <1>3, <2>1, <2>3 DEF Over, WorkersOf, Shape
  <2> QED BY <2>2, <2>3
<1>9. Served'
  <2>1. IsClient(k) => ServersOf(k) # {}
    BY <1>1 DEF MainForks, MainDone, Served
  <2> QED BY <1>1, <1>2, <2>1 DEF Served
<1> QED BY <1>4, <1>6, <1>7, <1>8, <1>9

LEMMA EndLInv ==
  ASSUME TInv, LInv, NEW w \in DOMAIN team, EndsWell(w) \/ Killed(w) PROVE LInv'
<1> USE DEF TInv, LInv
<1>1. Same /\ UNCHANGED <<stage, main, round>>
  BY DEF EndsWell, Killed, Same, driverVars, podVars
<1>2. /\ cfg' = cfg /\ mains' = mains /\ team' = team
      /\ Initial' = Initial /\ (Unblocked(cfg)' <=> Unblocked(cfg))
      /\ \A j : WorkersOf(j)' = WorkersOf(j)
      /\ \A j : ServersOf(j)' = ServersOf(j)
      /\ \A j : IsClient(j)' <=> IsClient(j)
  BY <1>1, InitialKept DEF Same
<1>3. /\ DOMAIN work' = DOMAIN work /\ DOMAIN work = DOMAIN team
      /\ work'[w] \in Ended /\ \A v \in DOMAIN work \ {w} : work'[v] = work[v]
  BY DEF EndsWell, Killed, Shape, Ended
<1>4. Open' /\ First' /\ Together' /\ Served'
  <2>1. Met' <=> Met BY <1>1 DEF Met
  <2> QED BY <1>1, <1>2, <2>1 DEF Open, First, Together, Served, Complete
<1>5. Waiters'
  BY <1>1, <1>3 DEF Waiters, Ended
<1>6. Born'
  BY <1>1, <1>2, <1>3 DEF Born, Ended
<1>7. Over'
  <2>1. \A j : WorkersOf(j) \subseteq DOMAIN work BY <1>3 DEF WorkersOf
  <2> QED BY <1>1, <1>2, <1>3, <2>1 DEF Over, Shape
<1> QED BY <1>4, <1>5, <1>6, <1>7

LEMMA NextLInv == ASSUME TInv, LInv, [Next]_vars, TInv' PROVE LInv'
<1>1. CASE UNCHANGED <<stage, cfg, mains, team, main, work, pc, raised, dirs, lost, fault, round, skew>>
  BY <1>1, QuietLInv DEF Same
<1>2. CASE Refuse \/ Plan
  <2>1. Blank' /\ stage' # "running" /\ round' = round
    BY <1>2 DEF TInv, Shape, Live, Blank, Refuse, Plan, podVars
  <2>2. (Blank /\ "needed" \in DOMAIN round /\ stage # "running" => LInv)' BY BlankLInv, PTL
  <2> QED BY <2>1, <2>2 DEF LInv, First
<1>3. CASE Create
  BY <1>3, CreateLInv
<1>4. CASE Posts
  BY <1>4, PostLInv
<1>5. ASSUME NEW k \in DOMAIN mains, MainForks(k) \/ MainDone(k) PROVE LInv'
  BY <1>5, MainLInv
<1>6. ASSUME NEW w \in DOMAIN team, EndsWell(w) \/ Killed(w) PROVE LInv'
  BY <1>6, EndLInv
<1>7. ASSUME NEW w \in DOMAIN team, Moves(w) PROVE LInv'
  <2>1. Same /\ UNCHANGED <<stage, main, work, round>>
    <3>1. ASSUME NEW n, Advances(w, n) PROVE Same /\ UNCHANGED <<stage, main, work, round>>
      BY <3>1 DEF Advances
    <3>2. CASE Falls(w)
      BY <3>2 DEF Falls, Raises
    <3> QED BY <1>7, <3>1, <3>2, MovesCases DEF TInv
  <2> QED BY <2>1, QuietLInv
<1> QED BY <1>1, <1>2, <1>3, <1>4, <1>5, <1>6, <1>7, Steps DEF TInv

Progress == (\E k \in DOMAIN mains : MainCan(k)) \/ (\E w \in DOMAIN team : WorkerCan(w))

\* Before the main processes have met, one of them can connect.
LEMMA BeforeMeeting ==
  ASSUME TInv, LInv, stage = "running", Unblocked(cfg), ~Met
  PROVE  \E k \in DOMAIN mains : MainCan(k)
<1> USE DEF TInv, LInv
<1>1. Fit /\ DOMAIN main = DOMAIN mains
  BY DEF Shape, Live
<1> SUFFICES ASSUME \A k \in DOMAIN mains : main[k] # "start" PROVE FALSE
  BY <1>1 DEF MainCan
<1>2. \A k \in DOMAIN main : main[k] = "waiting"
  BY <1>1 DEF Shape, MainStates, Met, Together
<1>3. round.mains = DOMAIN mains
  BY <1>1, <1>2 DEF Waiters, RoundOK
<1>4. Cardinality(DOMAIN mains) = Initial /\ Initial # 0
  BY <1>1, Somebody
<1>5. round.workers = {}
  BY <1>3, <1>4, FS_EmptySet DEF RoundOK
<1>6. round.needed = Initial
  BY DEF First
<1>7. Cardinality({}) = 0 /\ Cardinality(DOMAIN mains) \in Nat
  BY <1>1, <1>4, Somebody, FS_EmptySet, FS_CardinalityType
<1>8. Complete(round)
  BY <1>3, <1>4, <1>5, <1>6, <1>7 DEF Complete
<1> QED BY <1>8 DEF Open

\* The server of a client that has begun goes on, or serves.
LEMMA ServerComes ==
  ASSUME IInv, LInv, stage = "running", Unblocked(cfg), fault # "kill", Met,
         NEW k \in DOMAIN mains, IsClient(k), ServersOf(k) # {}
  PROVE  Serving(k) \/ \E j \in DOMAIN mains : MainCan(j)
<1>1. Fit /\ Flows /\ DOMAIN main = DOMAIN mains /\ DOMAIN work = DOMAIN team
  BY Somebody DEF IInv, TInv, Shape, Live
<1>2. PICK j \in ServersOf(k) : TRUE
  OBVIOUS
<1>3. j \in DOMAIN mains /\ mains[j].args.script # "uperf-client.py" /\ WorkersOf(j) # {}
  BY <1>1, <1>2 DEF Flows, ServersOf, MainsFlow
<1>4. main[j] \in {"timed", "forked", "done"}
  BY <1>1, <1>3 DEF IInv, TInv, Shape, MainStates, LInv, Together
<1>5. CASE main[j] = "timed"
  BY <1>3, <1>5 DEF MainCan
<1>6. CASE main[j] = "forked"
  BY <1>2, <1>6 DEF Serving
<1>7. main[j] # "done"
  <2>1. PICK w \in WorkersOf(j) : TRUE BY <1>3
  <2>2. w \in DOMAIN work /\ work[w] \notin Ended
    BY <1>1, <2>1 DEF IInv, NotEnded, WorkersOf
  <2> QED BY <1>3, <2>1, <2>2 DEF LInv, Over
<1> QED BY <1>4, <1>5, <1>6, <1>7

\* No directory is in the way of a worker that makes the one of its process.
LEMMA WayIsFree ==
  ASSUME IInv, stage = "running", Unblocked(cfg), NEW w \in Reporting, At(w, "mkdir")
  PROVE  ~InUse(w)
<1> USE DEF IInv
<1>1. Fit /\ Flows /\ OwnDirectories(cfg)
  BY Somebody DEF TInv, Shape, Live, Unblocked
<1>2. w \in DOMAIN team
  BY DEF Reporting, Reporters
<1>3. pc[w] \in DOMAIN team[w].ops /\ team[w].ops[pc[w]].op = "mkdir"
  BY <1>2, AtDomain DEF TInv
<1>4. NoneTo(team[w].ops, pc[w], {"make", "mkdir"}) /\ Has(team[w].ops, {"rmtree"})
  BY <1>1, <1>3 DEF Flows, ReportersFlow
<1> SUFFICES ASSUME NEW d \in dirs, d.place = ForProcess(w).place, d.key = ForProcess(w).key PROVE FALSE
  BY DEF InUse
<1> DEFINE v == d.owner
<1>5. PICK j \in 1..(pc[v] - 1) : d \in MadeBy(v, team[v].ops[j].op)
  BY DEF Made
<1>6. v # w
  BY <1>4, <1>5 DEF MadeBy, NoneTo
<1>7. v \in DOMAIN team
  BY DEF TInv, Shape
<1>8. TreesApart(v, w)
  BY <1>1, <1>2, <1>6, <1>7 DEF Fit
<1>9. d.key # <<>>
  BY DEF ForProcess
<1>10. d = ForProcess(v) /\ team[v].ops[j].op = "mkdir"
  BY <1>5, <1>9 DEF MadeBy, Homes
<1>11. j \in DOMAIN team[v].ops
  BY <1>5, <1>7, ScriptOK DEF TInv, Shape
<1>12. PICK i \in DOMAIN team[w].ops : team[w].ops[i].op = "rmtree"
  BY <1>4 DEF Has
<1> QED BY <1>1, <1>8, <1>10, <1>11, <1>12 DEF TreesApart

\* When nobody can go on, everybody who reports is in the round.
LEMMA OthersWait ==
  ASSUME IInv, LInv, stage = "running", Unblocked(cfg), fault # "kill", Met, ~Progress, NEW w \in Reporting
  PROVE  work[w] = "waiting"
<1> USE DEF IInv
<1>1. Fit /\ Flows /\ w \in DOMAIN team /\ DOMAIN main = DOMAIN mains /\ DOMAIN work = DOMAIN team
  BY Somebody DEF TInv, Shape, Live, Reporting, Reporters
<1> DEFINE k == team[w].main
<1>2. k \in DOMAIN mains
  BY <1>1 DEF Fit, ScriptFits
<1>3. main[k] \in {"timed", "forked", "done"}
  BY <1>1, <1>2 DEF TInv, Shape, MainStates, LInv, Together
<1>4. main[k] # "timed"
  <2> SUFFICES ASSUME main[k] = "timed" PROVE FALSE
    OBVIOUS
  <2>1. mains[k].args.script = "uperf-client.py" /\ ServersOf(k) # {} /\ ~Serving(k)
    BY <1>2 DEF Progress, MainCan
  <2>2. IsClient(k)
    BY <1>1, <1>2, <2>1 DEF Flows, MainsFlow
  <2> QED BY <1>2, <2>1, <2>2, ServerComes DEF Progress
<1>5. work[w] # "unborn" /\ work[w] \notin Ended
  BY <1>1, <1>3, <1>4 DEF LInv, Born, NotEnded
<1>6. work[w] # "running"
  <2> SUFFICES ASSUME work[w] = "running" PROVE FALSE
    OBVIOUS
  <2>1. ~WorkerCan(w)
    BY <1>1 DEF Progress
  <2>2. ~At(w, "forever") /\ ~At(w, "serve")
    <3>1. ~Has(team[w].ops, {"serve", "forever"}) BY <1>1 DEF Flows, ReportersFlow
    <3>2. ASSUME NEW op \in {"serve", "forever"}, At(w, op) PROVE FALSE
      BY <1>1, <3>1, <3>2, AtDomain DEF TInv, Has
    <3> QED BY <3>2
  <2>3. At(w, "connect") => Serving(k)
    <3> SUFFICES ASSUME At(w, "connect") PROVE Serving(k)
      OBVIOUS
    <3>1. pc[w] \in DOMAIN team[w].ops /\ team[w].ops[pc[w]].op = "connect"
      BY <1>1, AtDomain DEF TInv
    <3>2. IsClient(k)
      BY <1>1, <3>1 DEF Flows, Has, ReportersFlow
    <3>3. ServersOf(k) # {}
      BY <1>1, <1>2, <1>3, <1>4, <3>2 DEF LInv, Served
    <3> QED BY <1>2, <3>2, <3>3, ServerComes DEF Progress
  <2>4. At(w, "mkdir") => ~InUse(w)
    BY WayIsFree
  <2> QED BY <2>1, <2>2, <2>3, <2>4 DEF WorkerCan
<1> QED BY <1>1, <1>5, <1>6 DEF TInv, Shape, WorkStates, Ended

LEMMA AfterMeeting ==
  ASSUME IInv, LInv, stage = "running", Unblocked(cfg), fault # "kill", Met
  PROVE  Progress
<1> SUFFICES ASSUME ~Progress PROVE FALSE
  OBVIOUS
<1> USE DEF IInv
<1>1. Fit
  BY DEF TInv, Shape, Live
<1>2. \A k \in DOMAIN main : main[k] # "waiting"
  BY DEF LInv, Together
<1>3. round.mains = {}
  <2>1. round.mains \subseteq DOMAIN main BY DEF TInv, RoundOK, Shape
  <2> QED BY <1>2, <2>1 DEF TInv, RoundWaits
<1>4. Reporting \subseteq round.workers
  <2>1. \A w \in Reporting : w \in DOMAIN work /\ work[w] = "waiting"
    BY OthersWait DEF TInv, Shape, Reporting, Reporters
  <2> QED BY <2>1 DEF LInv, Waiters
<1>5. round.workers \subseteq Reporting
  <2> SUFFICES ASSUME NEW w \in round.workers, w \notin Reporting PROVE FALSE
    OBVIOUS
  <2>1. w \in DOMAIN team /\ pc[w] = 1
    BY DEF TInv, RoundOK, Idle, NoneAnswers
  <2>2. team[w].ops[1].op \in {"serve", "forever"}
    BY <2>1, ScriptOK DEF TInv, ScriptFits
  <2>3. team[w].ops[1].op \in {"sync", "result"}
    BY <2>1 DEF TInv, RoundWaits, Awaited
  <2> QED BY <2>2, <2>3
<1>6. round.workers = Reporting
  BY <1>4, <1>5
<1>7. IsFiniteSet(Reporting) /\ Cardinality(Reporting) = Expected
  BY <1>1, Somebody
<1>8. round.needed = Expected
  BY DEF Met, Counted
<1>9. Cardinality({}) = 0 /\ Cardinality(Reporting) \in Nat
  BY <1>7, FS_EmptySet, FS_CardinalityType
<1>10. Complete(round)
  BY <1>3, <1>6, <1>7, <1>8, <1>9 DEF Complete
<1> QED BY <1>10 DEF LInv, Open

\* As long as a run is under way some process can take a step, for any numbers of containers and
\* workers and any interleaving, and after an exception (NobodyStalls): of those that wait, each
\* waits for one that comes, and all together complete the round.
THEOREM SomebodyGoesOn == Spec /\ []ScriptsFit => []NobodyStalls
<1>1. Init => LInv
  <2> SUFFICES ASSUME Init PROVE LInv
    OBVIOUS
  <2>1. Blank /\ stage # "running" /\ "needed" \in DOMAIN round
    BY InitTInv DEF Init, TInv, Shape, Live
  <2> QED BY <2>1, BlankLInv
<1>2. TInv /\ LInv /\ [Next]_vars /\ TInv' => LInv'
  BY NextLInv
<1>3. IInv => TInv
  BY DEF IInv
<1>4. ASSUME IInv, LInv PROVE NobodyStalls
  <2> SUFFICES ASSUME stage = "running", Unblocked(cfg), fault # "kill" PROVE Progress
    BY DEF NobodyStalls, Progress
  <2>1. CASE Met
    BY <1>4, <2>1, AfterMeeting
  <2>2. CASE ~Met
    BY <1>3, <1>4, <2>2, BeforeMeeting DEF Progress
  <2> QED BY <2>1, <2>2
<1> QED BY <1>1, <1>2, <1>3, <1>4, Invariant, PTL DEF Spec
=============================================================================
