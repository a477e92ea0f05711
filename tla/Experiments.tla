----------------------------- MODULE Experiments -----------------------------
(***************************************************************************)
(* The programs under check_properties/: they write one or more queries    *)
(* about a network, let Reluplex solve each, and print the answers.        *)
(*                                                                         *)
(* - A property driver asks one question.  It calls initialize() itself,   *)
(*   to print the bounds found, and then solve().                          *)
(* - The adversarial driver asks, around a point, whether another output   *)
(*   can be as small as the one that is minimal at the point, for every    *)
(*   other output in turn, until an answer is SAT.  It only calls solve(). *)
(*                                                                         *)
(* initialize() is a step for initialUpdate and one for each row.  What the*)
(* main loop of solve() does is the subject of LpRepair, SmtCore and       *)
(* Simplex: here it ends with the right answer, an error, or interrupted.  *)
(*                                                                         *)
(* Inputs are integers, so that a query's solutions can be enumerated.     *)
(* SIGQUIT may arrive at any time.                                         *)
(***************************************************************************)
EXTENDS NetworkQuery, Sequences

CONSTANTS
  Networks,     \* the networks to experiment with
  InputRange,   \* the inputs they are made for: an interval
  Delta,        \* inputDelta: how far an adversarial input may be
  MaxSignals    \* SIGQUITs

ASSUME ExperimentsAssumption ==
  /\ \A n \in Networks : \A i \in 1 .. LastLayer : \A j \in Node(i) :
       n.bias[i][j] \in Int /\ \A s \in Node(i - 1) : n.weight[i][s][j] \in Int
  /\ LayerSize[LastLayer] > 1
  /\ InputRange \subseteq Int /\ IsFiniteSet(InputRange) /\ InputRange # {}
  /\ Delta \in Nat
  /\ MaxSignals \in Nat

VARIABLES
  net,             \* the network
  driver,          \* "property" or "adversarial"
  box,             \* the bounds of the inputs
  minimal,         \* the output that is minimal at the point
  question,        \* the question being asked, or to be asked first
  part,            \* its number
  pc,
  caller,          \* of initialize(): "driver" or "solve"
  query,           \* what the Reluplex object holds
  todo,            \* basic variables whose rows are still to be visited
  wasInitialized,  \* _wasInitialized
  finalStatus,     \* _finalStatus
  quit,            \* _quit
  lastReluplex,    \* "null", "live", or "dangling": the object is gone
  witness,         \* the inputs of the solution found, or {}
  results,         \* for every question, what was printed and logged
  signals          \* SIGQUITs so far

experiment == <<net, driver, box, minimal>>
vars == <<experiment, question, part, pc, caller, query, todo, wasInitialized,
          finalStatus, quit, lastReluplex, witness, results, signals>>

Status == {"NOT_DONE", "SAT", "UNSAT", "ERROR"}
InBox(x, b) == \A i \in Inputs : b[i].lower <= x[i] /\ x[i] <= b[i].upper
Points(b) == {x \in [Inputs -> InputRange] : InBox(x, b)}

FindMinimal(outputs) ==
  Min({o \in Outputs : \A p \in Outputs : outputs[o] <= outputs[p]})

\* Mutant: the runner-up is skipped past the minimal output one too late.
RunnerUpLate(i, m) == IF i > m THEN i + 1 ELSE i

\* "if ( runnerUp >= minimal ) ++runnerUp"
RunnerUp(i, m) == IF i >= m THEN i + 1 ELSE i

\* Can output 0 reach the threshold?  property1
OutputAtLeast(threshold) == Question(0, {}, "output", FALSE, threshold)

\* Can output 0 be the largest?  property2
Largest == Question(0, Outputs \ {0}, "lower", FALSE, 0)

\* Can the target be the smallest?  property3, 4, 7 and 8
Smallest(t) == Question(t, Outputs \ {t}, "upper", FALSE, 0)

\* Can the target be at least as large as the other?  property5, 6a, 6b, 9 and 10
NotBelow(t, o) == Question(t, {o}, "lower", FALSE, 0)

\* The same, of the minimal output and the next of the others.
AdversarialQuestion(i, m) == Question(m, {RunnerUp(i, m)}, "lower", TRUE, 0)

-----------------------------------------------------------------------------
(***************************************************************************)
(* What a query means: the inputs determine all variables, layer by layer. *)
(* A pair that was merged has one variable left in its row, f.             *)
(***************************************************************************)
Nodes == UNION {{<<i, j>> : j \in Node(i)} : i \in 1 .. LastLayer}

Merged(q, i, j) == i \in Hidden /\ q.dissolved[<<B(i, j), F(i, j)>>] = "merge"
Forward(q, i, j, value) == IF Merged(q, i, j) THEN value ELSE Relu(value)

\* The values of the b's, from those of the layer before.
Backward(q, x) ==
  LET b[i \in 1 .. LastLayer] ==
        [j \in Node(i) |->
           LET row == q.rows[Aux(i, j)]
               own == IF Merged(q, i, j) THEN F(i, j) ELSE B(i, j)
           IN -(row[Constant(question)]
                  + Dot([s \in Node(i - 1) |-> row[F(i - 1, s)]],
                        [s \in Node(i - 1) |->
                           IF i = 1 THEN x[s] ELSE Forward(q, i - 1, s, b[i - 1][s])],
                        Node(i - 1)))
                * row[own]]
  IN b

Propagated(q, x) ==
  LET b == Backward(q, x)
      target == question.target
      Of(v) == CHOOSE n \in Nodes : v = B(n[1], n[2])
                                      \/ (n[1] \in Hidden /\ v = F(n[1], n[2]))
  IN [v \in Vars(q) |->
        IF v \in Inputs THEN x[v]
        ELSE IF v = Constant(question) THEN 1
        ELSE IF v \in AuxVars THEN 0
        ELSE IF v >= NumNodes
        THEN LET o == CHOOSE p \in question.others : v = Slack(question, p)
             IN q.rows[v][B(LastLayer, target)] * b[LastLayer][target]
                  + q.rows[v][B(LastLayer, o)] * b[LastLayer][o]
        ELSE LET n == Of(v)
             IN IF v = B(n[1], n[2]) THEN b[n[1]][n[2]]
                ELSE Forward(q, n[1], n[2], b[n[1]][n[2]])]

\* The bounds hold in the values given.
WithinBounds(q, value) ==
  /\ \A v \in DOMAIN q.lower : q.lower[v] <= value[v]
  /\ \A v \in DOMAIN q.upper : value[v] <= q.upper[v]

Satisfied(q, x) == WithinBounds(q, Propagated(q, x))

Solutions(q) == {x \in Points(box) : Satisfied(q, x)}

-----------------------------------------------------------------------------
Init ==
  /\ net \in Networks
  /\ \/ /\ driver = "property"
        /\ minimal = 0
        /\ box \in [Inputs -> {r \in [lower : InputRange, upper : InputRange] : r.lower <= r.upper}]
        /\ \/ question = Largest
           \/ \E t \in Outputs : question = Smallest(t)
           \/ \E t \in Outputs : \E o \in Outputs \ {t} : question = NotBelow(t, o)
           \/ \E threshold \in InputRange : question = OutputAtLeast(threshold)
     \/ /\ driver = "adversarial"
        /\ \E point \in [Inputs -> InputRange] :
             /\ box = [i \in Inputs |->
                         [lower |-> Max({point[i] - Delta, Min(InputRange)}),
                          upper |-> Min({point[i] + Delta, Max(InputRange)})]]
             /\ minimal = FindMinimal(Evaluate(net, point))
        /\ question = AdversarialQuestion(0, minimal)
  /\ part = 0
  /\ pc = "construct"
  /\ caller = "solve"
  /\ query = {}
  /\ todo = {}
  /\ wasInitialized = FALSE
  /\ finalStatus = "NOT_DONE"
  /\ quit = FALSE
  /\ lastReluplex = "null"
  /\ witness = {}
  /\ results = <<>>
  /\ signals = 0

\* The constructor and the calls that write the query.
Construct ==
  /\ pc = "construct"
  /\ query' = Build(net, question, box)
  /\ wasInitialized' = FALSE
  /\ finalStatus' = "NOT_DONE"
  /\ quit' = FALSE
  /\ lastReluplex' = "live"
  /\ caller' = IF driver = "property" THEN "driver" ELSE "solve"
  /\ pc' = IF driver = "property" THEN "initialize" ELSE "solve"
  /\ UNCHANGED <<experiment, question, part, todo, witness, results, signals>>

\* An InvariantViolationError, caught by initialize() whoever called it.
Refuted ==
  /\ finalStatus' = "UNSAT"
  /\ pc' = IF caller = "driver" THEN "solve" ELSE "initialized"
  /\ UNCHANGED <<todo, wasInitialized>>

\* An Error: a driver catches it and never calls solve(), which catches it too.
Thrown ==
  /\ finalStatus' = IF caller = "solve" THEN "ERROR" ELSE finalStatus
  /\ pc' = "returned"
  /\ UNCHANGED <<todo, wasInitialized, query>>

InitializeFirst ==
  /\ pc = "initialize"
  /\ query' = InitialUpdate(query)
  /\ IF query'.consistent
     THEN /\ pc' = "rows"
          /\ todo' = DOMAIN query.rows
          /\ UNCHANGED <<finalStatus, wasInitialized>>
     ELSE Refuted
  /\ UNCHANGED <<experiment, question, part, caller, quit, lastReluplex, witness,
                 results, signals>>

\* makeAllBoundsFiniteOnRow, of the next basic variable
InitializeRow ==
  /\ pc = "rows"
  /\ todo # {}
  /\ LET y == Min(todo) IN
     IF Cardinality(InfiniteOnRow(query, y)) > 1 THEN Thrown
     ELSE /\ query' = MakeBoundsFiniteOnRow(query, y)
          /\ IF query'.consistent
             THEN /\ todo' = todo \ {y}
                  /\ UNCHANGED <<pc, finalStatus, wasInitialized>>
             ELSE Refuted
  /\ UNCHANGED <<experiment, question, part, caller, quit, lastReluplex, witness,
                 results, signals>>

InitializeLast ==
  /\ pc = "rows"
  /\ todo = {}
  /\ IF \E v \in Vars(query) : ~Finite(query, v) THEN Thrown
     ELSE /\ wasInitialized' = TRUE
          /\ pc' = IF caller = "driver" THEN "solve" ELSE "initialized"
          /\ UNCHANGED <<query, todo, finalStatus>>
  /\ UNCHANGED <<experiment, question, part, caller, quit, lastReluplex, witness,
                 results, signals>>

\* solve() before its main loop, and in it
Solve ==
  /\ pc = "solve"
  /\ IF wasInitialized THEN pc' = "initialized" /\ UNCHANGED caller
     ELSE pc' = "initialize" /\ caller' = "solve"
  /\ UNCHANGED <<experiment, question, part, query, todo, wasInitialized, finalStatus,
                 quit, lastReluplex, witness, results, signals>>

Return(status, x) ==
  /\ finalStatus' = status
  /\ witness' = x
  /\ pc' = "returned"
  /\ UNCHANGED <<experiment, question, part, caller, query, todo, wasInitialized,
                 quit, lastReluplex, results, signals>>

SolveEarly ==
  /\ pc = "initialized"
  /\ \/ finalStatus = "UNSAT" /\ Return("UNSAT", {})
     \/ finalStatus # "UNSAT" /\ Return("ERROR", {})
     \/ finalStatus # "UNSAT" /\ quit /\ Return("NOT_DONE", {})

EnterLoop ==
  /\ pc = "initialized"
  /\ finalStatus # "UNSAT"
  /\ ~quit
  /\ pc' = "loop"
  /\ UNCHANGED <<experiment, question, part, caller, query, todo, wasInitialized,
                 finalStatus, quit, lastReluplex, witness, results, signals>>

LeaveLoop ==
  /\ pc = "loop"
  /\ \/ \E x \in Solutions(query) : Return("SAT", {x})
     \/ Solutions(query) = {} /\ Return("UNSAT", {})
     \/ Return("ERROR", {})
     \/ quit /\ Return("NOT_DONE", {})

\* What main prints, and what the destructor appends to the summary
Printed(status) ==
  IF driver = "property" THEN status ELSE IF status = "SAT" THEN "SAT" ELSE "UNSAT"
Logged(status) == IF status = "NOT_DONE" THEN "TIMEOUT" ELSE status

\* "while ( ( !sat ) && ( i < 4 ) )", with one output less than there are
MoreParts ==
  driver = "adversarial" /\ finalStatus # "SAT" /\ part < LayerSize[LastLayer] - 2

\* The solver is destroyed; the next question is asked unless there is none.
NextQuestion ==
  /\ pc = "returned"
  /\ results' = Append(results, [question |-> question, status |-> finalStatus,
                                 printed |-> Printed(finalStatus),
                                 logged |-> Logged(finalStatus)])
  /\ IF MoreParts
     THEN /\ part' = part + 1
          /\ question' = AdversarialQuestion(part + 1, minimal)
          /\ pc' = "construct"
     ELSE pc' = "done" /\ UNCHANGED <<part, question>>
  /\ query' = {}
  /\ todo' = {}
  /\ wasInitialized' = FALSE
  /\ lastReluplex' = "dangling"
  /\ witness' = {}
  /\ UNCHANGED <<experiment, caller, finalStatus, quit, signals>>

\* got_signal.  The write through a dangling pointer reaches no solver.
GotSignal ==
  /\ signals < MaxSignals
  /\ pc # "done"
  /\ signals' = signals + 1
  /\ quit' = (quit \/ lastReluplex = "live")
  /\ UNCHANGED <<experiment, question, part, pc, caller, query, todo, wasInitialized,
                 finalStatus, lastReluplex, witness, results>>

Finished == pc = "done" /\ UNCHANGED vars

Next ==
  \/ Construct
  \/ InitializeFirst
  \/ InitializeRow
  \/ InitializeLast
  \/ Solve
  \/ SolveEarly
  \/ EnterLoop
  \/ LeaveLoop
  \/ NextQuestion
  \/ GotSignal
  \/ Finished

Spec == Init /\ [][Next]_vars

-----------------------------------------------------------------------------
Live == pc \in {"initialize", "rows", "solve", "initialized", "loop", "returned"}

\* The states at which the query has just been changed, if it has been
Written == pc \in {"initialize", "rows", "initialized"}

\* The meaning of a question: a statement about the network's outputs.
Answers(qu, outputs) ==
  IF qu.side = "output" THEN outputs[0] >= qu.threshold
  ELSE \A o \in qu.others \ {qu.target} :
         IF qu.side = "lower" THEN outputs[qu.target] >= outputs[o]
         ELSE outputs[qu.target] <= outputs[o]

(***************************************************************************)
(* The query encodes the network at every step: the b's of the output layer*)
(* that follow from the inputs are what evaluate_network computes, which   *)
(* the drivers print next to them ("Total error").  Merges included, which *)
(* take a column out of the rows that later layers are computed from.      *)
(***************************************************************************)
EncodesNetwork ==
  Written /\ query.consistent =>
    \A x \in Points(box) :
      LET outputs == Evaluate(net, x) value == Propagated(query, x) IN
      Satisfied(query, x) => \A o \in Outputs : value[B(LastLayer, o)] = outputs[o]

(***************************************************************************)
(* Nothing that initialize() does loses a solution or adds one: the inputs *)
(* that satisfy the query are, at every step, those whose outputs answer   *)
(* the question, and there are none when it finds the query refuted.       *)
(***************************************************************************)
SolutionsKept ==
  Written => Solutions(query) = {x \in Points(box) : Answers(question, Evaluate(net, x))}

(***************************************************************************)
(* initialize() never ends in an Error, which a driver would report as a   *)
(* TIMEOUT: on reaching a row, at most one of its variables has an infinite*)
(* bound, because the rows before bounded the f's, or merged their pairs;  *)
(* and in the end no bound is infinite.                                    *)
(***************************************************************************)
InitializeSucceeds ==
  /\ pc = "rows" /\ todo # {} => Cardinality(InfiniteOnRow(query, Min(todo))) <= 1
  /\ pc = "rows" /\ todo = {} => \A v \in Vars(query) : Finite(query, v)

(***************************************************************************)
(* After initialize() the solver may start: every equation holds, non-basic*)
(* variables are within their bounds, and a pair is left to the search only*)
(* when both its phases are possible; a pair with a decided phase is       *)
(* dissolved.                                                              *)
(***************************************************************************)
ReadyToSolve ==
  Live /\ wasInitialized =>
    /\ \A y \in DOMAIN query.rows : Dot(query.rows[y], query.assignment, DOMAIN query.rows[y]) = 0
    /\ \A v \in Vars(query) : NonBasic(query, v) => ~OutOfBounds(query, v)
    /\ \A p \in Pairs :
         query.dissolved[p] = "no" <=> query.lower[p[1]] < 0 /\ query.upper[p[1]] > 0

(***************************************************************************)
(* The log tells the truth, whatever was interrupted or failed: SAT and    *)
(* UNSAT are logged only of questions with and without an answer.          *)
(***************************************************************************)
LogIsRight ==
  \A k \in 1 .. Len(results) :
    LET r == results[k]
        some == \E x \in Points(box) : Answers(r.question, Evaluate(net, x))
    IN /\ r.logged = "SAT" => some
       /\ r.logged = "UNSAT" => ~some

\* No input within Delta of the point makes another output as small.
Robust ==
  \A x \in Points(box) : \A o \in Outputs \ {minimal} :
    LET outputs == Evaluate(net, x) IN outputs[minimal] < outputs[o]

(***************************************************************************)
(* The adversarial experiment decides robustness when no part of it fails  *)
(* or is interrupted: it ends with a SAT exactly when the network is not   *)
(* robust.                                                                 *)
(***************************************************************************)
RobustnessDecided ==
  driver = "adversarial" /\ pc = "done"
    /\ (\A k \in 1 .. Len(results) : results[k].status \in {"SAT", "UNSAT"})
  => (results[Len(results)].status = "SAT" <=> ~Robust)

(***************************************************************************)
(* Readme.txt: "If the test fails for all 4 other outputs (4 UNSAT         *)
(* results), the network is robust at x".  The results are those that main *)
(* prints, "Test for point ... DONE. Result = UNSAT".                      *)
(***************************************************************************)
UnsatMeansRobust ==
  driver = "adversarial" /\ pc = "done"
    /\ (\A k \in 1 .. Len(results) : results[k].printed = "UNSAT")
  => Robust
=============================================================================
