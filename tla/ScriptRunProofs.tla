--------------------------- MODULE ScriptRunProofs --------------------------
(***************************************************************************)
(* What TLAPS proves of ScriptRun, for every table of scripts: a script    *)
(* that keeps a rule of ScriptRules has the property the rule is for,      *)
(* whichever of its calls fail and whatever others have on the host.       *)
(***************************************************************************)
EXTENDS ScriptRun, TLAPS

This == Table[script]

(* A step that is taken is one of the table's. *)
LEMMA Runs ==
  ASSUME TypeOK, Running
  PROVE  /\ sec \in Sections
         /\ at \in DOMAIN This.code[sec] /\ at \in Nat \ {0}
         /\ at <= Len(This.code[sec]) /\ Len(This.code[sec]) \in Nat
         /\ Here = This.code[sec][at] /\ Here \in Step
  <1>1. sec \in Sections BY DEF TypeOK, Running
  <1>2. This.code[sec] \in Seq(Step)
    BY <1>1, TableAssumption DEF TypeOK, IsScript, This
  <1>3. at \in Nat \ {0} /\ at <= Len(This.code[sec])
    BY <1>1, <1>2 DEF TypeOK, Running, Steps, Code, This
  <1>4. at \in DOMAIN This.code[sec] BY <1>2, <1>3
  <1>5. Here = This.code[sec][at] BY DEF Here, Steps, Code, This
  <1> QED BY <1>1, <1>2, <1>3, <1>4, <1>5

(* The end of a section. *)
LEMMA Over ==
  ASSUME TypeOK, sec # "done", at > Len(Steps)
  PROVE  sec \in Sections /\ Len(This.code[sec]) \in Nat
         /\ at = Len(This.code[sec]) + 1
  <1>1. sec \in Sections BY DEF TypeOK
  <1>2. This.code[sec] \in Seq(Step)
    BY <1>1, TableAssumption DEF TypeOK, IsScript, This
  <1>3. Len(This.code[sec]) \in Nat BY <1>2
  <1> QED BY <1>1, <1>3 DEF TypeOK, Steps, Code, This

(* Where an exit leads. *)
LEMMA Leads ==
  ASSUME TypeOK, Running, NEW e \in Exits(Here), Take(e)
  PROVE  /\ script' = script
         /\ e.v \in Verdicts \cup {"same"}
         /\ status' = IF e.v = "same" THEN status ELSE e.v
         /\ \/ e.to = "next" /\ sec' = sec /\ at' = at + 1
            \/ e.to = "return" /\ sec' = "done" /\ at' = 1
            \/ e.to \in Sections \ {"main"} /\ sec' = e.to /\ at' = 1
  <1>1. Here \in Step BY Runs
  <1>2. e \in Exit BY <1>1 DEF Step, Exits
  <1>3. e.v \in Verdicts \cup {"same"}
        /\ e.to \in (Sections \ {"main"}) \cup {"next", "return"}
    BY <1>2 DEF Exit
  <1> QED BY <1>3 DEF Take, Sections

(* An action of a running step leaves it by one of its exits. *)
LEMMA Leaves ==
  ASSUME TypeOK, Makes \/ Drops \/ Looks \/ Fails
  PROVE  /\ Running
         /\ \/ /\ wrong' = wrong
               /\ \E e \in Here.ok : Take(e)
            \/ /\ Fails
               /\ \E e \in Here.fail : Take(e)
  BY DEF Makes, Drops, Looks, Fails

-----------------------------------------------------------------------------
LEMMA TypesStep == ASSUME TypeOK, [Next]_vars PROVE TypeOK'
  <1>1. CASE Makes \/ Drops \/ Looks \/ Fails
    <2>1. Running BY <1>1, Leaves
    <2>2. PICK e \in Exits(Here) : Take(e) BY <1>1, Leaves DEF Exits
    <2>3. script' = script /\ status' \in Verdicts
      BY <2>1, <2>2, Leads DEF TypeOK
    <2>4. sec' \in Sections \cup {"done"}
      BY <2>1, <2>2, Leads DEF TypeOK
    <2>5. at' \in 1..(IF sec' = "done" THEN 1 ELSE Len(Steps') + 1)
      <3>1. ASSUME NEW x \in Sections PROVE Len(This.code[x]) \in Nat
        BY TableAssumption DEF TypeOK, IsScript, This
      <3>2. CASE sec' = sec /\ at' = at + 1
        BY <2>1, <2>3, <3>2, Runs DEF Steps, Code, This, Sections
      <3>3. CASE at' = 1
        <4>1. CASE sec' = "done" BY <3>3, <4>1
        <4>2. CASE sec' \in Sections
          <5>1. Len(Steps') \in Nat
            BY <2>3, <3>1, <4>2 DEF Steps, Code, This
          <5> QED BY <3>3, <4>2, <5>1 DEF Sections
        <4> QED BY <2>4, <4>1, <4>2
      <3> QED BY <2>1, <2>2, <3>2, <3>3, Leads
    <2>6. Here.on \subseteq Things BY <2>1, Runs DEF Step
    <2>7. mine' \subseteq Things /\ theirs' \subseteq Things
      BY <1>1, <2>6 DEF TypeOK, Makes, Drops, Looks, Fails, Late
    <2>8. wrong' \in BOOLEAN
      BY <1>1 DEF TypeOK, Makes, Drops, Looks, Fails
    <2>9. stuck' \subseteq mine'
      BY <1>1 DEF TypeOK, Makes, Drops, Looks, Fails, Late
    <2> QED BY <2>3, <2>4, <2>5, <2>7, <2>8, <2>9 DEF TypeOK
  <1>2. CASE RunsOn
    <2>1. sec' \in {"more", "tail", "done"} /\ at' = 1 /\ script' = script
      BY <1>2 DEF RunsOn, After
    <2>2. ASSUME NEW x \in Sections PROVE Len(This.code[x]) \in Nat
      BY TableAssumption DEF TypeOK, IsScript, This
    <2>3. at' \in 1..(IF sec' = "done" THEN 1 ELSE Len(Steps') + 1)
      BY <2>1, <2>2 DEF Steps, Code, This, Sections
    <2> QED BY <1>2, <2>1, <2>3 DEF TypeOK, RunsOn, Sections
  <1>3. CASE UNCHANGED vars
    BY <1>3 DEF TypeOK, vars, Steps, Code
  <1> QED BY <1>1, <1>2, <1>3 DEF Next

LEMMA TypesInit == ASSUME Init PROVE TypeOK
  <1>1. Len(Steps) \in Nat /\ Table[script].init \in Verdicts
    BY TableAssumption DEF Init, IsScript, Steps, Code, Sections
  <1>2. theirs \subseteq Things
    <2>1. ASSUME NEW x \in Sections, NEW i \in DOMAIN This.code[x]
          PROVE  This.code[x][i].on \subseteq Things
      <3>1. This.code[x] \in Seq(Step)
        BY TableAssumption DEF Init, IsScript, This
      <3>2. This.code[x][i] \in Step BY <3>1
      <3> QED BY <3>2 DEF Step
    <2>2. Used(script) \subseteq Things BY <2>1 DEF Used, This
    <2> QED BY <2>2 DEF Init, Things
  <1>3. at \in 1..(IF sec = "done" THEN 1 ELSE Len(Steps) + 1)
    BY <1>1 DEF Init
  <1> QED BY <1>1, <1>2, <1>3, Zenon DEF Init, TypeOK, Sections

(* The types hold, of every table. *)
THEOREM Types == Spec => []TypeOK
  BY TypesInit, TypesStep, PTL DEF Spec

-----------------------------------------------------------------------------
(* After a failure the status is not PASS, and the script is where nothing *)
(* sets it; before anything has set PASS it is what it was.                *)
VerdictInv ==
    script \notin Hiding =>
        /\ wrong => status # "PASS"
        /\ wrong /\ sec # "done" => Carries(This, sec, at)
        /\ sec = "main" /\ Unset(This, at) => status # "PASS"

(* What holds at a step of main that may follow a failure holds further on. *)
LEMMA SlipsOn ==
  ASSUME NEW t, NEW x, NEW i \in Nat \ {0}, Slips(t, x, i)
  PROVE  Slips(t, x, i + 1)
  BY DEF Slips

LEMMA UnsetBefore ==
  ASSUME NEW t, NEW i \in Nat \ {0}, Unset(t, i + 1)
  PROVE  Unset(t, i) /\ \A e \in Exits(t.code["main"][i]) : e.v # "PASS"
  BY DEF Unset

(* An exit carries the mark of a failure to where it leads. *)
LEMMA CarriedOn ==
  ASSUME TypeOK, Running, NEW e \in Exits(Here), Take(e), sec' # "done",
         \/ Carries(This, sec, at)
         \/ Blames(Here) /\ e \in Here.fail
  PROVE  Carries(This, sec', at')
  <1>1. /\ sec \in Sections /\ at \in DOMAIN This.code[sec]
        /\ at \in Nat \ {0} /\ Here = This.code[sec][at]
    BY Runs
  <1>2. CASE e.to = "next" /\ sec' = sec /\ at' = at + 1
    <2>1. CASE sec # "main" /\ Tainted(This, sec) BY <1>2, <2>1 DEF Carries
    <2>2. CASE Slips(This, sec, at)
      BY <1>1, <1>2, <2>2, SlipsOn DEF Carries
    <2>3. CASE Blames(Here) /\ e \in Here.fail
      <3>1. at \in 1..((at + 1) - 1) BY <1>1
      <3>2. Slips(This, sec, at + 1)
        BY <1>1, <1>2, <2>3, <3>1 DEF Slips
      <3> QED BY <1>2, <3>2 DEF Carries
    <2> QED BY <2>1, <2>2, <2>3 DEF Carries
  <1>3. CASE e.to \in Sections \ {"main"} /\ sec' = e.to /\ at' = 1
    <2>1. Tainted(This, e.to)
      <3>1. CASE sec = "main"
        <4>1. CASE Slips(This, sec, at) BY <1>1, <3>1, <4>1 DEF Tainted
        <4>2. CASE Blames(Here) /\ e \in Here.fail
          BY <1>1, <3>1, <4>2 DEF Tainted
        <4> QED BY <3>1, <4>1, <4>2 DEF Carries
      <3>2. CASE sec # "main" BY <1>1, <3>2 DEF Tainted
      <3> QED BY <3>1, <3>2
    <2> QED BY <1>3, <2>1 DEF Carries
  <1> QED BY <1>2, <1>3, Leads

LEMMA VerdictInit == ASSUME Init PROVE VerdictInv
  <1>1. Unset(This, 1) => This.init # "PASS" BY DEF Unset
  <1> QED BY <1>1 DEF Init, VerdictInv, This

LEMMA VerdictStep ==
  ASSUME TypeOK, VerdictInv, [Next]_vars PROVE VerdictInv'
  <1>1. CASE Makes \/ Drops \/ Looks \/ Fails
    <2> SUFFICES ASSUME script \notin Hiding,
                        Makes \/ Drops \/ Looks \/ Fails
                 PROVE  VerdictInv'
      BY <1>1, Leaves, Leads DEF VerdictInv, Exits
    <2>1. Running BY Leaves
    <2>2. /\ sec \in Sections /\ at \in DOMAIN This.code[sec]
          /\ at \in Nat \ {0} /\ Here = This.code[sec][at]
      BY <2>1, Runs
    <2>3. Sound(This) BY RulesAssumption DEF TypeOK, This
    <2>4. /\ Carries(This, sec, at) => \A e \in Exits(Here) : e.v # "PASS"
          /\ Blames(Here) =>
                \A e \in Here.fail :
                    /\ e.v # "PASS"
                    /\ e.v = "same" => sec = "main" /\ Unset(This, at)
      BY <2>2, <2>3 DEF Sound
    <2>5. PICK e \in Exits(Here) :
            /\ Take(e)
            /\ wrong' = wrong \/ (Blames(Here) /\ e \in Here.fail)
      <3>1. CASE wrong' = wrong /\ \E e \in Here.ok : Take(e)
        BY <3>1 DEF Exits
      <3>2. CASE Fails
        BY <3>2 DEF Fails, Exits, TypeOK
      <3> QED BY <3>1, <3>2, Leaves
    <2>6. /\ script' = script
          /\ status' = IF e.v = "same" THEN status ELSE e.v
          /\ \/ e.to = "next" /\ sec' = sec /\ at' = at + 1
             \/ e.to = "return" /\ sec' = "done" /\ at' = 1
             \/ e.to \in Sections \ {"main"} /\ sec' = e.to /\ at' = 1
      BY <2>1, <2>5, Leads
    <2>7. ASSUME wrong' PROVE status' # "PASS"
      <3>1. CASE wrong BY <2>1, <2>4, <2>6, <3>1 DEF VerdictInv, Running
      <3>2. CASE Blames(Here) /\ e \in Here.fail
        BY <2>4, <2>6, <3>2 DEF VerdictInv
      <3> QED BY <2>5, <2>7, <3>1, <3>2
    <2>8. ASSUME wrong', sec' # "done" PROVE Carries(This', sec', at')
      <3>1. Carries(This, sec, at) \/ (Blames(Here) /\ e \in Here.fail)
        BY <2>1, <2>5, <2>8 DEF VerdictInv, Running
      <3>2. Carries(This, sec', at') BY <2>1, <2>5, <2>8, <3>1, CarriedOn
      <3> QED BY <2>6, <3>2 DEF This
    <2>9. ASSUME sec' = "main", Unset(This', at') PROVE status' # "PASS"
      <3>1. sec = "main" /\ at' = at + 1 BY <2>6, <2>9
      <3>2. Unset(This, at + 1) BY <2>6, <2>9, <3>1 DEF This
      <3>3. Unset(This, at) /\ e.v # "PASS"
        BY <2>2, <3>1, <3>2, UnsetBefore
      <3> QED BY <2>6, <3>1, <3>3 DEF VerdictInv
    <2> QED BY <2>7, <2>8, <2>9 DEF VerdictInv
  <1>2. CASE RunsOn
    <2> SUFFICES ASSUME script \notin Hiding, wrong, sec' # "done"
                 PROVE  Carries(This', sec', at')
      BY <1>2 DEF RunsOn, After, VerdictInv
    <2>1. sec # "done" /\ script' = script /\ at' = 1 /\ sec' = After(sec)
      BY <1>2 DEF RunsOn
    <2>2. Carries(This, sec, at) /\ at = Len(This.code[sec]) + 1
      BY <1>2, <2>1, Over DEF VerdictInv, RunsOn
    <2>3. CASE sec = "main"
      BY <2>1, <2>2, <2>3 DEF After, Carries, Tainted, This
    <2>4. CASE sec = "more"
      BY <2>1, <2>4 DEF After, Carries, Tainted, This
    <2> QED BY <2>1, <2>3, <2>4 DEF After
  <1>3. CASE UNCHANGED vars BY <1>3 DEF vars, VerdictInv, This
  <1> QED BY <1>1, <1>2, <1>3 DEF Next

(* A script that keeps the rule Sound passes only when no call has failed. *)
THEOREM NothingHidden == Spec => []PassMeansChecked
  <1>1. Init => TypeOK /\ VerdictInv BY TypesInit, VerdictInit
  <1>2. TypeOK /\ VerdictInv /\ [Next]_vars => (TypeOK /\ VerdictInv)'
    BY TypesStep, VerdictStep
  <1>3. VerdictInv => PassMeansChecked
    BY DEF VerdictInv, PassMeansChecked
  <1> QED BY <1>1, <1>2, <1>3, PTL DEF Spec

-----------------------------------------------------------------------------
(* While no call has failed the script is in a section that good exits     *)
(* lead to, a status of FAIL is one that the text accounts for, and the    *)
(* script does not end with it.                                            *)
LagInv ==
    ~wrong =>
        /\ sec # "done" => Entered(This, sec)
        /\ sec # "done" /\ status = "FAIL" =>
              Lags(This, sec, at, Begins(This, sec))
        /\ sec = "done" => status # "FAIL"

(* A step that does not set the status leaves it as it was. *)
LEMMA LagsOn ==
  ASSUME NEW t, NEW x, NEW i \in Nat \ {0}, NEW b \in BOOLEAN,
         NEW e \in Good(t.code[x][i]), e.to = "next",
         e.v = "FAIL" \/ (e.v = "same" /\ Lags(t, x, i, b))
  PROVE  Lags(t, x, i + 1, b)
  <1>1. ~Clears(t.code[x][i]) BY DEF Clears
  <1>2. CASE e.v = "FAIL"
    <2>1. i \in 1..((i + 1) - 1) /\ (i + 1)..((i + 1) - 1) = {} OBVIOUS
    <2> QED BY <1>2, <2>1 DEF Lags
  <1>3. CASE Lags(t, x, i, b)
    <2>1. \A k \in 1..((i + 1) - 1) : k = i \/ k \in 1..(i - 1) OBVIOUS
    <2>2. CASE b /\ \A k \in 1..(i - 1) : ~Clears(t.code[x][k])
      BY <1>1, <2>1, <2>2 DEF Lags
    <2>3. CASE \E j \in 1..(i - 1) :
                 /\ \E f \in Good(t.code[x][j]) :
                       f.to = "next" /\ f.v = "FAIL"
                 /\ \A k \in (j + 1)..(i - 1) : ~Clears(t.code[x][k])
      <3>1. PICK j \in 1..(i - 1) :
              /\ \E f \in Good(t.code[x][j]) : f.to = "next" /\ f.v = "FAIL"
              /\ \A k \in (j + 1)..(i - 1) : ~Clears(t.code[x][k])
        BY <2>3
      <3>2. j \in 1..((i + 1) - 1) OBVIOUS
      <3>3. \A k \in (j + 1)..((i + 1) - 1) : ~Clears(t.code[x][k])
        <4>1. \A k \in (j + 1)..((i + 1) - 1) :
                k = i \/ k \in (j + 1)..(i - 1)
          OBVIOUS
        <4> QED BY <1>1, <3>1, <4>1
      <3> QED BY <3>1, <3>2, <3>3 DEF Lags
    <2> QED BY <1>3, <2>2, <2>3 DEF Lags
  <1> QED BY <1>2, <1>3

(* Lagging into a section, and lagging in its first step. *)
LEMMA LagsAtFirst ==
  ASSUME NEW t, NEW x, NEW b, b PROVE Lags(t, x, 1, b)
  BY DEF Lags

LEMMA LagsAtMost ==
  ASSUME NEW t, NEW x, NEW i, NEW b, Lags(t, x, i, b)
  PROVE  Lags(t, x, i, TRUE)
  BY DEF Lags

(* A jump by a good exit, with a status of FAIL after it. *)
LEMMA LagsAcross ==
  ASSUME NEW t, NEW x \in Sections, Entered(t, x),
         NEW z \in Sections \ {"main"}, NEW i \in DOMAIN t.code[x],
         NEW e \in Good(t.code[x][i]), e.to = z,
         e.v = "FAIL" \/ (e.v = "same" /\ Lags(t, x, i, Begins(t, x)))
  PROVE  Begins(t, z)
  <1>1. LeavesLagging(t, x, Begins(t, x), z) BY DEF LeavesLagging
  <1>2. LeavesLagging(t, x, TRUE, z) BY LagsAtMost DEF LeavesLagging
  <1>3. CASE x = "main"
    <2>1. Begins(t, x) <=> t.init = "FAIL" BY <1>3 DEF Begins
    <2>2. LeavesLagging(t, "main", t.init = "FAIL", z)
      BY <1>1, <1>3, <2>1 DEF LeavesLagging, Lags
    <2> QED BY <2>2 DEF Begins, MoreLags, Sections
  <1>4. CASE x = "more"
    <2>1. Begins(t, x) <=> MoreLags(t) BY <1>4 DEF Begins
    <2>2. LeavesLagging(t, "more", MoreLags(t), z)
      BY <1>1, <1>4, <2>1 DEF LeavesLagging, Lags
    <2>3. CASE z = "more" BY <1>2, <1>4, <2>3 DEF Begins, MoreLags, Sections
    <2> QED BY <2>2, <2>3 DEF Begins, Sections
  <1>5. CASE x \notin {"main", "more"}
    BY <1>2, <1>5 DEF Begins, MoreLags, Sections
  <1> QED BY <1>3, <1>4, <1>5

LEMMA LagInit == ASSUME Init PROVE LagInv
  <1>1. Begins(This, "main") <=> This.init = "FAIL" BY DEF Begins
  <1>2. status = "FAIL" => Lags(This, "main", 1, Begins(This, "main"))
    BY <1>1, LagsAtFirst DEF Init, This
  <1> QED BY <1>2 DEF Init, LagInv, Entered

LEMMA LagStep ==
  ASSUME TypeOK, LagInv, [Next]_vars PROVE LagInv'
  <1>1. CASE Makes \/ Drops \/ Looks \/ Fails
    <2> SUFFICES ASSUME ~wrong', Makes \/ Drops \/ Looks \/ Fails
                 PROVE  LagInv'
      BY <1>1 DEF LagInv
    <2>1. Running BY Leaves
    <2>2. /\ sec \in Sections /\ at \in DOMAIN This.code[sec]
          /\ at \in Nat \ {0} /\ Here = This.code[sec][at]
      BY <2>1, Runs
    <2>3. PICK e \in Good(Here) : Take(e) /\ ~wrong
      <3>1. CASE wrong' = wrong /\ \E e \in Here.ok : Take(e)
        BY <3>1 DEF Good
      <3>2. CASE Fails
        BY <3>2 DEF Fails, Good
      <3> QED BY <3>1, <3>2, Leaves
    <2>4. e \in Exits(Here) BY <2>3 DEF Good, Exits
    <2>5. /\ script' = script
          /\ status' = IF e.v = "same" THEN status ELSE e.v
          /\ \/ e.to = "next" /\ sec' = sec /\ at' = at + 1
             \/ e.to = "return" /\ sec' = "done" /\ at' = 1
             \/ e.to \in Sections \ {"main"} /\ sec' = e.to /\ at' = 1
      BY <2>1, <2>3, <2>4, Leads
    <2>6. /\ Entered(This, sec)
          /\ status = "FAIL" => Lags(This, sec, at, Begins(This, sec))
      BY <2>1, <2>3 DEF LagInv, Running
    <2>7. This' = This BY <2>5 DEF This
    <2>8. status' = "FAIL" =>
             e.v = "FAIL"
             \/ (e.v = "same" /\ Lags(This, sec, at, Begins(This, sec)))
      BY <2>5, <2>6
    <2>9. CASE e.to = "next" /\ sec' = sec /\ at' = at + 1
      <3>1. Begins(This, sec) \in BOOLEAN BY DEF Begins
      <3>2. status' = "FAIL" =>
               Lags(This, sec, at + 1, Begins(This, sec))
        BY <2>2, <2>3, <2>8, <2>9, <3>1, LagsOn
      <3> QED BY <2>1, <2>6, <2>7, <2>9, <3>2 DEF LagInv, Running
    <2>10. CASE e.to = "return" /\ sec' = "done"
      <3>1. Forthright(This) BY RulesAssumption DEF TypeOK, This
      <3>2. /\ e.v # "FAIL"
            /\ e.v = "same" => ~Lags(This, sec, at, Begins(This, sec))
        BY <2>2, <2>3, <2>6, <2>10, <3>1 DEF Forthright
      <3> QED BY <2>8, <2>10, <3>2 DEF LagInv
    <2>11. CASE e.to \in Sections \ {"main"} /\ sec' = e.to /\ at' = 1
      <3>1. Entered(This, e.to) BY <2>2, <2>3 DEF Entered
      <3>2. status' = "FAIL" => Begins(This, e.to)
        BY <2>2, <2>3, <2>6, <2>8, <2>11, LagsAcross
      <3>3. status' = "FAIL" => Lags(This, e.to, 1, Begins(This, e.to))
        BY <3>2, LagsAtFirst
      <3> QED BY <2>7, <2>11, <3>1, <3>3 DEF LagInv, Sections
    <2> QED BY <2>5, <2>9, <2>10, <2>11
  <1>2. CASE RunsOn
    <2> SUFFICES ASSUME ~wrong PROVE LagInv'
      BY <1>2 DEF RunsOn, LagInv
    <2>1. /\ sec # "done" /\ script' = script /\ This' = This
          /\ at' = 1 /\ sec' = After(sec) /\ status' = status
          /\ wrong' = wrong
      BY <1>2 DEF RunsOn, This
    <2>2. sec \in Sections /\ at = Len(This.code[sec]) + 1
      BY <1>2, Over DEF RunsOn
    <2>3. /\ Entered(This, sec)
          /\ status = "FAIL" => Lags(This, sec, at, Begins(This, sec))
      BY <2>1 DEF LagInv
    <2>4. CASE sec = "main"
      <3>1. Begins(This, "main") <=> This.init = "FAIL" BY DEF Begins
      <3>2. status = "FAIL" => Begins(This, "more")
        BY <2>2, <2>3, <2>4, <3>1 DEF Begins, MoreLags, Lags
      <3>3. status = "FAIL" => Lags(This, "more", 1, Begins(This, "more"))
        BY <3>2, LagsAtFirst
      <3> QED BY <2>1, <2>4, <3>3 DEF After, LagInv, Entered
    <2>5. CASE sec = "more"
      <3>1. Begins(This, "more") <=> MoreLags(This) BY DEF Begins
      <3>2. status = "FAIL" => Begins(This, "tail")
        BY <2>2, <2>3, <2>5, <3>1 DEF Begins, Lags
      <3>3. status = "FAIL" => Lags(This, "tail", 1, Begins(This, "tail"))
        BY <3>2, LagsAtFirst
      <3> QED BY <2>1, <2>5, <3>3 DEF After, LagInv, Entered
    <2>6. CASE sec \notin {"main", "more"}
      <3>1. Forthright(This) BY RulesAssumption DEF TypeOK, This
      <3>2. status # "FAIL" BY <2>2, <2>3, <2>6, <3>1 DEF Forthright
      <3> QED BY <2>1, <2>6, <3>2 DEF After, LagInv
    <2> QED BY <2>4, <2>5, <2>6
  <1>3. CASE UNCHANGED vars
    BY <1>3 DEF vars, LagInv, This
  <1> QED BY <1>1, <1>2, <1>3 DEF Next

(* A script that keeps the rule Forthright reports FAIL only when a call   *)
(* has failed.                                                             *)
THEOREM NothingInvented == Spec => []FailMeansWrong
  <1>1. Init => TypeOK /\ LagInv BY TypesInit, LagInit
  <1>2. TypeOK /\ LagInv /\ [Next]_vars => (TypeOK /\ LagInv)'
    BY TypesStep, LagStep
  <1>3. LagInv => FailMeansWrong BY DEF LagInv, FailMeansWrong, Ended
  <1> QED BY <1>1, <1>2, <1>3, PTL DEF Spec

-----------------------------------------------------------------------------
(* What has been made and is there still is on its way to be removed: it   *)
(* has come from a step whose ways out are minded, or it is in a section   *)
(* that removes it.                                                        *)
Handlers == {"tail", "undo", "undo2"}

Coming(t, x, g, i) ==
    \E o \in 0..(i - 1) : Origin(t, x, g, o) /\ Kept(t, x, g, o + 1, i)

Due(t, x, g, i) ==
    \E k \in DOMAIN t.code[x] :
        /\ k >= i /\ Takes(t.code[x][k], g)
        /\ \A j \in 1..(k - 1) : \A e \in Exits(t.code[x][j]) : e.to = "next"

Owed(g) ==
    /\ sec # "done"
    /\ sec \in {"main", "more"} => Coming(This, sec, g, at)
    /\ sec \in Handlers => Due(This, sec, g, at)

HeldInv ==
    script \notin Leaving =>
        \A g \in Lasting : g \in mine /\ g \notin stuck => Owed(g)

LEMMA DueAtFirst ==
  ASSUME NEW t, NEW x, NEW g, t.code[x] \in Seq(Step), Removes(t, x, g)
  PROVE  Due(t, x, g, 1)
  <1>1. \A k \in DOMAIN t.code[x] : k >= 1 OBVIOUS
  <1> QED BY <1>1 DEF Removes, Due

(* Out of a step of main or more that may hold g, by a minded exit. *)
LEMMA MindedExit ==
  ASSUME TypeOK, Running, NEW e \in Exits(Here), Take(e), NEW g,
         sec \in {"main", "more"},
         Minds(This, sec, e.to, g),
         e.to = "next" => Coming(This, sec, g, at + 1),
         e.to = "more" /\ sec = "main" => Origin(This, "more", g, 0)
  PROVE  Owed(g)'
  <1>0. script' = script /\ This' = This BY Leads DEF This
  <1>1. CASE e.to = "next" /\ sec' = sec /\ at' = at + 1
    BY <1>0, <1>1 DEF Owed, Handlers
  <1>2. CASE e.to = "return" BY <1>2 DEF Minds, Sections
  <1>3. CASE e.to \in Sections \ {"main"} /\ sec' = e.to /\ at' = 1
    <2>1. CASE e.to = "more" /\ sec = "main"
      <3>1. Kept(This, "more", g, 0 + 1, 1) BY DEF Kept
      <3>2. Coming(This, "more", g, 1) BY <2>1, <3>1 DEF Coming
      <3> QED BY <1>0, <1>3, <2>1, <3>2 DEF Owed, Handlers
    <2>2. CASE e.to \in Sections \ {"main", "more"} /\ Removes(This, e.to, g)
      <3>1. This.code[e.to] \in Seq(Step)
        BY <2>2, TableAssumption DEF TypeOK, IsScript, This
      <3>2. Due(This, e.to, g, 1) BY <2>2, <3>1, DueAtFirst
      <3> QED BY <1>0, <1>3, <2>2, <3>2 DEF Owed, Handlers, Sections
    <2> QED BY <1>3, <2>1, <2>2 DEF Minds, Sections
  <1> QED BY <1>1, <1>2, <1>3, Leads

(* What step o of main has made may be handed on to more. *)
LEMMA HandedOn ==
  ASSUME TypeOK, Running, NEW e \in Exits(Here), NEW g,
         sec = "main", e.to = "more",
         NEW o \in 1..at, Puts(This.code["main"][o], g),
         Kept(This, "main", g, o + 1, at)
  PROVE  Origin(This, "more", g, 0)
  <1>1. /\ at \in DOMAIN This.code[sec] /\ at \in Nat \ {0}
        /\ at <= Len(This.code[sec]) /\ Len(This.code[sec]) \in Nat
        /\ Here = This.code[sec][at]
    BY Runs
  <1>2. at \in o..Len(This.code["main"]) BY <1>1
  <1>3. HandsOn(This, g, o) BY <1>1, <1>2 DEF HandsOn
  <1>4. o \in DOMAIN This.code["main"]
    <2>1. This.code["main"] \in Seq(Step)
      BY TableAssumption DEF TypeOK, IsScript, This, Sections
    <2> QED BY <1>1, <2>1
  <1> QED BY <1>3, <1>4 DEF Origin

(* A thing held before a step that does not remove it. *)
LEMMA StillHeld ==
  ASSUME TypeOK, Running, NEW e \in Exits(Here), Take(e), NEW g \in Lasting,
         Tidy(This), Owed(g), ~Takes(Here, g)
  PROVE  Owed(g)'
  <1>1. /\ sec \in Sections /\ at \in DOMAIN This.code[sec]
        /\ at \in Nat \ {0} /\ Here = This.code[sec][at]
        /\ at <= Len(This.code[sec]) /\ Len(This.code[sec]) \in Nat
    BY Runs
  <1>2. CASE sec \in {"main", "more"}
    <2>1. PICK o \in 0..(at - 1) :
            Origin(This, sec, g, o) /\ Kept(This, sec, g, o + 1, at)
      BY <1>2 DEF Owed, Coming
    <2>2. Kept(This, sec, g, o + 1, at + 1)
      <3>1. ASSUME NEW k \in (o + 1)..((at + 1) - 1)
            PROVE  ~Takes(This.code[sec][k], g)
        <4>1. k = at \/ k \in (o + 1)..(at - 1) BY <1>1
        <4> QED BY <1>1, <2>1, <4>1 DEF Kept
      <3> QED BY <3>1 DEF Kept
    <2>3. Minded(This, sec, g, o)
      <3>1. o \in 0..Len(This.code[sec]) BY <1>1
      <3> QED BY <1>2, <2>1, <3>1 DEF Tidy
    <2>4. Minds(This, sec, e.to, g)
      <3>1. at \in (o + 1)..Len(This.code[sec]) BY <1>1
      <3> QED BY <1>1, <2>2, <2>3, <3>1 DEF Minded
    <2>5. Coming(This, sec, g, at + 1)
      <3>1. o \in 0..((at + 1) - 1) BY <1>1
      <3> QED BY <2>1, <2>2, <3>1 DEF Coming
    <2>6. ASSUME e.to = "more", sec = "main"
          PROVE  Origin(This, "more", g, 0)
      <3>1. o \in DOMAIN This.code["main"] /\ Puts(This.code["main"][o], g)
        BY <2>1, <2>6 DEF Origin
      <3>2. o \in 1..at
        <4>1. This.code["main"] \in Seq(Step)
          BY TableAssumption DEF TypeOK, IsScript, This, Sections
        <4> QED BY <1>1, <3>1, <4>1
      <3> QED BY <2>1, <2>6, <3>1, <3>2, HandedOn
    <2> QED BY <1>2, <2>4, <2>5, <2>6, MindedExit
  <1>3. CASE sec \in Handlers
    <2>1. PICK k \in DOMAIN This.code[sec] :
            /\ k >= at /\ Takes(This.code[sec][k], g)
            /\ \A j \in 1..(k - 1) :
                  \A x \in Exits(This.code[sec][j]) : x.to = "next"
      BY <1>3 DEF Owed, Due
    <2>2. k \in Nat
      <3>1. This.code[sec] \in Seq(Step)
        BY <1>1, TableAssumption DEF TypeOK, IsScript, This
      <3> QED BY <3>1
    <2>3. k # at BY <1>1, <2>1
    <2>4. at \in 1..(k - 1) BY <1>1, <2>1, <2>2, <2>3
    <2>5. e.to = "next" BY <1>1, <2>1, <2>4
    <2>6. sec' = sec /\ at' = at + 1 /\ This' = This
      BY <2>5, Leads DEF This, Sections
    <2>7. k >= at + 1 BY <1>1, <2>1, <2>2, <2>3
    <2>8. Due(This, sec, g, at + 1) BY <2>1, <2>7 DEF Due
    <2> QED BY <1>3, <2>6, <2>8 DEF Owed, Handlers
  <1> QED BY <1>1, <1>2, <1>3 DEF Sections, Handlers

(* A thing the step has made. *)
LEMMA NewlyHeld ==
  ASSUME TypeOK, Running, NEW e \in With(Here), Take(e), NEW g \in Lasting,
         Tidy(This), Puts(Here, g)
  PROVE  Owed(g)'
  <1>0. e \in Exits(Here) BY DEF With, Exits
  <1>1. /\ sec \in Sections /\ at \in DOMAIN This.code[sec]
        /\ at \in Nat \ {0} /\ Here = This.code[sec][at]
        /\ at <= Len(This.code[sec]) /\ Len(This.code[sec]) \in Nat
    BY Runs
  <1>2. sec \in {"main", "more"} BY <1>1 DEF Tidy
  <1>3. Origin(This, sec, g, at) BY <1>1 DEF Origin
  <1>4. Minded(This, sec, g, at)
    <2>1. at \in 0..Len(This.code[sec]) BY <1>1
    <2> QED BY <1>2, <1>3, <2>1 DEF Tidy
  <1>5. Minds(This, sec, e.to, g) BY <1>1, <1>4 DEF Minded
  <1>6. Coming(This, sec, g, at + 1)
    <2>1. at \in 0..((at + 1) - 1) BY <1>1
    <2>2. Kept(This, sec, g, at + 1, at + 1) BY <1>1 DEF Kept
    <2> QED BY <1>3, <2>1, <2>2 DEF Coming
  <1>7. ASSUME e.to = "more", sec = "main"
        PROVE  Origin(This, "more", g, 0)
    <2>1. at \in 1..at BY <1>1
    <2>2. Kept(This, "main", g, at + 1, at) BY <1>1 DEF Kept
    <2> QED BY <1>0, <1>1, <1>7, <2>1, <2>2, HandedOn
  <1> QED BY <1>0, <1>2, <1>5, <1>6, <1>7, MindedExit

LEMMA HeldStep == ASSUME TypeOK, HeldInv, [Next]_vars PROVE HeldInv'
  <1>1. CASE Makes \/ Drops \/ Looks \/ Fails
    <2> SUFFICES ASSUME script \notin Leaving,
                        Makes \/ Drops \/ Looks \/ Fails,
                        NEW g \in Lasting, g \in mine', g \notin stuck'
                 PROVE  Owed(g)'
      BY <1>1, Leaves, Leads DEF HeldInv, Exits
    <2>1. Running BY Leaves
    <2>2. Tidy(This) BY RulesAssumption DEF TypeOK, This
    <2>3. CASE Makes
      <3>1. PICK e \in Here.ok : Take(e) BY <2>3 DEF Makes
      <3>2. CASE g \in mine
        <4>1. ~Takes(Here, g) BY <2>3 DEF Makes, Takes
        <4>2. Owed(g) BY <2>3, <3>2 DEF Makes, HeldInv
        <4> QED BY <2>1, <2>2, <3>1, <4>1, <4>2, StillHeld DEF Exits
      <3>3. CASE g \notin mine
        <4>1. Puts(Here, g) /\ e \in With(Here)
          BY <2>3, <3>1, <3>3 DEF Makes, Puts, With
        <4> QED BY <2>1, <2>2, <3>1, <4>1, NewlyHeld
      <3> QED BY <3>2, <3>3
    <2>4. CASE Drops
      <3>1. PICK e \in Here.ok : Take(e) BY <2>4 DEF Drops
      <3>2. ~Takes(Here, g) /\ g \in mine /\ g \notin stuck
        BY <2>4 DEF Drops, Takes
      <3>3. Owed(g) BY <3>2 DEF HeldInv
      <3> QED BY <2>1, <2>2, <3>1, <3>2, <3>3, StillHeld DEF Exits
    <2>5. CASE Looks
      <3>1. PICK e \in Here.ok : Take(e) BY <2>5 DEF Looks
      <3>2. ~Takes(Here, g) /\ Owed(g) BY <2>5 DEF Looks, Takes, HeldInv
      <3> QED BY <2>1, <2>2, <3>1, <3>2, StillHeld DEF Exits
    <2>6. CASE Fails
      <3>1. PICK e \in Here.fail : Take(e) BY <2>6 DEF Fails
      <3>2. CASE g \in mine
        <4>1. ~Takes(Here, g) /\ g \notin stuck
          BY <2>6, <3>2 DEF Fails, Takes
        <4>2. Owed(g) BY <3>2, <4>1 DEF HeldInv
        <4> QED BY <2>1, <2>2, <3>1, <4>1, <4>2, StillHeld DEF Exits
      <3>3. CASE g \notin mine
        <4>1. Here.act \in {"start", "refuse"} /\ g \in Here.on
          BY <2>6, <3>3 DEF Fails, Late
        <4>2. Puts(Here, g) /\ e \in With(Here) BY <3>1, <4>1 DEF Puts, With
        <4> QED BY <2>1, <2>2, <3>1, <4>2, NewlyHeld
      <3> QED BY <3>2, <3>3
    <2> QED BY <2>3, <2>4, <2>5, <2>6
  <1>2. CASE RunsOn
    <2> SUFFICES ASSUME script \notin Leaving,
                        NEW g \in Lasting, g \in mine, g \notin stuck
                 PROVE  Owed(g)'
      BY <1>2 DEF HeldInv, RunsOn
    <2>1. /\ sec # "done" /\ script' = script /\ This' = This
          /\ at' = 1 /\ sec' = After(sec)
      BY <1>2 DEF RunsOn, This
    <2>2. /\ sec \in Sections /\ Len(This.code[sec]) \in Nat
          /\ at = Len(This.code[sec]) + 1
      BY <1>2, Over DEF RunsOn
    <2>3. Tidy(This) BY RulesAssumption DEF TypeOK, This
    <2>4. Owed(g) BY DEF HeldInv
    <2>5. CASE sec \in {"main", "more"}
      <3>1. PICK o \in 0..(at - 1) :
              Origin(This, sec, g, o) /\ Kept(This, sec, g, o + 1, at)
        BY <2>4, <2>5 DEF Owed, Coming
      <3>2. CASE sec = "main"
        <4>1. Origin(This, "more", g, 0)
          BY <2>2, <3>1, <3>2 DEF Origin, HandsOn
        <4>2. Kept(This, "more", g, 0 + 1, 1) BY DEF Kept
        <4>3. Coming(This, "more", g, 1) BY <4>1, <4>2 DEF Coming
        <4> QED BY <2>1, <3>2, <4>3 DEF After, Owed, Handlers
      <3>3. CASE sec = "more"
        <4>1. o \in 0..Len(This.code[sec]) BY <2>2
        <4>2. Minded(This, sec, g, o) BY <2>3, <2>5, <3>1, <4>1 DEF Tidy
        <4>3. Removes(This, "tail", g) BY <2>2, <3>1, <3>3, <4>2 DEF Minded
        <4>4. This.code["tail"] \in Seq(Step)
          BY TableAssumption DEF TypeOK, IsScript, This, Sections
        <4>5. Due(This, "tail", g, 1) BY <4>3, <4>4, DueAtFirst
        <4> QED BY <2>1, <3>3, <4>5 DEF After, Owed, Handlers
      <3> QED BY <2>5, <3>2, <3>3
    <2>6. CASE sec \in Handlers
      <3>1. PICK k \in DOMAIN This.code[sec] : k >= at
        BY <2>4, <2>6 DEF Owed, Due
      <3>2. This.code[sec] \in Seq(Step)
        BY <2>2, TableAssumption DEF TypeOK, IsScript, This
      <3> QED BY <2>2, <3>1, <3>2
    <2> QED BY <2>2, <2>5, <2>6 DEF Sections, Handlers
  <1>3. CASE UNCHANGED vars
    BY <1>3 DEF vars, HeldInv, Owed, This
  <1> QED BY <1>1, <1>2, <1>3 DEF Next

(* A script that keeps the rule Tidy leaves only guests, however it ends.  *)
THEOREM NothingButGuests == Spec => []LeavesOnlyGuests
  <1>1. Init => TypeOK /\ HeldInv
    BY TypesInit DEF Init, HeldInv
  <1>2. TypeOK /\ HeldInv /\ [Next]_vars => (TypeOK /\ HeldInv)'
    BY TypesStep, HeldStep
  <1>3. HeldInv => LeavesOnlyGuests
    BY DEF HeldInv, LeavesOnlyGuests, Owed, Ended
  <1> QED BY <1>1, <1>2, <1>3, PTL DEF Spec

-----------------------------------------------------------------------------
(* What has been made and is there still has come to where the script is   *)
(* on a way that its text accounts for.                                    *)
WalkInv ==
    script \notin Littering =>
        \A g \in Things : g \in mine /\ g \notin stuck =>
            <<sec, at, status>> \in Walk(This, g)

(* An exit leads from the spot the script is at to the spot it is at next. *)
LEMMA SpotAfter ==
  ASSUME TypeOK, Running, NEW e \in Exits(Here), Take(e)
  PROVE  <<sec, at, status>>' = Spot(sec, at, status, e)
  BY Leads DEF Spot, Sections

(* Right after the step that makes a thing. *)
LEMMA OnFromMaking ==
  ASSUME TypeOK, Running, NEW e \in With(Here), Take(e), NEW g \in Things,
         Thorough(This), Puts(Here, g)
  PROVE  <<sec, at, status>>' \in Walk(This, g)
  <1>1. /\ sec \in Sections /\ at \in DOMAIN This.code[sec]
        /\ Here = This.code[sec][at]
    BY Runs
  <1>2. e \in Exits(Here) /\ status \in Verdicts
    BY DEF With, Exits, TypeOK, Puts
  <1>3. Spot(sec, at, status, e) \in Made(This, g)
    BY <1>1, <1>2 DEF Made
  <1>4. Made(This, g) \subseteq Walk(This, g) BY DEF Thorough
  <1> QED BY <1>2, <1>3, <1>4, SpotAfter

(* After a step that does not remove it. *)
LEMMA OnFromHolding ==
  ASSUME TypeOK, Running, NEW e \in Exits(Here), Take(e), NEW g \in Things,
         Thorough(This), ~Takes(Here, g),
         <<sec, at, status>> \in Walk(This, g)
  PROVE  <<sec, at, status>>' \in Walk(This, g)
  <1>1. /\ sec \in Sections /\ at \in DOMAIN This.code[sec]
        /\ Here = This.code[sec][at]
    BY Runs
  <1>2. Spot(sec, at, status, e) \in Beyond(This, g, <<sec, at, status>>)
    BY <1>1 DEF Beyond, Sections
  <1>3. Beyond(This, g, <<sec, at, status>>) \subseteq Walk(This, g)
    BY DEF Thorough
  <1> QED BY <1>2, <1>3, SpotAfter

LEMMA WalkStep == ASSUME TypeOK, WalkInv, [Next]_vars PROVE WalkInv'
  <1>1. CASE Makes \/ Drops \/ Looks \/ Fails
    <2> SUFFICES ASSUME script \notin Littering,
                        Makes \/ Drops \/ Looks \/ Fails,
                        NEW g \in Things, g \in mine', g \notin stuck'
                 PROVE  <<sec, at, status>>' \in Walk(This, g)
      BY <1>1, Leaves, Leads DEF WalkInv, Exits, This
    <2>1. Running BY Leaves
    <2>2. Thorough(This) BY RulesAssumption DEF TypeOK, This
    <2>3. PICK e \in Exits(Here) :
            /\ Take(e)
            /\ \/ g \in mine /\ g \notin stuck /\ ~Takes(Here, g)
               \/ e \in With(Here) /\ Puts(Here, g)
      <3>1. CASE Makes BY <3>1 DEF Makes, Exits, Takes, Puts, With
      <3>2. CASE Drops BY <3>2 DEF Drops, Exits, Takes
      <3>3. CASE Looks BY <3>3 DEF Looks, Exits, Takes
      <3>4. CASE Fails
        <4>1. PICK e \in Here.fail : Take(e) BY <3>4 DEF Fails
        <4>2. CASE g \in mine
          BY <3>4, <4>1, <4>2 DEF Fails, Exits, Takes
        <4>3. CASE g \notin mine
          <5>1. Here.act \in {"start", "refuse"} /\ g \in Here.on
            BY <3>4, <4>3 DEF Fails, Late
          <5> QED BY <4>1, <5>1 DEF Exits, Puts, With
        <4> QED BY <4>2, <4>3
      <3> QED BY <3>1, <3>2, <3>3, <3>4
    <2>4. CASE g \in mine /\ g \notin stuck /\ ~Takes(Here, g)
      <3>1. <<sec, at, status>> \in Walk(This, g) BY <2>4 DEF WalkInv
      <3> QED BY <2>1, <2>2, <2>3, <2>4, <3>1, OnFromHolding
    <2>5. CASE e \in With(Here) /\ Puts(Here, g)
      BY <2>1, <2>2, <2>3, <2>5, OnFromMaking
    <2> QED BY <2>3, <2>4, <2>5
  <1>2. CASE RunsOn
    <2> SUFFICES ASSUME script \notin Littering,
                        NEW g \in Things, g \in mine, g \notin stuck
                 PROVE  <<sec, at, status>>' \in Walk(This, g)
      BY <1>2 DEF WalkInv, RunsOn, This
    <2>1. sec \in Sections /\ at \notin DOMAIN This.code[sec]
      <3>1. sec \in Sections /\ at = Len(This.code[sec]) + 1
        BY <1>2, Over DEF RunsOn
      <3>2. This.code[sec] \in Seq(Step)
        BY <3>1, TableAssumption DEF TypeOK, IsScript, This
      <3> QED BY <3>1, <3>2
    <2>2. <<sec, at, status>>' \in Beyond(This, g, <<sec, at, status>>)
      BY <1>2, <2>1 DEF Beyond, Below, RunsOn, After, Sections
    <2>3. Thorough(This) BY RulesAssumption, <1>2 DEF TypeOK, This
    <2>4. <<sec, at, status>> \in Walk(This, g) BY DEF WalkInv
    <2> QED BY <2>2, <2>3, <2>4 DEF Thorough
  <1>3. CASE UNCHANGED vars BY <1>3 DEF vars, WalkInv, This
  <1> QED BY <1>1, <1>2, <1>3 DEF Next

(* A script that keeps the rule Thorough and passes leaves nothing behind, *)
(* guests included, but what a removal that failed could not remove.       *)
THEOREM NothingLeftByPass == Spec => []PassLeavesNothing
  <1>1. Init => TypeOK /\ WalkInv BY TypesInit DEF Init, WalkInv
  <1>2. TypeOK /\ WalkInv /\ [Next]_vars => (TypeOK /\ WalkInv)'
    BY TypesStep, WalkStep
  <1>3. TypeOK /\ WalkInv => PassLeavesNothing
    <2> SUFFICES ASSUME TypeOK, WalkInv, Ended, status = "PASS",
                        script \notin Littering
                 PROVE  mine \subseteq stuck
      BY DEF PassLeavesNothing
    <2>1. at = 1 BY DEF TypeOK, Ended
    <2>2. Thorough(This) BY RulesAssumption DEF TypeOK, This
    <2>3. \A g \in Things : <<sec, at, status>> \notin Walk(This, g)
      BY <2>1, <2>2 DEF Thorough, Ended
    <2> QED BY <2>3 DEF WalkInv, TypeOK
  <1> QED BY <1>1, <1>2, <1>3, PTL DEF Spec

-----------------------------------------------------------------------------
(* What others have has not been claimed on the way to where the script is. *)
Free(g) == Unclaimed(This, g, sec) /\ ~Claimed(This, sec, g, at)

SpareInv ==
    script \notin Grabbing =>
        /\ Paired(theirs) /\ theirs \subseteq Things \ Private
        /\ sec # "done" => \A g \in theirs : Free(g)

LEMMA SpareInit == ASSUME Init PROVE SpareInv
  <1>1. \A g \in theirs : Free(g)
    BY DEF Init, Free, Unclaimed, Claimed
  <1>2. theirs \subseteq Things \ Private
    <2>1. theirs \subseteq Things BY TypesInit DEF TypeOK
    <2>2. theirs \subseteq Used(script) \cup {"run", "run2"} BY DEF Init
    <2>3. Used(script) \cap Private = {} BY DEF Used
    <2>4. {"run", "run2"} \cap Private = {} BY DEF Private
    <2> QED BY <2>1, <2>2, <2>3, <2>4
  <1> QED BY <1>1, <1>2 DEF Init, SpareInv

(* A gentle script takes and overwrites nothing that is not claimed. *)
LEMMA NotTaken ==
  ASSUME TypeOK, SpareInv, Running, script \notin Grabbing, NEW g \in theirs
  PROVE  /\ ~Takes(Here, g)
         /\ ~(g \in Overwritten /\ Claims(Here, g))
  <1>1. sec \in Sections /\ at \in DOMAIN This.code[sec]
        /\ Here = This.code[sec][at]
    BY Runs
  <1>2. Free(g) /\ g \in Things \ Private
    BY DEF SpareInv, Running
  <1>3. Gentle(This) BY RulesAssumption DEF TypeOK, This
  <1> QED BY <1>1, <1>2, <1>3 DEF Gentle, Free

(* Making succeeds only where none of the names is in use. *)
LEMMA NotClaimed ==
  ASSUME TypeOK, SpareInv, Makes, script \notin Grabbing, NEW g \in theirs
  PROVE  g \notin Here.on /\ ~Claims(Here, g)
  <1>1. Running BY DEF Makes
  <1>2. Paired(theirs) BY DEF SpareInv
  <1>3. ASSUME NEW h \in theirs PROVE h \notin Here.on
    <2>1. CASE h \in Here.on
      <3>1. h \in Overwritten BY <1>3, <2>1 DEF Makes
      <3>2. h \in Guest(h) BY <3>1 DEF Guest, Overwritten
      <3>3. Claims(Here, h) BY <2>1, <3>2 DEF Makes, Claims
      <3> QED BY <1>1, <1>3, <3>1, <3>3, NotTaken
    <2> QED BY <2>1
  <1>4. Guest(g) \subseteq theirs \/ Guest(g) = {g}
    BY <1>2 DEF Guest, Paired
  <1> QED BY <1>3, <1>4 DEF Claims

LEMMA Spared ==
  ASSUME TypeOK, SpareInv, [Next]_vars, script \notin Grabbing
  PROVE  theirs' = theirs
  <1>1. CASE Makes BY <1>1, NotClaimed DEF Makes
  <1>2. CASE Drops
    <2>1. Running BY <1>2 DEF Drops
    <2>2. \A g \in theirs : g \notin Here.on
      BY <1>2, <2>1, NotTaken DEF Drops, Takes
    <2> QED BY <1>2, <2>2 DEF Drops
  <1>3. CASE Looks \/ Fails \/ RunsOn \/ UNCHANGED vars
    BY <1>3 DEF Looks, Fails, RunsOn, vars
  <1> QED BY <1>1, <1>2, <1>3 DEF Next

LEMMA SpareStep ==
  ASSUME TypeOK, SpareInv, [Next]_vars PROVE SpareInv'
  <1>1. CASE Makes \/ Drops \/ Looks \/ Fails
    <2> SUFFICES ASSUME script \notin Grabbing,
                        Makes \/ Drops \/ Looks \/ Fails
                 PROVE  SpareInv'
      BY <1>1, Leaves, Leads DEF SpareInv, Exits
    <2>1. Running BY Leaves
    <2>2. /\ sec \in Sections /\ at \in DOMAIN This.code[sec]
          /\ at \in Nat \ {0} /\ Here = This.code[sec][at]
      BY <2>1, Runs
    <2>3. theirs' = theirs BY Spared DEF Next
    <2>4. PICK e \in Exits(Here) :
            /\ Take(e)
            /\ \/ e \in Here.fail
               \/ e \in Here.ok /\ \A g \in theirs : ~Claims(Here, g)
      <3>1. CASE Fails BY <3>1 DEF Fails, Exits
      <3>2. CASE Makes BY <3>2, NotClaimed DEF Makes, Exits
      <3>3. CASE Drops \/ Looks BY <3>3 DEF Drops, Looks, Exits, Claims
      <3> QED BY <3>1, <3>2, <3>3
    <2>5. /\ script' = script
          /\ \/ e.to = "next" /\ sec' = sec /\ at' = at + 1
             \/ e.to = "return" /\ sec' = "done" /\ at' = 1
             \/ e.to \in Sections \ {"main"} /\ sec' = e.to /\ at' = 1
      BY <2>1, <2>4, Leads
    <2>6. ASSUME NEW g \in theirs, sec' # "done" PROVE Free(g)'
      <3>1. Unclaimed(This, g, sec) /\ ~Claimed(This, sec, g, at)
        BY <2>1 DEF SpareInv, Free, Running
      <3>2. CASE e.to = "next" /\ sec' = sec /\ at' = at + 1
        <4>1. ~Claimed(This, sec, g, at + 1)
          <5>1. ASSUME NEW j \in 1..((at + 1) - 1)
                PROVE  ~(/\ Claims(This.code[sec][j], g)
                         /\ \A x \in This.code[sec][j].fail : x.to # "next")
            <6>1. CASE j = at BY <2>2, <2>4, <3>2, <6>1
            <6>2. CASE j \in 1..(at - 1) BY <3>1, <6>2 DEF Claimed
            <6> QED BY <2>2, <6>1, <6>2
          <5> QED BY <5>1 DEF Claimed
        <4> QED BY <2>5, <3>1, <3>2, <4>1 DEF Free, This
      <3>3. CASE e.to \in Sections \ {"main"} /\ sec' = e.to /\ at' = 1
        <4>1. Jumps(This, g, sec, e.to) BY <2>2, <2>4, <3>1 DEF Jumps
        <4>2. sec = "more" => MoreUnclaimed(This, g)
          BY <3>1 DEF Unclaimed
        <4>3. Unclaimed(This, g, e.to)
          BY <2>2, <3>3, <4>1, <4>2 DEF Unclaimed, MoreUnclaimed
        <4>4. ~Claimed(This, e.to, g, 1) BY DEF Claimed
        <4> QED BY <2>5, <3>3, <4>3, <4>4 DEF Free, This
      <3> QED BY <2>5, <2>6, <3>2, <3>3
    <2> QED BY <2>3, <2>5, <2>6 DEF SpareInv, Paired
  <1>2. CASE RunsOn
    <2> SUFFICES ASSUME script \notin Grabbing, sec' # "done",
                        NEW g \in theirs
                 PROVE  Free(g)'
      BY <1>2 DEF RunsOn, SpareInv, Paired
    <2>1. /\ sec # "done" /\ script' = script /\ This' = This
          /\ at' = 1 /\ sec' = After(sec)
      BY <1>2 DEF RunsOn, This
    <2>2. sec \in Sections /\ at = Len(This.code[sec]) + 1
      BY <1>2, Over DEF RunsOn
    <2>3. Unclaimed(This, g, sec) /\ ~Claimed(This, sec, g, at)
      BY <2>1 DEF SpareInv, Free
    <2>4. \A x : ~Claimed(This, x, g, 1) BY DEF Claimed
    <2>5. CASE sec = "main"
      BY <2>1, <2>2, <2>3, <2>4, <2>5
         DEF After, Free, Unclaimed, MoreUnclaimed
    <2>6. CASE sec = "more"
      BY <2>1, <2>2, <2>3, <2>4, <2>6 DEF After, Free, Unclaimed
    <2> QED BY <2>1, <2>5, <2>6 DEF After
  <1>3. CASE UNCHANGED vars
    BY <1>3 DEF vars, SpareInv, Free, Paired, This
  <1> QED BY <1>1, <1>2, <1>3 DEF Next

(* A script that keeps the rule Gentle never takes away or overwrites what *)
(* others have.                                                            *)
THEOREM OthersSpared == Spec => SparesOthers
  <1>1. Init => TypeOK /\ SpareInv BY TypesInit, SpareInit
  <1>2. TypeOK /\ SpareInv /\ [Next]_vars => (TypeOK /\ SpareInv)'
    BY TypesStep, SpareStep
  <1>3. TypeOK /\ SpareInv /\ [Next]_vars =>
           [script \notin Grabbing => theirs' = theirs]_vars
    BY Spared
  <1> QED BY <1>1, <1>2, <1>3, PTL DEF Spec, SparesOthers
=============================================================================
