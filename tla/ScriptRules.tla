---------------------------- MODULE ScriptRules -----------------------------
(***************************************************************************)
(* Five rules for writing a script, each of which is read off its text.    *)
(* A script that keeps them hides no failure (Sound) and reports none that *)
(* did not occur (Forthright), leaves nothing but guests behind (Tidy) and *)
(* nothing at all when it passes (Thorough), and touches nothing of        *)
(* anybody else's (Gentle): ScriptRunProofs shows that for every table of  *)
(* scripts.                                                                *)
(***************************************************************************)
EXTENDS ScriptLang

Exits(s) == s.ok \cup s.fail

(* Guests are not missed: destroy_and_undefine_all of the next script      *)
(* removes them (module GuestLedger).                                      *)
Lasting == Things \ {"dom", "run", "dom2", "run2"}

-----------------------------------------------------------------------------
(* A failure of the step is one the verdict has to show. *)
Blames(s) == s.act # "drop" \/ s.fail # {Go}

(* Nothing has set PASS before step i of main. *)
Unset(t, i) ==
    /\ t.init # "PASS"
    /\ \A j \in 1..(i - 1) : \A e \in Exits(t.code["main"][j]) : e.v # "PASS"

(* Step i of x may be reached after a failure in x; x may be entered after *)
(* one.                                                                    *)
Slips(t, x, i) ==
    \E j \in 1..(i - 1) :
        /\ Blames(t.code[x][j])
        /\ \E e \in t.code[x][j].fail : e.to = "next"

Tainted(t, x) ==
    \/ x = "tail"
    \/ x = "more" /\ Slips(t, "main", Len(t.code["main"]) + 1)
    \/ \E i \in DOMAIN t.code["main"] :
          \/ /\ Blames(t.code["main"][i])
             /\ \E e \in t.code["main"][i].fail : e.to = x
          \/ /\ Slips(t, "main", i)
             /\ \E e \in Exits(t.code["main"][i]) : e.to = x
    \/ \E y \in Sections \ {"main"} : \E i \in DOMAIN t.code[y] :
          \E e \in Exits(t.code[y][i]) : e.to = x

Carries(t, x, i) == (x # "main" /\ Tainted(t, x)) \/ Slips(t, x, i)

(* A failure sets another verdict than PASS, or keeps the one there is     *)
(* where nothing can have set PASS; and nothing after it sets PASS.        *)
Sound(t) ==
    \A x \in Sections : \A i \in DOMAIN t.code[x] :
        /\ Carries(t, x, i) => \A e \in Exits(t.code[x][i]) : e.v # "PASS"
        /\ Blames(t.code[x][i]) =>
              \A e \in t.code[x][i].fail :
                  /\ e.v # "PASS"
                  /\ e.v = "same" => x = "main" /\ Unset(t, i)

-----------------------------------------------------------------------------
(* The exits a script takes while no call has failed. *)
Good(s) == s.ok \cup (IF Blames(s) THEN {} ELSE s.fail)

(* A step after which the status is not FAIL, if nothing has failed.       *)
Clears(s) == \A e \in Good(s) : e.to = "next" => e.v \notin {"same", "FAIL"}

(* The status may be FAIL at step i of x though nothing has failed: the    *)
(* section began with it (began), or a step has set it, and none has set   *)
(* it again.                                                               *)
Lags(t, x, i, began) ==
    \/ began /\ \A k \in 1..(i - 1) : ~Clears(t.code[x][k])
    \/ \E j \in 1..(i - 1) :
          /\ \E e \in Good(t.code[x][j]) : e.to = "next" /\ e.v = "FAIL"
          /\ \A k \in (j + 1)..(i - 1) : ~Clears(t.code[x][k])

LeavesLagging(t, y, began, z) ==
    \E j \in DOMAIN t.code[y] : \E e \in Good(t.code[y][j]) :
        /\ e.to = z
        /\ e.v = "FAIL" \/ (e.v = "same" /\ Lags(t, y, j, began))

(* A section entered while nothing has failed. *)
Entered(t, x) ==
    \/ x \in {"main", "more", "tail"}
    \/ \E y \in Sections : \E j \in DOMAIN t.code[y] :
          \E e \in Good(t.code[y][j]) : e.to = x

(* Whether it may be entered with FAIL.  Of a jump out of a section after  *)
(* main, nothing is known but the exit.                                    *)
MoreLags(t) ==
    \/ Lags(t, "main", Len(t.code["main"]) + 1, t.init = "FAIL")
    \/ LeavesLagging(t, "main", t.init = "FAIL", "more")
    \/ \E y \in Sections \ {"main"} :
          Entered(t, y) /\ LeavesLagging(t, y, TRUE, "more")

Begins(t, z) ==
    \/ z = "main" /\ t.init = "FAIL"
    \/ z = "more" /\ MoreLags(t)
    \/ /\ z \notin {"main", "more"}
       /\ \/ LeavesLagging(t, "main", t.init = "FAIL", z)
          \/ LeavesLagging(t, "more", MoreLags(t), z)
          \/ \E y \in Sections \ {"main", "more"} :
                Entered(t, y) /\ LeavesLagging(t, y, TRUE, z)
    \/ z = "tail" /\ Lags(t, "more", Len(t.code["more"]) + 1, MoreLags(t))

(* A script that has seen no failure has set another status than FAIL      *)
(* wherever it may end.                                                    *)
Forthright(t) ==
    \A x \in Sections : Entered(t, x) =>
        /\ \A i \in DOMAIN t.code[x] : \A e \in Good(t.code[x][i]) :
              e.to = "return" =>
                  /\ e.v # "FAIL"
                  /\ e.v = "same" => ~Lags(t, x, i, Begins(t, x))
        /\ x \notin {"main", "more"} =>
              ~Lags(t, x, Len(t.code[x]) + 1, Begins(t, x))

-----------------------------------------------------------------------------
Puts(s, g)  == s.act \in {"make", "start", "refuse"} /\ g \in s.on
Takes(s, g) == s.act = "drop" /\ g \in s.on

(* The exits by which g may be there after a step that makes it: a call     *)
(* that is refused, as it should be, makes nothing.                        *)
With(s) == CASE s.act = "make" -> s.ok
             [] s.act = "refuse" -> s.fail
             [] OTHER -> s.ok \cup s.fail

(* No step from i up to j, j left out, removes g. *)
Kept(t, x, g, i, j) == \A k \in i..(j - 1) : ~Takes(t.code[x][k], g)

(* Section z removes g, whatever fails in it before. *)
Removes(t, z, g) ==
    \E k \in DOMAIN t.code[z] :
        /\ Takes(t.code[z][k], g)
        /\ \A j \in 1..(k - 1) : \A e \in Exits(t.code[z][j]) : e.to = "next"

(* A way out of section x to z does not lose g. *)
Minds(t, x, z, g) ==
    \/ z = "next"
    \/ x = "main" /\ z = "more"
    \/ z \in Sections \ {"main", "more"} /\ Removes(t, z, g)

(* What step k of main makes may be there when "more" is entered. *)
HandsOn(t, g, k) ==
    \/ Kept(t, "main", g, k + 1, Len(t.code["main"]) + 1)
    \/ \E j \in k..Len(t.code["main"]) :
          /\ Kept(t, "main", g, k + 1, j)
          /\ \E e \in Exits(t.code["main"][j]) : e.to = "more"

(* Where g comes from: a step, or 0 when it comes from main. *)
Origin(t, x, g, i) ==
    \/ i \in DOMAIN t.code[x] /\ Puts(t.code[x][i], g)
    \/ /\ i = 0 /\ x = "more"
       /\ \E k \in DOMAIN t.code["main"] :
             Puts(t.code["main"][k], g) /\ HandsOn(t, g, k)

(* From where g is made to where it is removed, every way out is minded.   *)
Minded(t, x, g, i) ==
    /\ i > 0 => \A e \in With(t.code[x][i]) : Minds(t, x, e.to, g)
    /\ \A j \in (i + 1)..Len(t.code[x]) :
          Kept(t, x, g, i + 1, j + 1) =>
              \A e \in Exits(t.code[x][j]) : Minds(t, x, e.to, g)
    /\ x = "more" /\ Kept(t, x, g, i + 1, Len(t.code[x]) + 1) =>
          Removes(t, "tail", g)

Tidy(t) ==
    \A g \in Lasting :
        /\ \A x \in Sections \ {"main", "more"} :
              \A i \in DOMAIN t.code[x] : ~Puts(t.code[x][i], g)
        /\ \A x \in {"main", "more"} : \A i \in 0..Len(t.code[x]) :
              Origin(t, x, g, i) => Minded(t, x, g, i)

-----------------------------------------------------------------------------
(* A spot is a place of the script and the status there: <<section, step,  *)
(* status>>.  The spot that exit e of step i leads to.                     *)
Spot(x, i, v, e) ==
    LET w == IF e.v = "same" THEN v ELSE e.v
    IN  CASE e.to = "next" -> <<x, i + 1, w>>
          [] e.to = "return" -> <<"done", 1, w>>
          [] OTHER -> <<e.to, 1, w>>

(* The spots right after a step that has made g. *)
Made(t, g) ==
    UNION {UNION {{Spot(x, i, v, e) : v \in Verdicts, e \in With(t.code[x][i])} :
                  i \in {j \in DOMAIN t.code[x] : Puts(t.code[x][j], g)}} :
           x \in Sections}

(* Main runs into more, more into tail, the others return. *)
Below(x) == CASE x = "main" -> "more" [] x = "more" -> "tail" [] OTHER -> "done"

(* The spots next to p, if g is there at p and is not removed. *)
Beyond(t, g, p) ==
    LET x == p[1]
        i == p[2]
    IN  IF x = "done" THEN {}
        ELSE IF i \notin DOMAIN t.code[x] THEN {<<Below(x), 1, p[3]>>}
        ELSE IF Takes(t.code[x][i], g) THEN {}
        ELSE {Spot(x, i, p[3], e) : e \in Exits(t.code[x][i])}

(* The spots that a walk from there comes by, with no more steps than the  *)
(* script has.                                                             *)
Length(t) == 5 + Len(t.code["main"]) + Len(t.code["more"]) + Len(t.code["tail"])
               + Len(t.code["undo"]) + Len(t.code["undo2"])

Walk(t, g) ==
    LET walk[n \in Nat] ==
            IF n = 0 THEN Made(t, g)
            ELSE LET W == walk[n - 1]
                 IN  W \cup UNION {Beyond(t, g, p) : p \in W}
    IN  walk[Length(t)]

(* No way from where a thing is made to the end with PASS goes round its   *)
(* removal; and no way is longer than those walked.                        *)
Thorough(t) ==
    \A g \in Things :
        LET W == Walk(t, g)
        IN  /\ Made(t, g) \subseteq W
            /\ \A p \in W : Beyond(t, g, p) \subseteq W
            /\ <<"done", 1, "PASS">> \notin W

-----------------------------------------------------------------------------
(* A domain runs under its definition: who has made one has made the other. *)
Guest(g) == CASE g \in {"dom", "run"} -> {"dom", "run"}
              [] g \in {"dom2", "run2"} -> {"dom2", "run2"}
              [] OTHER -> {g}

(* A step that succeeds only if nobody else has something of that name.    *)
Claims(s, g) == s.act \in {"make", "start"} /\ s.on \cap Guest(g) # {}

(* Step i of x is reached only after such a step of x. *)
Claimed(t, x, g, i) ==
    \E j \in 1..(i - 1) :
        /\ Claims(t.code[x][j], g)
        /\ \A e \in t.code[x][j].fail : e.to # "next"

(* Section y is left for z by a step that has not claimed g. *)
Jumps(t, g, y, z) ==
    \E j \in DOMAIN t.code[y] :
        /\ ~Claimed(t, y, g, j)
        /\ \/ \E e \in t.code[y][j].fail : e.to = z
           \/ ~Claims(t.code[y][j], g) /\ \E e \in t.code[y][j].ok : e.to = z

(* Sections that may be entered while g is not claimed. *)
MoreUnclaimed(t, g) ==
    \/ \E y \in Sections \ {"more"} : Jumps(t, g, y, "more")
    \/ ~Claimed(t, "main", g, Len(t.code["main"]) + 1)

Unclaimed(t, g, z) ==
    \/ z = "main"
    \/ z = "more" /\ MoreUnclaimed(t, g)
    \/ /\ z \notin {"main", "more"}
       /\ \E y \in Sections :
             Jumps(t, g, y, z) /\ (y = "more" => MoreUnclaimed(t, g))
    \/ /\ z = "tail" /\ MoreUnclaimed(t, g)
       /\ ~Claimed(t, "more", g, Len(t.code["more"]) + 1)

(* What is removed or written over has been claimed before. *)
Gentle(t) ==
    \A g \in Things \ Private : \A z \in Sections :
        Unclaimed(t, g, z) =>
            \A i \in DOMAIN t.code[z] :
                \/ Claimed(t, z, g, i)
                \/ /\ ~Takes(t.code[z][i], g)
                   /\ ~(g \in Overwritten /\ Claims(t.code[z][i], g))
=============================================================================
