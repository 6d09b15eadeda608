---------------------------- MODULE MCComponents ----------------------------
(***************************************************************************)
(* The components that share no state with each other, and with neither    *)
(* the collector nor the scheduler: in each behaviour one of them, the     *)
(* subject, takes steps and the others rest.                               *)
(***************************************************************************)
EXTENDS Hash, IoBuffer, Qrpa, MultiDispatch, StringGc, Panda, BuildOrder, LazyList, Exceptions, TLC

VARIABLE subject

components == <<hashVars, ioVars, qrpaVars, mdVars, pool, pdVars, boVars, llVars, exVars>>

Subjects == {"hash", "io", "qrpa", "dispatch", "strings", "panda", "order", "lists", "exceptions"}

Init ==
  /\ subject \in Subjects
  /\ HashInit /\ IoInit /\ QrpaInit /\ MdInit /\ SgInit /\ PdInit /\ BoInit /\ LlInit /\ ExInit
  /\ subject # "io" => io.mode = "r"
  /\ subject # "order" => usages_of = [m \in Module |-> {}]
  /\ subject # "lists" => ~lazy.endless

Hash_ == subject = "hash" /\ HashNext /\ UNCHANGED <<subject, ioVars, qrpaVars, mdVars, pool, pdVars, boVars, llVars, exVars>>
Io_ == subject = "io" /\ IoNext /\ UNCHANGED <<subject, hashVars, qrpaVars, mdVars, pool, pdVars, boVars, llVars, exVars>>
Qrpa_ == subject = "qrpa" /\ QrpaNext /\ UNCHANGED <<subject, hashVars, ioVars, mdVars, pool, pdVars, boVars, llVars, exVars>>
Dispatch_ == subject = "dispatch" /\ MdNext /\ UNCHANGED <<subject, hashVars, ioVars, qrpaVars, pool, pdVars, boVars, llVars, exVars>>
Strings_ == subject = "strings" /\ SgNext /\ UNCHANGED <<subject, hashVars, ioVars, qrpaVars, mdVars, pdVars, boVars, llVars, exVars>>
Panda_ == subject = "panda" /\ PdNext /\ UNCHANGED <<subject, hashVars, ioVars, qrpaVars, mdVars, pool, boVars, llVars, exVars>>
Order_ == subject = "order" /\ BoNext /\ UNCHANGED <<subject, hashVars, ioVars, qrpaVars, mdVars, pool, pdVars, llVars, exVars>>
Lists_ == subject = "lists" /\ LlNext /\ UNCHANGED <<subject, hashVars, ioVars, qrpaVars, mdVars, pool, pdVars, boVars, exVars>>
Exceptions_ == subject = "exceptions" /\ ExNext /\ UNCHANGED <<subject, hashVars, ioVars, qrpaVars, mdVars, pool, pdVars, boVars, llVars>>

Next == Hash_ \/ Io_ \/ Qrpa_ \/ Dispatch_ \/ Strings_ \/ Panda_ \/ Order_ \/ Lists_ \/ Exceptions_

Spec == Init /\ [][Next]_<<subject, components>> /\ WF_pdVars(PdStep)
(* The view of the run: what an array or a handle was asked last, and returned,
   decides nothing that comes after it. *)
Deciding == <<subject, hashVars, io, qrpa, mdVars, pool, pdVars, boVars, llVars, exVars>>
-----------------------------------------------------------------------------
HashOfDef == [k \in {"p", "q", "r", "s", "t"} |->
               CASE k = "p" -> 0 [] k = "q" -> 2 [] k = "r" -> 6 [] k = "s" -> 4 [] OTHER -> 1]
Entry(k) == [key |-> k, value |-> "v"]
OtherHashesDef == {<<Entry("p")>>, <<Entry("r"), Entry("q")>>, <<Entry("q"), Entry("s"), Entry("r")>>}

DataDef == {<<"a">>, <<"n">>, <<"n", "a">>, <<"a", "n", "a">>}

ListsDef == {<<>>, <<"x">>, <<"x", "null", "x">>}

TypeChecksDef == {<<"P", "P">>, <<"Q", "Q">>, <<"R", "R">>, <<"X", "X">>,
                  <<"Q", "P">>, <<"X", "P">>, <<"X", "Q">>, <<"X", "R">>}
TypeNumberDef == [t \in {"P", "Q", "R", "X"} |->
                   CASE t = "P" -> 1 [] t = "Q" -> 2 [] t = "R" -> 3 [] OTHER -> 4]
Cand(types, first) == [types |-> types, definednesses |-> <<first, "any", "any">>]
CandidateDef == {Cand(<<"Q", "P", "R">>, "defined only"), Cand(<<"R", "Q", "P">>, "any"),
                 Cand(<<"P", "R", "Q">>, "any")}
X(concrete) == [kind |-> "object", type |-> "X", concrete |-> concrete]
CapturesDef == {<<X(TRUE), X(TRUE), X(TRUE)>>, <<X(FALSE), X(TRUE), X(TRUE)>>}

DependsDef == [p \in {"a", "b", "c", "d", "e"} |->
                CASE p = "a" -> <<"b", "c">> [] p = "b" -> <<"c">> [] p = "c" -> <<>>
                  [] p = "d" -> <<"d">> [] OTHER -> <<"c", "nowhere">>]
RequestsDef == {[modules |-> <<"e", "d">>, nodeps |-> FALSE, notests |-> TRUE],
                [modules |-> <<"c", "a">>, nodeps |-> FALSE, notests |-> FALSE],
                [modules |-> <<"nowhere", "b">>, nodeps |-> TRUE, notests |-> TRUE]}

UsesDef == [{"u", "v", "w"} -> SUBSET {"u", "v", "w"}] \cup {[m \in {"u", "v", "w"} |-> {"elsewhere", "w"}]}
=============================================================================
