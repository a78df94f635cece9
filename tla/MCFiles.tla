------------------------------ MODULE MCFiles ------------------------------
(***************************************************************************)
(* The sop1 programs that work on files for TLC: LetterCount (lab03        *)
(* prelab), Editor and Venv (lab01).  One of them is started; the others   *)
(* stand in their initial states, so the state spaces add up.              *)
(***************************************************************************)
EXTENDS LetterCount

CONSTANTS Chars, MaxLen, MaxLineNo,           \* Editor
          Envs, Pkgs, Version, MaxKills       \* Venv

ASSUME BoundAssumption == MaxLen \in Nat /\ MaxLineNo \in Nat

\* A name or a version is not what separates two of them.
ASSUME TokenAssumption == {" ", "\n"} \cap (Pkgs \cup {Version}) = {}

VARIABLES started,   \* the program that is started
          epc, text, keep, cmd, old, cut,
          vpc, args, env, split, out, dirs, has, req, files, list, torn

editorVars == <<epc, text, keep, cmd, old, cut>>
venvVars == <<vpc, args, env, split, out, dirs, has, req, files, list, torn>>
labVars == <<started, vars, editorVars, venvVars>>

Ed == INSTANCE Editor WITH pc <- epc, file <- text
Ve == INSTANCE Venv WITH pc <- vpc

\* Three files, one of them empty.
ThreeFiles == <<2, 0, 1>>

\* The file of an editor that is not started does not matter.
LabInit == /\ started \in {"count", "editor", "venv"}
           /\ Init /\ Ed!Init /\ Ve!Init
           /\ started # "editor" => text = <<>>

Counter(A) == started = "count" /\ A /\ UNCHANGED <<started, editorVars, venvVars>>
Editor(A) == started = "editor" /\ A /\ UNCHANGED <<started, vars, venvVars>>
Venv(A) == started = "venv" /\ A /\ UNCHANGED <<started, vars, editorVars>>

LabNext == Counter(Next) \/ Editor(Ed!Next) \/ Venv(Ve!Next)

\* The fairness of LetterCount; the other two wait for their user.
LabFairness ==
    /\ WF_labVars(Counter(Push)) /\ WF_labVars(Counter(StartThreads))
    /\ WF_labVars(Counter(Tick)) /\ WF_labVars(Counter(Exit))
    /\ WF_labVars(Counter(Signals))
    /\ \A w \in Workers : WF_labVars(Counter(Work(w)))

LabSpec == LabInit /\ [][LabNext]_labVars /\ LabFairness

-----------------------------------------------------------------------------
(* The properties of Editor and Venv, of the program that is started.      *)

\* Editor: a command does to the lines of the file what it says.
EditsLines == Ed!EditsLines

\* Editor: what the comment says of 'd'; violated by a number below 1.
DeletesNthLine == Ed!DeletesNthLine

\* Venv: "requirements" is the list of the packages installed.
RequirementsSound == Ve!RequirementsSound
=============================================================================
