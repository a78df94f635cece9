-------------------------------- MODULE Venv --------------------------------
(***************************************************************************)
(* sop1/lab01/tutorial/example03 (sop-venv.c): environments are            *)
(* directories, each with a file "requirements" that lists its packages,   *)
(* one line "name version" each.  A run of the program creates             *)
(* environments, installs one package into them and removes one from them. *)
(* Runs follow each other; the user may kill one between any two writes.   *)
(* A file is a sequence of tokens: a name, a space, a version, a newline.  *)
(***************************************************************************)
EXTENDS Naturals, Sequences, SequencesExt, FiniteSets

CONSTANTS Envs, Pkgs,
          Version,    \* the version asked for
          MaxKills    \* bound: runs killed, at most one in each environment

VARIABLES
    pc,       \* "idle" (no run), "mkdir", "open", "check", "write", "file", "load", "flush"
    args,     \* the command line: flag -c, the packages of -i and -r, the names of -v
    env,      \* the environments the loop of pc has still to treat
    split,    \* install_pkg has overwritten the first '=' of its argument
    out,      \* tokens still to be written
    dirs,     \* environments whose directory exists
    has,      \* environments with a file "requirements"
    req,      \* its content
    files,    \* the package files in each directory
    list,     \* history: the packages installed and not removed, in order
    torn      \* history: environments a kill has left in the middle of a change

vars == <<pc, args, env, split, out, dirs, has, req, files, list, torn>>
disk == <<dirs, has, req, files>>

None == "none"
SP == " "
NL == "\n"
E == Head(env)

\* The command lines main accepts: one name or more, and something to do.
Args == {a \in [create : BOOLEAN, install : Pkgs \cup {None}, remove : Pkgs \cup {None},
                names : {s \in SeqOf(Envs, 2) : s # <<>>}] :
            a.create \/ a.install # None \/ a.remove # None}
NoArgs == [create |-> FALSE, install |-> None, remove |-> None, names |-> <<>>]

Init == /\ pc = "idle" /\ args = NoArgs /\ env = <<>> /\ split = FALSE /\ out = <<>>
        /\ dirs = {} /\ has = {} /\ req = [e \in Envs |-> <<>>]
        /\ files = [e \in Envs |-> {}] /\ list = [e \in Envs |-> <<>>] /\ torn = {}

-----------------------------------------------------------------------------
(* main: create_env, install_pkg and remove_pkg, each over all the names.  *)

Phases(a) == (IF a.create THEN <<"mkdir">> ELSE <<>>)
             \o (IF a.install # None THEN <<"check">> ELSE <<>>)
             \o (IF a.remove # None THEN <<"load">> ELSE <<>>)

End == pc' = "idle" /\ args' = NoArgs /\ env' = <<>> /\ split' = FALSE /\ out' = <<>>

\* main calls the functions left in ps.
Call(a, ps) == IF ps = <<>> THEN End
               ELSE pc' = Head(ps) /\ args' = a /\ env' = a.names /\ split' = FALSE /\ out' = <<>>

Run(a) == /\ pc = "idle" /\ Call(a, Phases(a))
          /\ UNCHANGED <<disk, list, torn>>

\* The loop of the function that began with p: the next name, or main goes on.
Loop(p) == IF Len(env) > 1
             THEN pc' = p /\ env' = Tail(env) /\ out' = <<>> /\ UNCHANGED <<args, split>>
             ELSE LET ps == Phases(args)
                      k == CHOOSE j \in 1 .. Len(ps) : ps[j] = p
                  IN  Call(args, SubSeq(ps, k + 1, Len(ps)))

\* ERR: the run ends, whatever it has done so far stays.
Err == End /\ UNCHANGED <<disk, list, torn>>

-----------------------------------------------------------------------------
(* create_env                                                              *)

Mkdir == /\ pc = "mkdir" /\ E \notin dirs
         /\ dirs' = dirs \cup {E} /\ pc' = "open"
         /\ UNCHANGED <<args, env, split, out, has, req, files, list, torn>>

MkdirFails == pc = "mkdir" /\ E \in dirs /\ Err

OpenRequirements == /\ pc = "open" /\ has' = has \cup {E} /\ Loop("mkdir")
                    /\ UNCHANGED <<dirs, req, files, list, torn>>

-----------------------------------------------------------------------------
(* Lines of a file, the last one possibly without its newline.             *)

\* The j-th smallest number of S.
Nth(S, j) == CHOOSE x \in S : Cardinality({y \in S : y <= x}) = j

Lines(f) == LET cuts == {0, Len(f)} \cup {i \in 1 .. Len(f) : f[i] = NL}
            IN  [j \in 1 .. Cardinality(cuts) - 1 |->
                    SubSeq(f, Nth(cuts, j) + 1, Nth(cuts, j + 1))]

HasSpace(l) == \E j \in 1 .. Len(l) : l[j] = SP

(* What strcmp sees: the line up to its first space.  Only a line cut off  *)
(* has none; no run appends to it, so names are never glued together.      *)
NameIn(l) == SubSeq(l, 1, SelectInSeq(l, LAMBDA t : t = SP) - 1)

\* install_pkg cuts off the last character first, remove_pkg does not.
ReadableBy(p, l) == HasSpace(IF p = "check" THEN Front(l) ELSE l)

Listed(f, pkg) == \E j \in DOMAIN Lines(f) : NameIn(Lines(f)[j]) = <<pkg>>
Readable(p, f) == \A j \in DOMAIN Lines(f) : ReadableBy(p, Lines(f)[j])

-----------------------------------------------------------------------------
(* install_pkg                                                             *)

\* Mutant: the check for an installed package is missing.
FreeAlways(f, pkg) == TRUE
Free(f, pkg) == ~Listed(f, pkg)

(* The string is split in place, so strstr finds no "==" for the second    *)
(* name.                                                                   *)
CanInstall == E \in dirs /\ ~split /\ E \in has
              /\ Readable("check", req[E]) /\ Free(req[E], args.install)

Check == /\ pc = "check" /\ CanInstall
         /\ pc' = "write" /\ split' = TRUE
         /\ out' = <<args.install, SP, Version, NL>>
         /\ UNCHANGED <<args, env, disk, list, torn>>

CheckFails == pc = "check" /\ ~CanInstall /\ Err

\* write_line: four writes, each appends.
WriteToken == /\ pc = "write"
              /\ req' = [req EXCEPT ![E] = Append(@, Head(out))]
              /\ out' = Tail(out)
              /\ pc' = IF Len(out) = 1 THEN "file" ELSE "write"
              /\ UNCHANGED <<args, env, split, dirs, has, files, list, torn>>

\* The package's file, unless an earlier installation has left one.
PackageFile == /\ pc = "file"
               /\ files' = [files EXCEPT ![E] = @ \cup {args.install}]
               /\ list' = [list EXCEPT ![E] = Append(@, args.install)]
               /\ Loop("check")
               /\ UNCHANGED <<dirs, has, req, torn>>

-----------------------------------------------------------------------------
(* remove_pkg                                                              *)

CanRemove == E \in dirs /\ E \in has
             /\ Readable("load", req[E]) /\ Listed(req[E], args.remove)

Kept(f, pkg) == LET ls == Lines(f)
                IN  FlattenSeq([j \in DOMAIN ls |->
                        IF NameIn(ls[j]) = <<pkg>> THEN <<>> ELSE ls[j]])

\* All lines but the package's are collected; fopen(..., "w") empties the file.
Load == /\ pc = "load" /\ CanRemove
        /\ out' = Kept(req[E], args.remove)
        /\ req' = [req EXCEPT ![E] = <<>>]
        /\ pc' = "flush"
        /\ UNCHANGED <<args, env, split, dirs, has, files, list, torn>>

LoadFails == pc = "load" /\ ~CanRemove /\ Err

\* fclose writes what fwrite has buffered; the package's file is kept.
Flush == /\ pc = "flush"
         /\ req' = [req EXCEPT ![E] = out]
         /\ list' = [list EXCEPT ![E] = RemoveFirst(@, args.remove)]
         /\ Loop("load")
         /\ UNCHANGED <<dirs, has, files, torn>>

-----------------------------------------------------------------------------

HalfDone == pc \in {"open", "file", "flush"} \/ (pc = "write" /\ Len(out) < 4)

(* The user kills the program in the middle of a change; between two       *)
(* changes a kill leaves what a command line with fewer names leaves.      *)
Killed == /\ HalfDone /\ E \notin torn /\ Cardinality(torn) < MaxKills
          /\ torn' = torn \cup {E} /\ End
          /\ UNCHANGED <<disk, list>>

Next == \/ \E a \in Args : Run(a)
        \/ Mkdir \/ MkdirFails \/ OpenRequirements
        \/ Check \/ CheckFails \/ WriteToken \/ PackageFile
        \/ Load \/ LoadFails \/ Flush \/ Killed

Spec == Init /\ [][Next]_vars

-----------------------------------------------------------------------------
(* Properties.                                                             *)

LineOf(pkg) == <<pkg, SP, Version, NL>>

(* Between two runs, an environment in which no run was killed lists       *)
(* exactly the packages installed and not removed, in the order of         *)
(* installation, on lines of their own, and has a file for each, however   *)
(* many runs have failed half-way through their names; and no environment, *)
(* not even one with a torn line, names a package on two lines.            *)
RequirementsSound ==
    pc = "idle" => \A e \in dirs :
        /\ e \notin torn =>
             /\ e \in has
             /\ req[e] = FlattenSeq([j \in DOMAIN list[e] |-> LineOf(list[e][j])])
             /\ Range(list[e]) \subseteq files[e]
        /\ \A j, k \in DOMAIN Lines(req[e]) :
             j # k => NameIn(Lines(req[e])[j]) # NameIn(Lines(req[e])[k])
=============================================================================
