---------------------------- MODULE ProjectRoot -----------------------------
(***************************************************************************)
(* Which project a skill's customization is taken from                     *)
(* (_bmad/scripts/resolve_customization.py): the nearest directory above   *)
(* the working directory, the script or the skill that holds _bmad, or     *)
(* failing that .git, while people set projects up and write overrides.    *)
(* Directories are the nodes of a tree.                                    *)
(***************************************************************************)
EXTENDS Naturals, Sequences, SequencesExt

CONSTANTS Dirs, UpFrom(_), \* the directories, and the path from each to the top
          WorkDirs,        \* where the user may be working
          SkillDirs,       \* where the skill may be installed
          ScriptDirs,      \* directories whose _bmad/scripts may hold the script
          MaxMakes         \* bound on the changes of the tree

NoRoot == "no root"

ASSUME ProjectRootAssumption ==
  /\ WorkDirs \subseteq Dirs /\ SkillDirs \subseteq Dirs /\ ScriptDirs \subseteq Dirs /\ MaxMakes \in Nat
  /\ NoRoot \notin Dirs
  /\ \A d \in Dirs : /\ UpFrom(d) \in Seq(Dirs) \ {<<>>} /\ Head(UpFrom(d)) = d
                     /\ \A i \in DOMAIN UpFrom(d) : UpFrom(UpFrom(d)[i]) = SubSeq(UpFrom(d), i, Len(UpFrom(d)))

VARIABLES bmads, gits, overrides, \* directories with _bmad, .git, and with overrides of the skill
          makes,    \* changes of the tree so far
          resolved  \* the last answer of the script, NotResolved before

rootVars == <<bmads, gits, overrides, makes, resolved>>

NotResolved == [cwd |-> NoRoot, root |-> NoRoot, noted |-> FALSE, current |-> FALSE]

FirstIn(dirs, start) ==
  LET In(d) == d \in dirs
      at == SelectInSeq(UpFrom(start), In)
  IN IF at = 0 THEN NoRoot ELSE UpFrom(start)[at]

\* _bmad outranks .git at every depth.
FindProjectRoot(start) ==
  LET bmad == FirstIn(bmads, start) IN IF bmad # NoRoot THEN bmad ELSE FirstIn(gits, start)

\* The script's own place names a project only as <root>/_bmad/scripts.
ScriptProjectRoot(script) == IF script \in bmads THEN script ELSE NoRoot

\* The places looked at, most trustworthy first; NoRoot where nothing is found.
CandidateProjectRoots(cwd, script, skill) == <<FindProjectRoot(cwd), ScriptProjectRoot(script), FindProjectRoot(skill)>>

ChosenRoot(candidates) ==
  LET IsRoot(root) == root # NoRoot
      at == SelectInSeq(candidates, IsRoot)
  IN IF at = 0 THEN NoRoot ELSE candidates[at]

HasOverride(root) == root \in overrides

WarnOnMaskedOverride(chosen, candidates) ==
  chosen # NoRoot /\ ~HasOverride(chosen) /\ \E i \in DOMAIN candidates : HasOverride(candidates[i])

ResolveRoot(cwd, script, skill) ==
  LET candidates == CandidateProjectRoots(cwd, script, skill)
      root == ChosenRoot(candidates)
  IN /\ resolved' = [cwd |-> cwd, root |-> root, noted |-> WarnOnMaskedOverride(root, candidates), current |-> TRUE]
     /\ UNCHANGED <<bmads, gits, overrides, makes>>

Making == makes < MaxMakes /\ makes' = makes + 1 /\ resolved' = [resolved EXCEPT !.current = FALSE]
InstallBmad(d) == Making /\ d \notin bmads /\ bmads' = bmads \cup {d} /\ UNCHANGED <<gits, overrides>>
InitGit(d) == Making /\ d \notin gits /\ gits' = gits \cup {d} /\ UNCHANGED <<bmads, overrides>>
WriteOverride(d) == Making /\ d \in bmads \ overrides /\ overrides' = overrides \cup {d} /\ UNCHANGED <<bmads, gits>>

RootInit == bmads = {} /\ gits = {} /\ overrides = {} /\ makes = 0 /\ resolved = NotResolved

RootNext ==
  \/ \E cwd \in WorkDirs, script \in ScriptDirs, skill \in SkillDirs : ResolveRoot(cwd, script, skill)
  \/ \E d \in Dirs : InstallBmad(d) \/ InitGit(d) \/ WriteOverride(d)

RootSpec == RootInit /\ [][RootNext]_rootVars

-----------------------------------------------------------------------------
\* The tree and the last answer.
RootTypeOK ==
  /\ overrides \subseteq bmads /\ bmads \subseteq Dirs /\ gits \subseteq Dirs /\ makes \in 0..MaxMakes
  /\ resolved.root \in Dirs \cup {NoRoot}

\* Wherever in a project the user works, in a repository nested in it too, and wherever
\* the skill is installed, the overrides of that project are used and no others.
WorkingProjectWins ==
  resolved.current =>
    \A d \in bmads \cap Range(UpFrom(resolved.cwd)) :
      resolved.root \in bmads \cap Range(UpFrom(resolved.cwd)) /\ Len(UpFrom(resolved.root)) >= Len(UpFrom(d))
=============================================================================
