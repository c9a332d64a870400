----------------------------- MODULE ScanPolicy ------------------------------
(***************************************************************************)
(* Which files of a project are indexed: the walk of a full index and the  *)
(* test the watcher puts a changed path to (indexer/mod.rs).               *)
(*                                                                         *)
(* A file is its path under the project, as a sequence of names, its       *)
(* extension and whether it is a declaration file (a.d.ts).  A glob is a   *)
(* path, anchored or at any depth (a leading **/ ), standing for itself or *)
(* for what is under it (a trailing /** ); or all files of an extension.   *)
(***************************************************************************)
EXTENDS Naturals, Sequences, SequencesExt

Glob(path, deep, under) == [path |-> path, deep |-> deep, under |-> under, ext |-> "none"]
ExtGlob(ext) == [path |-> << >>, deep |-> TRUE, under |-> FALSE, ext |-> ext]

Tails(glob, path) ==
  {SubSeq(path, i, Len(path)) : i \in IF glob.deep THEN 1..Len(path) ELSE {1}}
Matches(glob, path) ==
  /\ glob.ext = "none"
  /\ \E tail \in Tails(glob, path) : IF glob.under THEN IsStrictPrefix(glob.path, tail)
                                     ELSE tail = glob.path
MatchesFile(glob, file) == glob.ext = file.ext \/ Matches(glob, file.path)

(* The path of a directory, written with a slash at its end.               *)
MatchesSlash(glob, path) ==
  /\ glob.ext = "none" /\ glob.under
  /\ \E tail \in Tails(glob, path) : IsPrefix(glob.path, tail)

-----------------------------------------------------------------------------
(* .gitignore: a negated line is skipped, one with a slash is anchored; a  *)
(* bare name stands at any depth, one with a star for files only.          *)
GitignoreGlobs(line) ==
  CASE line.negated -> {}
    [] line.star # "none" -> {ExtGlob(line.star)}
    [] line.anchored \/ Len(line.path) > 1 ->
         {Glob(line.path, FALSE, FALSE), Glob(line.path, FALSE, TRUE)}
    [] OTHER -> {Glob(line.path, TRUE, FALSE), Glob(line.path, TRUE, TRUE)}

DefaultExcludes(extraDirs) ==
  {Glob(<<dir>>, FALSE, TRUE) :
     dir \in {"target", ".git", "__pycache__", "node_modules", ".venv", "venv"}}
  \cup {ExtGlob("pyc")}
  \cup {Glob(<<dir>>, deep, under) : dir \in extraDirs, deep, under \in BOOLEAN}

BuiltinDirs == {"target", "node_modules", "dist", "build", "out", "venv", "env", "coverage"}
ExcludedDir(name, extraDirs) == name \in BuiltinDirs \cup extraDirs

-----------------------------------------------------------------------------
(* The walk enters no directory that matches, or that is named so, and     *)
(* takes a file unless it matches, under the project or as a whole path.   *)
Parents(file) == {SubSeq(file.path, 1, n) : n \in 1..(Len(file.path) - 1)}
Pruned(dir, globs, extraDirs) ==
  \/ \E glob \in globs : Matches(glob, dir) \/ MatchesSlash(glob, dir)
  \/ \E i \in DOMAIN dir : ExcludedDir(dir[i], extraDirs)
WalkExcludes(file, root, globs, extraDirs) ==
  \/ \E dir \in Parents(file) : Pruned(dir, globs, extraDirs)
  \/ \E glob \in globs :
       \/ MatchesFile(glob, file)
       \/ glob.deep /\ Matches(glob, root \o file.path)

(* path_is_excluded looks at the path of the file alone, and at every name *)
(* on it, that of the file included.                                       *)
PathIsExcluded(file, globs, extraDirs) ==
  \/ \E glob \in globs : MatchesFile(glob, file)
  \/ \E i \in DOMAIN file.path : ExcludedDir(file.path[i], extraDirs)
=============================================================================
