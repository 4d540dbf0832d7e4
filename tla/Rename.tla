------------------------------- MODULE Rename -------------------------------
(***************************************************************************)
(* The rename tool: it lists every path under a directory, rewrites each   *)
(* file in place with eos, EOS and Eos replaced by uos, UOS and Uos, then  *)
(* renames files and directories the same way, last path first.  It may be *)
(* stopped anywhere and started again on what it left.                     *)
(*                                                                         *)
(* Names and texts are sequences of characters, a path is the sequence of  *)
(* the names on it, and the tree maps the paths there are to their nodes.  *)
(***************************************************************************)
EXTENDS Integers, Sequences, FiniteSets

CONSTANTS Trees,    \* the trees the tool may be given, the directory the
                    \* first name of every path
          Renaming, \* nameMap: a pattern -> its replacement
          Orders,   \* the orders in which Go may range over nameMap
          MaxRuns   \* bound on the runs of the tool

Name == Seq(Nat) \* characters are their codes
Parent(p) == SubSeq(p, 1, Len(p) - 1)

\* What Lstat tells apart; a sealed file is one OpenFile refuses or whose size
\* is over maxFileSize.  Only a link has a target, another path.
Kinds == {"dir", "file", "sealed", "link"}
Nodes == [id : Nat, kind : Kinds, text : Name, target : Seq(Name)]

\* nameMap: a replacement differs from its pattern in the first character, the
\* old one of which begins patterns only and the new one of which is in none.
ASSUME RenamingConsts ==
  /\ \A n \in DOMAIN Renaming :
       /\ n \in Name /\ n # << >> /\ Renaming[n] \in Name /\ Len(Renaming[n]) = Len(n)
       /\ \A k \in 2..Len(n) : Renaming[n][k] = n[k]
       /\ \A m \in DOMAIN Renaming :
            /\ \A k \in 2..Len(n) : n[k] # m[1]
            /\ \A k \in 1..Len(n) : n[k] # Renaming[m][1]
            /\ n[1] = m[1] => Renaming[n][1] = Renaming[m][1]
  /\ Orders # {}
  /\ \A ord \in Orders : /\ ord \in Seq(DOMAIN Renaming)
                        /\ {ord[k] : k \in DOMAIN ord} = DOMAIN Renaming

\* A directory on a disk: every entry is in a directory, but for the one given.
ASSUME RenameConsts ==
  /\ MaxRuns \in Nat
  /\ \A t \in Trees :
       /\ IsFiniteSet(DOMAIN t)
       /\ \E r \in DOMAIN t : \A p \in DOMAIN t : Len(p) = 1 <=> p = r
       /\ \A p \in DOMAIN t :
            /\ p \in Seq(Name) /\ p # << >> /\ t[p] \in Nodes
            /\ Len(p) > 1 => Parent(p) \in DOMAIN t /\ t[Parent(p)].kind = "dir"
            /\ t[p].kind \in {"dir", "link"} => t[p].text = << >>
            /\ \A q \in DOMAIN t : t[p].id = t[q].id => p = q

VARIABLES tree0, \* the tree before the first run (for the properties)
          tree,  \* path -> [id, kind, text, target]
          pc,    \* where the tool is
          paths, \* the paths listed
          i,     \* the index into paths
          src,   \* srcBytes
          lost,  \* files whose writing was cut short (for the properties)
          runs   \* runs started

vars == <<tree0, tree, pc, paths, i, src, lost, runs>>

-----------------------------------------------------------------------------
\* strings.Replace(t, old, new, -1), for patterns no two occurrences of which
\* can overlap, as long as their replacements.
Replace(t, old, new) ==
  LET starts == {k \in 1..Len(t) - Len(old) + 1 : SubSeq(t, k, k + Len(old) - 1) = old}
      Hit(k) == {j \in starts : k \in j..j + Len(old) - 1}
  IN  [k \in 1..Len(t) |-> IF Hit(k) = {} THEN t[k] ELSE new[k - (CHOOSE j \in Hit(k) : TRUE) + 1]]

\* The loop over nameMap, in one of its orders.
ReplaceAll(t, ord) ==
  LET after[k \in 0..Len(ord)] ==
        IF k = 0 THEN t ELSE Replace(after[k - 1], ord[k], Renaming[ord[k]])
  IN  after[Len(ord)]

Less(s, t) ==
  \/ \E k \in 1..Len(s) : k <= Len(t) /\ SubSeq(s, 1, k - 1) = SubSeq(t, 1, k - 1) /\ s[k] < t[k]
  \/ Len(s) < Len(t) /\ SubSeq(t, 1, Len(s)) = s
PathLess(p, q) ==
  \/ \E k \in 1..Len(p) : k <= Len(q) /\ SubSeq(p, 1, k - 1) = SubSeq(q, 1, k - 1) /\ Less(p[k], q[k])
  \/ Len(p) < Len(q) /\ SubSeq(q, 1, Len(p)) = p

\* The directory of the command line.
root == <<(CHOOSE p \in DOMAIN tree0 : Len(p) = 1)[1]>>

\* filepath.Walk: a directory, then its entries by name.  A root that is not
\* there is still passed to the callback.
Walk ==
  IF root \notin DOMAIN tree THEN <<root>>
  ELSE [k \in 1..Cardinality(DOMAIN tree) |->
          CHOOSE p \in DOMAIN tree : Cardinality({q \in DOMAIN tree : PathLess(q, p)}) = k - 1]

\* os.Stat and os.OpenFile follow a link; its target is not a link again.
Followed(p) == IF p \in DOMAIN tree /\ tree[p].kind = "link" THEN tree[p].target ELSE p

Under(p, q) == Len(p) <= Len(q) /\ SubSeq(q, 1, Len(p)) = p
Moved(q, p, new) == new \o SubSeq(q, Len(p) + 1, Len(q))

\* Mutant: the renamed directory is created anew and its entries stay behind.
RenamedAlone(p, new) ==
  IF p \notin DOMAIN tree \/ new \in DOMAIN tree THEN tree
  ELSE [q \in (DOMAIN tree \ {p}) \union {new} |-> IF q = new THEN tree[p] ELSE tree[q]]

\* os.Rename: a directory is never replaced, nor does one replace a file;
\* any other node at the new path is.
Renamed(p, new) ==
  IF \/ p \notin DOMAIN tree
     \/ new \in DOMAIN tree /\ "dir" \in {tree[new].kind, tree[p].kind}
  THEN tree
  ELSE LET kept == {q \in DOMAIN tree : ~Under(p, q) /\ q # new}
           moved == {q \in DOMAIN tree : Under(p, q)}
           From(q) == CHOOSE m \in moved : Moved(m, p, new) = q
       IN  [q \in kept \union {Moved(m, p, new) : m \in moved} |->
              IF q \in kept THEN tree[q] ELSE tree[From(q)]]

-----------------------------------------------------------------------------
Init ==
  /\ tree0 \in Trees /\ tree = tree0
  /\ pc = "stopped"
  /\ paths = << >> /\ i = 0 /\ src = << >>
  /\ lost = {} /\ runs = 0

Start ==
  /\ pc \in {"stopped", "finished", "panic"} /\ runs < MaxRuns
  /\ runs' = runs + 1
  /\ paths' = Walk /\ i' = 1 /\ src' = << >>
  /\ pc' = "content"
  /\ UNCHANGED <<tree0, tree, lost>>

\* The file, not a directory, that the path at i leads to.
AtFile == Followed(paths[i]) \in DOMAIN tree /\ tree[Followed(paths[i])].kind = "file"

ReadFile ==
  /\ pc = "content" /\ i <= Len(paths) /\ AtFile
  /\ \E ord \in Orders : src' = ReplaceAll(tree[Followed(paths[i])].text, ord)
  /\ pc' = "truncate"
  /\ UNCHANGED <<tree0, tree, paths, i, lost, runs>>

\* Directories are skipped, files that cannot be opened or are too large too.
SkipPath ==
  /\ pc = "content" /\ i <= Len(paths) /\ ~AtFile
  /\ Followed(paths[i]) \in DOMAIN tree
  /\ i' = i + 1
  /\ UNCHANGED <<tree0, tree, pc, paths, src, lost, runs>>

\* Stat found nothing and returned a nil FileInfo; its error is ignored.
Panic ==
  /\ pc = "content" /\ i <= Len(paths)
  /\ Followed(paths[i]) \notin DOMAIN tree
  /\ pc' = "panic"
  /\ UNCHANGED <<tree0, tree, paths, i, src, lost, runs>>

\* ioutil.WriteFile truncates the file when it opens it, then writes.
Truncate ==
  /\ pc = "truncate"
  /\ tree' = [tree EXCEPT ![Followed(paths[i])].text = << >>]
  /\ pc' = "write"
  /\ UNCHANGED <<tree0, paths, i, src, lost, runs>>

\* A text as far as it was written.
Begins(s, t) == \E k \in 0..Len(t) : s = SubSeq(t, 1, k)

\* A write that ends before its time leaves the beginning of srcBytes.
CutShort ==
  LET f == Followed(paths[i]) IN
    /\ \E k \in 0..Len(src) : tree' = [tree EXCEPT ![f].text = SubSeq(src, 1, k)]
    /\ lost' = lost \union {tree[f].id}

\* Mutant: when the write fails what was read is dropped and the file removed.
WriteFileRemoves ==
  /\ pc = "write"
  /\ LET f == Followed(paths[i]) IN
       \/ tree' = [tree EXCEPT ![f].text = src]
       \/ tree' = [p \in DOMAIN tree \ {f} |-> tree[p]]
  /\ i' = i + 1 /\ pc' = "content"
  /\ UNCHANGED <<tree0, paths, src, lost, runs>>

WriteFile ==
  /\ pc = "write"
  /\ \/ tree' = [tree EXCEPT ![Followed(paths[i])].text = src] /\ UNCHANGED lost
     \/ CutShort   \* the disk is full: reported, passed over
  /\ i' = i + 1 /\ pc' = "content"
  /\ UNCHANGED <<tree0, paths, src, runs>>

\* Mutant: the names are changed from the first path to the last.
ContentDoneForward ==
  /\ pc = "content" /\ i > Len(paths)
  /\ i' = Len(paths) /\ pc' = "names"
  /\ paths' = [k \in DOMAIN paths |-> paths[Len(paths) + 1 - k]]
  /\ UNCHANGED <<tree0, tree, src, lost, runs>>

ContentDone ==
  /\ pc = "content" /\ i > Len(paths)
  /\ i' = Len(paths) /\ pc' = "names"
  /\ UNCHANGED <<tree0, tree, paths, src, lost, runs>>

\* Mutant: only the last replacement made is kept, each starts from the old name.
ModifyNameLast ==
  /\ pc = "names" /\ i >= 1
  /\ LET p == paths[i]
         name == p[Len(p)]
     IN  \E ord \in Orders :
           LET hits == {k \in DOMAIN ord : Replace(name, ord[k], Renaming[ord[k]]) # name}
               last == CHOOSE k \in hits : \A m \in hits : m <= k
               newName == Replace(name, ord[last], Renaming[ord[last]])
           IN  tree' = IF hits # {} THEN Renamed(p, Append(SubSeq(p, 1, Len(p) - 1), newName)) ELSE tree
  /\ i' = i - 1
  /\ UNCHANGED <<tree0, pc, paths, src, lost, runs>>

ModifyName ==
  /\ pc = "names" /\ i >= 1
  /\ LET p == paths[i]
         dir == SubSeq(p, 1, Len(p) - 1)
     IN  \E ord \in Orders :
           LET newName == ReplaceAll(p[Len(p)], ord)
           IN  tree' = IF newName # p[Len(p)] THEN Renamed(p, Append(dir, newName)) ELSE tree
  /\ i' = i - 1
  /\ UNCHANGED <<tree0, pc, paths, src, lost, runs>>

\* Mutant: the contents are changed, with the paths listed, after the names.
FinishContent ==
  /\ pc = "names" /\ i = 0
  /\ pc' = "content" /\ i' = 1
  /\ UNCHANGED <<tree0, tree, paths, src, lost, runs>>

Finish ==
  /\ pc = "names" /\ i = 0
  /\ pc' = "finished"
  /\ UNCHANGED <<tree0, tree, paths, i, src, lost, runs>>

\* The process is killed.  What it has written outlives it; that a machine
\* that goes down may lose more, as nothing is synced, is not modelled.
Stop ==
  /\ pc \in {"content", "truncate", "write", "names"}
  /\ pc' = "stopped"
  /\ IF pc = "write" THEN CutShort ELSE UNCHANGED <<tree, lost>>
  /\ UNCHANGED <<tree0, paths, i, src, runs>>

Next == \/ Start \/ Stop
        \/ ReadFile \/ SkipPath \/ Panic \/ Truncate \/ WriteFile \/ ContentDone
        \/ ModifyName \/ Finish

Spec == Init /\ [][Next]_vars
-----------------------------------------------------------------------------
TypeOK ==
  /\ tree0 \in Trees
  /\ \A p \in DOMAIN tree : /\ tree[p].kind \in Kinds
                          /\ Len(p) > 1 => SubSeq(p, 1, Len(p) - 1) \in DOMAIN tree
  /\ pc \in {"stopped", "content", "truncate", "write", "names", "finished", "panic"}
  /\ i \in 0..Len(paths) + 1
  /\ pc \in {"truncate", "write"} => AtFile
  /\ lost \subseteq {tree0[p].id : p \in DOMAIN tree0}
  /\ runs \in 0..MaxRuns

\* What a name, a text and a path should become, with any order of nameMap.
Strings == UNION {UNION {{p[k] : k \in DOMAIN p} \union {t[p].text} : p \in DOMAIN t} : t \in Trees}
Cleaned == [t \in Strings |-> ReplaceAll(t, CHOOSE ord \in Orders : TRUE)]
Clean(t) == Cleaned[t]
CleanPath(p) == [k \in DOMAIN p |-> Clean(p[k])]
\* The paths that become the same as another one.
ClashesOf(t) == [p \in DOMAIN t |-> {q \in DOMAIN t \ {p} : CleanPath(q) = CleanPath(p)}]
Clashing == [t \in Trees |-> ClashesOf(t)]
Clashes(p) == Clashing[tree0][p]
NoClash == \A p \in DOMAIN tree0 : Clashes(p) = {}
Plain == Clean(root[1]) = root[1] /\ \A p \in DOMAIN tree0 : tree0[p].kind # "link"
PathOf(id) == CHOOSE p \in DOMAIN tree : tree[p].id = id
Ids == {tree[p].id : p \in DOMAIN tree}

(***************************************************************************)
(* While names are changed, every path still to be renamed is the path of  *)
(* something: the names are changed from the last path listed to the       *)
(* first, so a directory moves only after all that is below it             *)
(* (modifyFileName), in a first run and in one that starts from a tree     *)
(* half renamed.                                                           *)
(***************************************************************************)
PendingPathsExist ==
  pc = "names" /\ NoClash => \A k \in 1..i : paths[k] \in DOMAIN tree

(***************************************************************************)
(* A run that finishes leaves, from whatever tree the runs before it left, *)
(* exactly the tree that the replacements describe, whatever order Go      *)
(* ranged over nameMap in for each file and each name; only of a file      *)
(* whose rewriting was cut short the end may be missing, and what is left  *)
(* of it is replaced as described (main).                                  *)
(***************************************************************************)
FinishedAsDescribed ==
  pc = "finished" /\ NoClash =>
    /\ DOMAIN tree = {CleanPath(p) : p \in DOMAIN tree0}
    /\ \A p \in DOMAIN tree0 :
         LET n == tree[CleanPath(p)] IN
           /\ n.id = tree0[p].id /\ n.kind = tree0[p].kind
           /\ CASE n.kind = "sealed" -> n.text = tree0[p].text
                [] n.id \in lost -> Begins(n.text, Clean(tree0[p].text))
                [] OTHER -> n.text = Clean(tree0[p].text)

(***************************************************************************)
(* Nothing is lost but by one of two ways: a stop, or a full disk, while a *)
(* file is being written (WriteFile) takes the end of that file's text,    *)
(* which no later run brings back or makes into anything else, and a file  *)
(* renamed onto another takes the other away (os.Rename); and of the nodes *)
(* whose names become equal one is kept.                                   *)
(***************************************************************************)
NothingElseLost ==
  \A p \in DOMAIN tree0 :
    LET id == tree0[p].id IN
      /\ id \in Ids \/ \E q \in Clashes(p) : tree0[q].id \in Ids
      /\ id \in Ids =>
           \/ tree[PathOf(id)].text \in {tree0[p].text, Clean(tree0[p].text)}
           \/ /\ Begins(tree[PathOf(id)].text, Clean(tree0[p].text))
              /\ id \in lost \/ (pc = "write" /\ PathOf(id) = Followed(paths[i]))

(***************************************************************************)
(* In a tree without links, whose directory's own name stays, no run dies: *)
(* whatever state earlier runs were stopped in, no path that was listed    *)
(* makes Stat return nothing, on which modifyFileContent would call IsDir. *)
(* A link whose target an earlier run renamed does, and so does a root     *)
(* that it renamed.                                                        *)
(***************************************************************************)
PlainTreesFinish == Plain => pc # "panic"
=============================================================================
