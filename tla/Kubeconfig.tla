----------------------------- MODULE Kubeconfig -----------------------------
(***************************************************************************)
(* ~/.kube/config, which SSHerpa shares with the user and with kubectl:    *)
(* kubeconfig.merge and kubeconfig.remove as cluster.up, cluster.down and  *)
(* cli.down call them.  Each reads the file, works on what it has read and *)
(* writes the whole file back.  Nothing is locked: the user edits the file *)
(* between two commands and between a read and its write.  write_private   *)
(* cuts the file to nothing and fills it again, and may get no further (a  *)
(* full disk, a machine that goes down).                                   *)
(*                                                                         *)
(* An entry name is a model value: a member of Targets stands for          *)
(* ssherpa-<target>, a member of Foreign for any other name.               *)
(***************************************************************************)
EXTENDS Naturals, FiniteSets

CONSTANTS Targets,   \* entry names that carry SSHerpa's prefix
          Foreign,   \* entry names of the user
          Creds,     \* what an entry can hold
          MaxEdits,  \* bound: how often the user edits the file
          MaxCuts,   \* bound: how often a write is cut off
          None

ASSUME EntryNamesAssumption == Targets \cap Foreign = {}
ASSUME NothingAssumption == None \notin Targets \cup Foreign \cup Creds
ASSUME MaxEditsAssumption == MaxEdits \in Nat
ASSUME MaxCutsAssumption == MaxCuts \in Nat

VARIABLES
  config,    \* ~/.kube/config
  backup,    \* ~/.kube/config.ssherpa-backup
  call,      \* what the command is doing, or how its last call ended
  original,  \* what SSHerpa had read when it first wrote; None before
  damaged,   \* entries of SSHerpa changed by hand, or a write of the file
             \* cut off, since a merge last came to its end
  tattered,  \* the write of the backup was cut off
  edits,     \* edits left
  cuts       \* cuts left

ghostVars == <<original, damaged, tattered, edits, cuts>>
vars == <<config, backup, call, ghostVars>>

-----------------------------------------------------------------------------
Sections == {"clusters", "users", "contexts"}
Names == Targets \cup Foreign
Opt(S) == S \cup {None}

\* A file that is not there, that is not UTF-8, that is no YAML mapping, or a
\* mapping: sections that are no lists, entries by name, current-context.
Content == [form : {"absent", "undecodable", "unparsable", "mapping"},
            bad : SUBSET Sections,
            has : [Sections -> [Names -> Opt(Creds)]],
            current : Opt(Names)]
Empty == [form |-> "mapping", bad |-> {}, current |-> None,
          has |-> [s \in Sections |-> [n \in Names |-> None]]]
Absent == [Empty EXCEPT !.form = "absent"]
ASSUME NoContentAssumption == None \notin Content

\* A name that is written in part is a shorter one, of either kind where it
\* began with the prefix.
CutName(n) == IF n \in Targets THEN Names
              ELSE IF n \in Foreign THEN Foreign ELSE {}

\* What is left of the entries of a section: any of them, in whatever order
\* they stand, and perhaps one more with a part of its name or of its content.
CutSection(e) ==
  LET there == {n \in Names : e[n] # None}
      kept == {[n \in Names |-> IF n \in whole THEN e[n] ELSE None] :
                 whole \in SUBSET there}
  IN kept \cup {[k EXCEPT ![m] = c] :
                  k \in kept, m \in UNION {CutName(n) : n \in there},
                  c \in Creds}

Keys == Sections \cup {"current"}
\* The keys of d that were written as a whole.
Kept(d, keys) ==
  [Empty EXCEPT !.bad = d.bad \cap keys,
                !.has = [s \in Sections |-> IF s \in keys THEN d.has[s]
                                            ELSE Empty.has[s]],
                !.current = IF "current" \in keys THEN d.current ELSE @]

\* One key more in part: the pointer with a shorter name, a section with some
\* of its entries, or, where it has none, a scrap of "null" that is no list.
CutPointer(d) ==
  {[Kept(d, keys) EXCEPT !.current = n] :
     keys \in SUBSET Sections, n \in CutName(d.current)}
CutInSection(d) ==
  UNION {{[Kept(d, keys) EXCEPT !.has[s] = part] :
            keys \in SUBSET (Keys \ {s}), part \in CutSection(d.has[s])} :
         s \in Sections}
CutNull(d) ==
  {[Kept(d, keys) EXCEPT !.bad = @ \cup {s}] :
     keys \in SUBSET Keys, s \in {s \in Sections : d.has[s] = Empty.has[s]}}

\* What write_text leaves when it is cut off.  It may stop at any character,
\* and the keys stand in the order the user's file had them in.  So there is
\* no YAML any more, or any of the keys, or one more in part.
Cut(d) ==
  {[Empty EXCEPT !.form = "unparsable"]} \cup
  {Kept(d, keys) : keys \in SUBSET Keys} \cup
  CutPointer(d) \cup CutInSection(d) \cup CutNull(d)

\* What is left of a backup that is cut off: nothing, no YAML, or the user's
\* text up to the middle of a character.  No code reads a backup, so a model
\* of how much of it there is would tell nothing more.
CutBackup == {[Empty EXCEPT !.form = form] :
                form \in {"mapping", "unparsable", "undecodable"}}

Finished == {"idle", "merged", "merge_error", "removed", "kept", "failed"}
Call == [step : Finished \cup {"merge.backup", "merge.write", "remove.write"},
         target : Opt(Targets), cred : Opt(Creds),
         data : Content]
NoCall == [step |-> "idle", target |-> None, cred |-> None, data |-> Empty]

Init ==
  /\ config = Absent /\ backup = Absent
  /\ call = NoCall
  /\ original = None /\ damaged = FALSE /\ tattered = FALSE
  /\ edits = MaxEdits /\ cuts = MaxCuts

Idle == call.step \in Finished
Finish(outcome) == call' = [NoCall EXCEPT !.step = outcome]
FirstTouch == original' = IF original = None THEN call.data ELSE original
\* The write stops in the middle and the command with it.
CutOff == cuts > 0 /\ cuts' = cuts - 1 /\ Finish("failed")

-----------------------------------------------------------------------------
(* kubeconfig.merge                                                        *)

\* _load answers an empty mapping for a file that is not there.  It raises
\* KubeconfigError for one that is no mapping, which up reports and survives,
\* and UnicodeDecodeError, which nobody catches, for one that is not UTF-8.
MergeLoad(t, c) ==
  /\ Idle
  /\ LET Go(s, d) == call' = [step |-> s, target |-> t, cred |-> c,
                              data |-> d]
     IN
     CASE config.form = "absent" -> Go("merge.write", config)
       [] config.form = "mapping" -> Go("merge.backup", config)
       [] config.form = "unparsable" -> Finish("merge_error")
       [] config.form = "undecodable" -> Finish("failed")
  /\ UNCHANGED <<config, backup, ghostVars>>

AfterBackup ==
  IF call.data.bad # {} THEN Finish("merge_error")
  ELSE call' = [call EXCEPT !.step = "merge.write"]

\* Broken: the backup is written anew every time.
BackUpAlways ==
  /\ call.step = "merge.backup"
  /\ backup' = call.data /\ FirstTouch
  /\ AfterBackup
  /\ UNCHANGED <<config, damaged, tattered, edits, cuts>>

\* Broken: a section is taken for a list without looking.
BackUpUnlooked ==
  /\ call.step = "merge.backup"
  /\ IF backup.form = "absent"
     THEN backup' = call.data /\ FirstTouch
     ELSE UNCHANGED <<backup, original>>
  /\ call' = [call EXCEPT !.step = "merge.write"]
  /\ UNCHANGED <<config, damaged, tattered, edits, cuts>>

\* What was read is kept, once; then the sections have to be lists.
BackUp ==
  /\ call.step = "merge.backup"
  /\ \/ backup.form # "absent" /\ AfterBackup
        /\ UNCHANGED <<backup, original, tattered, cuts>>
     \/ backup.form = "absent" /\ backup' = call.data
        /\ FirstTouch /\ AfterBackup /\ UNCHANGED <<tattered, cuts>>
     \/ backup.form = "absent" /\ backup' \in CutBackup
        /\ FirstTouch /\ CutOff /\ tattered' = TRUE
  /\ UNCHANGED <<config, damaged, edits>>

\* Broken: a pointer to a context that is not in this file is an orphan.
MergedOverOrphans(d, t, c) ==
  LET has == [s \in Sections |-> [d.has[s] EXCEPT ![t] = c]]
      orphan == d.current # None /\ has["contexts"][d.current] = None
  IN [d EXCEPT !.form = "mapping", !.has = has,
               !.current = IF @ = None \/ orphan THEN t ELSE @]

\* The entries of the target are put in or replaced.  current-context is
\* taken only if there is none, or if it is one of SSHerpa's and dangling.
Merged(d, t, c) ==
  LET has == [s \in Sections |-> [d.has[s] EXCEPT ![t] = c]]
      gone == d.current \in Targets /\ has["contexts"][d.current] = None
  IN [d EXCEPT !.form = "mapping", !.has = has,
               !.current = IF @ = None \/ gone THEN t ELSE @]

MergeWrite ==
  /\ call.step = "merge.write"
  /\ LET written == Merged(call.data, call.target, call.cred) IN
     \/ config' = written /\ damaged' = FALSE
        /\ Finish("merged") /\ UNCHANGED cuts
     \/ CutOff /\ config' \in Cut(written) /\ damaged' = TRUE
  /\ FirstTouch
  /\ UNCHANGED <<backup, tattered, edits>>

-----------------------------------------------------------------------------
(* kubeconfig.remove                                                       *)

\* Broken: current-context goes on naming the cluster that is gone.
RemovedEntries(d, t) ==
  [d EXCEPT !.has = [s \in Sections |-> [d.has[s] EXCEPT ![t] = None]]]

\* Broken: the user's credentials stay where they are.
RemovedButUsers(d, t) ==
  [d EXCEPT !.has = [s \in Sections |-> IF s = "users" THEN d.has[s]
                                        ELSE [d.has[s] EXCEPT ![t] = None]],
            !.current = IF @ = t THEN None ELSE @]

Removed(d, t) ==
  [d EXCEPT !.has = [s \in Sections |-> [d.has[s] EXCEPT ![t] = None]],
            !.current = IF @ = t THEN None ELSE @]

\* Nothing is written if nothing of the target is there; no backup is made.
RemoveLoad(t) ==
  /\ Idle
  /\ CASE config.form = "absent" -> Finish("kept")
       [] config.form = "mapping" ->
            IF Removed(config, t) = config THEN Finish("kept")
            ELSE call' = [step |-> "remove.write", target |-> t,
                          cred |-> None, data |-> config]
       [] config.form = "unparsable" -> Finish("kept")
       [] config.form = "undecodable" -> Finish("failed")
  /\ UNCHANGED <<config, backup, ghostVars>>

RemoveWrite ==
  /\ call.step = "remove.write"
  /\ LET written == Removed(call.data, call.target) IN
     \/ config' = written
        /\ Finish("removed") /\ UNCHANGED <<damaged, cuts>>
     \/ CutOff /\ config' \in Cut(written) /\ damaged' = TRUE
  /\ FirstTouch
  /\ UNCHANGED <<backup, tattered, edits>>

\* ^C between two steps.
Interrupt ==
  /\ call.step \notin Finished /\ Finish("idle")
  /\ UNCHANGED <<config, backup, ghostVars>>

-----------------------------------------------------------------------------
(* The user: kubectl, an editor                                            *)

Edit(c) ==
  /\ edits > 0 /\ edits' = edits - 1
  /\ config' = c
  /\ UNCHANGED <<backup, call, original, tattered, cuts>>

Readable == config.form = "mapping"
AddForeign(n, c) ==
  /\ Readable \/ config.form = "absent"
  /\ Edit([config EXCEPT
             !.form = "mapping",
             !.has = [s \in Sections |-> IF s \in config.bad THEN @[s]
                                         ELSE [@[s] EXCEPT ![n] = c]]])
  /\ UNCHANGED damaged
\* A context of the user's may be defined in another file of $KUBECONFIG.
UseContext(n) ==
  /\ Readable /\ (n \in Foreign \/ config.has["contexts"][n] # None)
  /\ Edit([config EXCEPT !.current = n])
  /\ UNCHANGED damaged
\* kubectl config delete-context leaves current-context alone.
DeleteEntry(s, n) ==
  /\ Readable /\ config.has[s][n] # None
  /\ Edit([config EXCEPT !.has[s][n] = None])
  /\ damaged' = (damaged \/ n \in Targets)
\* A slip of the editor: a section that is no list, a file that is no YAML,
\* a file saved in another encoding, no file.
Spoil(c) ==
  /\ Readable /\ Edit(c) /\ damaged' = TRUE
UserEdits ==
  \/ \E n \in Foreign, c \in Creds : AddForeign(n, c)
  \/ \E n \in Names : UseContext(n)
  \/ \E s \in Sections, n \in Names : DeleteEntry(s, n)
  \/ \E s \in Sections :
       Spoil([config EXCEPT !.bad = @ \cup {s},
                            !.has[s] = [n \in Names |-> None]])
  \/ \E form \in {"undecodable", "unparsable", "absent"} :
       Spoil([Empty EXCEPT !.form = form])

Merge == \/ \E t \in Targets, c \in Creds : MergeLoad(t, c)
         \/ BackUp \/ MergeWrite
Remove == (\E t \in Targets : RemoveLoad(t)) \/ RemoveWrite
Next == Merge \/ Remove \/ UserEdits \/ Interrupt
Spec == Init /\ [][Next]_vars

-----------------------------------------------------------------------------
(* Properties                                                              *)

\* Every variable has its type, and what is about to be written is a mapping
\* whose sections are lists.
TypeOK ==
  /\ config \in Content /\ backup \in Content
  /\ call \in Call
  /\ original \in Opt(Content) /\ damaged \in BOOLEAN
  /\ tattered \in BOOLEAN /\ edits \in 0..MaxEdits /\ cuts \in 0..MaxCuts
  /\ ~Idle =>
       /\ call.target \in Targets /\ call.data.form \in {"absent", "mapping"}
       /\ call.step \in {"merge.backup", "merge.write"} => call.cred \in Creds
       /\ call.step = "merge.write" => call.data.bad = {}

\* A command changes the entries of its own target and no others, and never
\* takes current-context from a name that is not SSHerpa's or that works;
\* provided nobody wrote the file since it was read and the write comes to
\* its end.
OthersUntouched ==
  [][call.step \in {"merge.write", "remove.write"}
         /\ call'.step \in {"merged", "removed"} /\ config = call.data =>
       /\ \A s \in Sections, n \in Names \ {call.target} :
            config'.has[s][n] = config.has[s][n]
       /\ config.current \in Foreign => config'.current = config.current
       /\ config.current \in Targets \ {call.target}
            /\ config.has["contexts"][config.current] # None
              => config'.current = config.current]_vars

\* kubectl is never left with a context of SSHerpa's that is gone, unless the
\* user took the entry away or a write of the file was cut off, and no up has
\* put its entries in to the end since.
OurPointerResolves ==
  ~damaged /\ config.current \in Targets
    => config.has["contexts"][config.current] # None

\* A down takes back what an up put in: where nothing is of target t, and no
\* pointer of SSHerpa's dangles, the file after both is the file before.  A
\* second up changes nothing that the first has not.
DownUndoesUp ==
  \A t \in Targets, c \in Creds :
    /\ Readable /\ config.bad = {} /\ Removed(config, t) = config
    /\ config.current \in Targets => config.has["contexts"][config.current] # None
    => /\ Removed(Merged(config, t, c), t) = config
       /\ Merged(Merged(config, t, c), t, c) = Merged(config, t, c)

\* If there was a file when SSHerpa first wrote to disk, the backup is what
\* was read of it and stays that, whatever is merged, removed or edited later
\* and whichever write to the config is cut off; unless the write of the
\* backup itself was.
BackupKeepsOriginal ==
  original # None /\ original.form # "absent" /\ ~tattered
    => backup = original

\* The same without the exception, once a merge has come to its end: the
\* module's header, "the original is backed up before writing".  A backup
\* that was cut off is there, is never made again, and the merge goes on.
MergedMeansBackedUp ==
  call.step = "merged" /\ original.form # "absent" => backup = original

=============================================================================
