-------------------------- MODULE KubeconfigProofs --------------------------
(***************************************************************************)
(* Kubeconfig for any number of targets, names of the user, credentials,   *)
(* edits and cut writes: types, the pointer kubectl follows, the backup,   *)
(* and what of the user's file a command may change.                       *)
(***************************************************************************)
EXTENDS Kubeconfig, TLAPS

\* Inductive: a file that is not there has no bad section, so a merge that
\* skips the look at the sections has none to see.
Typed ==
  /\ TypeOK
  /\ config.form = "absent" => config.bad = {}
  /\ call.step = "remove.write" => call.data.form = "mapping"

\* kubectl does not follow d's pointer to a context of SSHerpa's that is gone.
Resolves(d) ==
  d.current \in Targets => d.has["contexts"][d.current] # None
\* Inductive with Typed: the user's file resolves and so does what a removal
\* has read of it.
AllResolve ==
  ~damaged => /\ Resolves(config)
              /\ call.step = "remove.write" => Resolves(call.data)

\* d has nothing of SSHerpa's in it.
Untouched(d) ==
  /\ d.current \notin Targets
  /\ \A s \in Sections, t \in Targets : d.has[s][t] = None
\* Inductive with Typed: until the first write there is no backup and nothing
\* to remove, and a merge that gets past the backup found no file.
FirstWrite ==
  /\ BackupKeepsOriginal
  /\ original = None =>
       /\ Untouched(config) /\ backup.form = "absent"
       /\ call.step # "remove.write"
       /\ call.step = "merge.write" => call.data.form = "absent"

-----------------------------------------------------------------------------
(* Types                                                                   *)

LEMMA EmptyTyped ==
  /\ Empty \in Content /\ Absent \in Content /\ Absent.bad = {}
  /\ Absent.form = "absent" /\ Empty.form = "mapping"
  BY DEF Empty, Absent, Content, Opt

LEMMA FormTyped ==
  ASSUME NEW form \in {"absent", "undecodable", "unparsable", "mapping"}
  PROVE  /\ [Empty EXCEPT !.form = form] \in Content
         /\ [Empty EXCEPT !.form = form].form = form
         /\ [Empty EXCEPT !.form = form].bad = {}
  BY DEF Empty, Content, Opt

\* The entries left of a section are entries.
LEMMA CutSectionTyped ==
  ASSUME NEW e \in [Names -> Opt(Creds)], NEW part \in CutSection(e)
  PROVE  part \in [Names -> Opt(Creds)]
<1> DEFINE there == {n \in Names : e[n] # None}
           kept == {[n \in Names |-> IF n \in whole THEN e[n] ELSE None] :
                      whole \in SUBSET there}
<1>1. \A k \in kept : k \in [Names -> Opt(Creds)]
  BY DEF Opt
<1>2. \/ part \in kept
      \/ \E k \in kept, m \in UNION {CutName(n) : n \in there}, c \in Creds :
           part = [k EXCEPT ![m] = c]
  BY DEF CutSection
<1> HIDE DEF kept
<1> QED BY <1>1, <1>2 DEF Opt

LEMMA KeptTyped ==
  ASSUME NEW d \in Content, NEW keys
  PROVE  /\ Kept(d, keys) \in Content /\ Kept(d, keys).form = "mapping"
         /\ DOMAIN Kept(d, keys).has = Sections
  BY DEF Kept, Empty, Content, Opt

\* What a write leaves that is cut off is a file like any other: no YAML, or
\* a mapping.
LEMMA CutTyped ==
  ASSUME NEW d \in Content, NEW left \in Cut(d)
  PROVE  left \in Content /\ left.form # "absent"
<1>1. CASE left = [Empty EXCEPT !.form = "unparsable"]
  BY <1>1, FormTyped
<1>2. ASSUME NEW keys, left = Kept(d, keys)
      PROVE  left \in Content /\ left.form # "absent"
  BY <1>2, KeptTyped
<1>3. ASSUME NEW keys, NEW n \in CutName(d.current),
             left = [Kept(d, keys) EXCEPT !.current = n]
      PROVE  left \in Content /\ left.form # "absent"
  <2>1. n \in Opt(Names)
    BY DEF CutName, Opt, Names
  <2> QED BY <1>3, <2>1, KeptTyped DEF Content
<1>4. ASSUME NEW keys, NEW s \in Sections, NEW part \in CutSection(d.has[s]),
             left = [Kept(d, keys) EXCEPT !.has[s] = part]
      PROVE  left \in Content /\ left.form # "absent"
  <2>1. d.has[s] \in [Names -> Opt(Creds)]
    BY DEF Content
  <2>2. part \in [Names -> Opt(Creds)]
    BY <2>1, CutSectionTyped
  <2> QED BY <1>4, <2>2, KeptTyped DEF Content
<1>5. ASSUME NEW keys, NEW s \in Sections,
             left = [Kept(d, keys) EXCEPT !.bad = @ \cup {s}]
      PROVE  left \in Content /\ left.form # "absent"
  BY <1>5, KeptTyped DEF Content
<1>6. CASE left \in CutInSection(d)
  <2>1. PICK s \in Sections :
          left \in {[Kept(d, keys) EXCEPT !.has[s] = part] :
                      keys \in SUBSET (Keys \ {s}),
                      part \in CutSection(d.has[s])}
    BY <1>6 DEF CutInSection
  <2> QED BY <1>4, <2>1
<1>7. CASE left \in CutNull(d)
  <2>1. PICK keys \in SUBSET Keys, s \in Sections :
          left = [Kept(d, keys) EXCEPT !.bad = @ \cup {s}]
    BY <1>7 DEF CutNull
  <2> QED BY <1>5, <2>1
<1>8. CASE left \in CutPointer(d)
  BY <1>3, <1>8 DEF CutPointer
<1> QED BY <1>1, <1>2, <1>6, <1>7, <1>8 DEF Cut

LEMMA CutBackupTyped ==
  ASSUME NEW left \in CutBackup
  PROVE  left \in Content
  BY FormTyped DEF CutBackup

LEMMA MergedTyped ==
  ASSUME NEW d \in Content, NEW t \in Targets, NEW c \in Creds
  PROVE  /\ Merged(d, t, c) \in Content
         /\ Merged(d, t, c).form = "mapping"
  BY DEF Merged, Content, Opt, Names

LEMMA RemovedTyped ==
  ASSUME NEW d \in Content, NEW t \in Targets
  PROVE  /\ Removed(d, t) \in Content
         /\ Removed(d, t).form = d.form
  BY DEF Removed, Content, Opt

LEMMA FinishTyped ==
  ASSUME NEW outcome \in Finished, Finish(outcome)
  PROVE  call' \in Call /\ Idle' /\ call'.step # "remove.write"
  BY EmptyTyped DEF Finish, NoCall, Call, Opt, Idle, Finished

LEMMA FirstTouchTyped ==
  ASSUME TypeOK, FirstTouch
  PROVE  original' \in Opt(Content)
  BY DEF FirstTouch, TypeOK, Call, Opt

\* Where a call only ends, or a read stops it, nothing else is to be checked.
LEMMA FinishKeepsTyped ==
  ASSUME Typed, NEW outcome \in Finished, Finish(outcome),
         config' \in Content, config'.form = "absent" => config'.bad = {},
         backup' \in Content, original' \in Opt(Content),
         damaged' \in BOOLEAN, tattered' \in BOOLEAN,
         edits' \in 0..MaxEdits, cuts' \in 0..MaxCuts
  PROVE  Typed'
  BY FinishTyped DEF Typed, TypeOK

LEMMA ConfigForms ==
  ASSUME TypeOK
  PROVE  config.form \in {"absent", "undecodable", "unparsable", "mapping"}
  BY DEF TypeOK, Content

\* The call goes on as the same record.
LEMMA CallStep ==
  ASSUME TypeOK, NEW step
  PROVE  [call EXCEPT !.step = step].step = step
  BY DEF TypeOK, Call

\* A call ends there, or it goes on with what it has read.
LEMMA MergeLoadCall ==
  ASSUME TypeOK, NEW t, NEW c, MergeLoad(t, c)
  PROVE  \/ Finish("merge_error") \/ Finish("failed")
         \/ \E s \in {"merge.backup", "merge.write"} :
              /\ call' = [step |-> s, target |-> t, cred |-> c,
                          data |-> config]
              /\ config.form \in {"absent", "mapping"}
              /\ s = "merge.write" => config.form = "absent"
<1>1. CASE config.form = "absent"
  BY <1>1 DEF MergeLoad
<1>2. CASE config.form = "mapping"
  BY <1>2 DEF MergeLoad
<1>3. CASE config.form = "unparsable"
  BY <1>3 DEF MergeLoad
<1>4. CASE config.form = "undecodable"
  BY <1>4 DEF MergeLoad
<1> QED BY <1>1, <1>2, <1>3, <1>4, ConfigForms

LEMMA RemoveLoadCall ==
  ASSUME TypeOK, NEW t, RemoveLoad(t)
  PROVE  \/ Finish("kept") \/ Finish("failed")
         \/ /\ config.form = "mapping" /\ Removed(config, t) # config
            /\ call' = [step |-> "remove.write", target |-> t,
                        cred |-> None, data |-> config]
<1>1. CASE config.form = "absent"
  BY <1>1 DEF RemoveLoad
<1>2. CASE config.form = "mapping"
  BY <1>2 DEF RemoveLoad
<1>3. CASE config.form = "unparsable"
  BY <1>3 DEF RemoveLoad
<1>4. CASE config.form = "undecodable"
  BY <1>4 DEF RemoveLoad
<1> QED BY <1>1, <1>2, <1>3, <1>4, ConfigForms

LEMMA BackUpCall ==
  ASSUME TypeOK, BackUp
  PROVE  \/ Finish("merge_error") \/ Finish("failed")
         \/ call' = [call EXCEPT !.step = "merge.write"]
  BY DEF BackUp, AfterBackup, CutOff

LEMMA GhostsTyped ==
  ASSUME TypeOK, UNCHANGED ghostVars
  PROVE  /\ original' \in Opt(Content) /\ damaged' \in BOOLEAN
         /\ tattered' \in BOOLEAN
         /\ edits' \in 0..MaxEdits /\ cuts' \in 0..MaxCuts
  BY DEF TypeOK, ghostVars

LEMMA MergeLoadTyped ==
  ASSUME Typed, NEW t \in Targets, NEW c \in Creds, MergeLoad(t, c)
  PROVE  Typed'
<1>1. CASE \E outcome \in Finished : Finish(outcome)
  BY <1>1, FinishKeepsTyped, GhostsTyped DEF MergeLoad, Typed, TypeOK
<1>2. ASSUME NEW s \in {"merge.backup", "merge.write"},
             config.form \in {"absent", "mapping"},
             s = "merge.write" => config.bad = {},
             call' = [step |-> s, target |-> t, cred |-> c, data |-> config]
      PROVE  Typed'
  <2>1. /\ call' \in Call /\ call'.step = s /\ call'.data = config
        /\ call'.target = t /\ call'.cred = c
    BY <1>2 DEF Call, Typed, TypeOK, Opt
  <2> QED BY <1>2, <2>1, GhostsTyped DEF MergeLoad, Typed, TypeOK
<1> QED BY <1>1, <1>2, MergeLoadCall DEF Typed, Finished

LEMMA AfterBackupTyped ==
  ASSUME Typed, call.step = "merge.backup", AfterBackup,
         UNCHANGED <<config, damaged, tattered, edits, cuts>>,
         backup' \in Content, original' \in Opt(Content)
  PROVE  Typed'
<1>1. CASE Finish("merge_error")
  BY <1>1, FinishKeepsTyped DEF Typed, TypeOK, Finished
<1>2. CASE /\ call' = [call EXCEPT !.step = "merge.write"]
           /\ call.data.bad = {}
  <2>1. /\ call' \in Call /\ call'.step = "merge.write"
        /\ call'.data = call.data
        /\ call'.target = call.target /\ call'.cred = call.cred
    BY <1>2 DEF Call, Typed, TypeOK
  <2>2. ~Idle
    BY DEF Idle, Finished
  <2> QED BY <1>2, <2>1, <2>2 DEF Typed, TypeOK
<1> QED BY <1>1, <1>2 DEF AfterBackup

LEMMA CutOffTyped ==
  ASSUME TypeOK, CutOff
  PROVE  cuts' \in 0..MaxCuts /\ Finish("failed")
  BY MaxCutsAssumption DEF CutOff, TypeOK

LEMMA BackUpTyped ==
  ASSUME Typed, BackUp
  PROVE  Typed'
<1>1. call.data \in Content /\ backup \in Content /\ original \in Opt(Content)
  BY DEF Typed, TypeOK, Call
<1>2. CASE AfterBackup /\ UNCHANGED <<backup, original, tattered, cuts>>
  BY <1>1, <1>2, AfterBackupTyped DEF BackUp
<1>3. CASE /\ backup' = call.data /\ FirstTouch /\ AfterBackup
           /\ UNCHANGED <<tattered, cuts>>
  <2>1. original' \in Opt(Content)
    BY <1>3, FirstTouchTyped DEF Typed
  <2> QED BY <1>1, <1>3, <2>1, AfterBackupTyped DEF BackUp
<1>4. CASE /\ backup' \in CutBackup /\ FirstTouch /\ CutOff
           /\ tattered' = TRUE
  <2>1. original' \in Opt(Content) /\ cuts' \in 0..MaxCuts
        /\ Finish("failed")
    BY <1>4, FirstTouchTyped, CutOffTyped DEF Typed
  <2>2. backup' \in Content
    BY <1>4, CutBackupTyped
  <2> QED BY <1>4, <2>1, <2>2, FinishKeepsTyped
          DEF BackUp, Typed, TypeOK, Finished
<1> QED BY <1>2, <1>3, <1>4 DEF BackUp

\* What both writes come to, given what they write.
LEMMA WriteTyped ==
  ASSUME Typed, NEW written \in Content, written.form # "absent",
         \/ /\ config' = written /\ damaged' \in BOOLEAN /\ UNCHANGED cuts
            /\ Finish("merged") \/ Finish("removed")
         \/ CutOff /\ config' \in Cut(written) /\ damaged' = TRUE,
         FirstTouch, UNCHANGED <<backup, tattered, edits>>
  PROVE  Typed'
<1>1. original' \in Opt(Content)
  BY FirstTouchTyped DEF Typed
<1>2. CASE /\ config' = written /\ damaged' \in BOOLEAN /\ UNCHANGED cuts
           /\ Finish("merged") \/ Finish("removed")
  BY <1>1, <1>2, FinishKeepsTyped DEF Typed, TypeOK, Finished
<1>3. CASE CutOff /\ config' \in Cut(written) /\ damaged' = TRUE
  <2>1. config' \in Content /\ config'.form # "absent"
    BY <1>3, CutTyped
  <2>2. cuts' \in 0..MaxCuts /\ Finish("failed")
    BY <1>3, CutOffTyped DEF Typed
  <2> QED BY <1>1, <1>3, <2>1, <2>2, FinishKeepsTyped
          DEF Typed, TypeOK, Finished
<1> QED BY <1>2, <1>3

LEMMA MergeWriteTyped ==
  ASSUME Typed, MergeWrite
  PROVE  Typed'
<1> DEFINE written == Merged(call.data, call.target, call.cred)
<1>1. /\ call.data \in Content /\ call.target \in Targets
      /\ call.cred \in Creds
  BY DEF Typed, TypeOK, Call, MergeWrite, Idle, Finished
<1>2. written \in Content /\ written.form # "absent"
  BY <1>1, MergedTyped
<1> HIDE DEF written
<1>3. \/ config' = written /\ damaged' = FALSE
         /\ Finish("merged") /\ UNCHANGED cuts
      \/ CutOff /\ config' \in Cut(written) /\ damaged' = TRUE
  BY DEF MergeWrite, written
<1> QED BY <1>2, <1>3, WriteTyped DEF MergeWrite

LEMMA RemoveWriteTyped ==
  ASSUME Typed, RemoveWrite
  PROVE  Typed'
<1> DEFINE written == Removed(call.data, call.target)
<1>1. /\ call.data \in Content /\ call.target \in Targets
      /\ call.data.form = "mapping"
  BY DEF Typed, TypeOK, Call, RemoveWrite, Idle, Finished
<1>2. written \in Content /\ written.form # "absent"
  BY <1>1, RemovedTyped
<1> HIDE DEF written
<1>3. \/ config' = written /\ Finish("removed") /\ UNCHANGED <<damaged, cuts>>
      \/ CutOff /\ config' \in Cut(written) /\ damaged' = TRUE
  BY DEF RemoveWrite, written
<1> QED BY <1>2, <1>3, WriteTyped DEF RemoveWrite, Typed, TypeOK

LEMMA RemoveLoadTyped ==
  ASSUME Typed, NEW t \in Targets, RemoveLoad(t)
  PROVE  Typed'
<1>1. CASE \E outcome \in Finished : Finish(outcome)
  BY <1>1, FinishKeepsTyped, GhostsTyped DEF RemoveLoad, Typed, TypeOK
<1>2. CASE /\ config.form = "mapping"
           /\ call' = [step |-> "remove.write", target |-> t,
                       cred |-> None, data |-> config]
  <2>1. /\ call' \in Call /\ call'.step = "remove.write"
        /\ call'.data = config /\ call'.target = t
    BY <1>2 DEF Call, Typed, TypeOK, Opt
  <2> QED BY <1>2, <2>1, GhostsTyped DEF RemoveLoad, Typed, TypeOK
<1> QED BY <1>1, <1>2, RemoveLoadCall DEF Finished, Typed

LEMMA EditTyped ==
  ASSUME Typed, NEW c \in Content, c.form = "absent" => c.bad = {}, Edit(c),
         damaged' \in BOOLEAN
  PROVE  Typed'
<1>1. edits' \in 0..MaxEdits
  BY MaxEditsAssumption DEF Edit, Typed, TypeOK
<1> QED BY <1>1 DEF Edit, Typed, TypeOK, Idle

LEMMA UserEditsTyped ==
  ASSUME Typed, UserEdits
  PROVE  Typed'
<1>1. config \in Content /\ damaged \in BOOLEAN
  BY DEF Typed, TypeOK
<1>2. ASSUME NEW n \in Foreign, NEW c \in Creds, AddForeign(n, c)
      PROVE  Typed'
  <2> DEFINE d == [config EXCEPT
                     !.form = "mapping",
                     !.has = [s \in Sections |->
                                IF s \in config.bad THEN @[s]
                                ELSE [@[s] EXCEPT ![n] = c]]]
  <2>1. d \in Content /\ d.form = "mapping"
    BY <1>1 DEF Content, Opt
  <2>2. Edit(d) /\ damaged' \in BOOLEAN
    BY <1>1, <1>2 DEF AddForeign
  <2> HIDE DEF d
  <2> QED BY <2>1, <2>2, EditTyped
<1>3. ASSUME NEW n \in Names, UseContext(n)
      PROVE  Typed'
  <2>1. /\ [config EXCEPT !.current = n] \in Content
        /\ [config EXCEPT !.current = n].form = "mapping"
    BY <1>1, <1>3 DEF Content, Opt, UseContext, Readable
  <2> QED BY <1>1, <1>3, <2>1, EditTyped DEF UseContext
<1>4. ASSUME NEW s \in Sections, NEW n \in Names, DeleteEntry(s, n)
      PROVE  Typed'
  <2>1. /\ [config EXCEPT !.has[s][n] = None] \in Content
        /\ [config EXCEPT !.has[s][n] = None].form = "mapping"
    BY <1>1, <1>4 DEF Content, Opt, DeleteEntry, Readable
  <2> QED BY <1>1, <1>4, <2>1, EditTyped DEF DeleteEntry
<1>5. ASSUME NEW s \in Sections,
             Spoil([config EXCEPT !.bad = @ \cup {s},
                                  !.has[s] = [n \in Names |-> None]])
      PROVE  Typed'
  <2> DEFINE d == [config EXCEPT !.bad = @ \cup {s},
                                 !.has[s] = [n \in Names |-> None]]
  <2>1. d \in Content /\ d.form = "mapping"
    BY <1>1, <1>5 DEF Content, Opt, Spoil, Readable
  <2>2. Edit(d) /\ damaged' = TRUE
    BY <1>5 DEF Spoil
  <2> HIDE DEF d
  <2> QED BY <2>1, <2>2, EditTyped
<1>6. ASSUME NEW form \in {"undecodable", "unparsable", "absent"},
             Spoil([Empty EXCEPT !.form = form])
      PROVE  Typed'
  BY <1>6, FormTyped, EditTyped DEF Spoil
<1> QED BY <1>2, <1>3, <1>4, <1>5, <1>6 DEF UserEdits

LEMMA StepTyped ==
  ASSUME Typed, [Next]_vars
  PROVE  Typed'
<1>1. CASE UNCHANGED vars
  BY <1>1 DEF vars, ghostVars, Typed, TypeOK, Idle
<1>2. CASE Merge
  BY <1>2, MergeLoadTyped, BackUpTyped, MergeWriteTyped DEF Merge
<1>3. CASE Remove
  BY <1>3, RemoveLoadTyped, RemoveWriteTyped DEF Remove
<1>4. CASE UserEdits
  BY <1>4, UserEditsTyped
<1>5. CASE Interrupt
  BY <1>5, FinishKeepsTyped, GhostsTyped
     DEF Interrupt, Typed, TypeOK, Finished
<1> QED BY <1>1, <1>2, <1>3, <1>4, <1>5 DEF Next

LEMMA AlwaysTyped == Spec => []Typed
<1>1. Init => Typed
  <2>1. NoCall \in Call /\ NoCall.step = "idle"
    BY EmptyTyped DEF NoCall, Call, Opt, Finished
  <2> SUFFICES ASSUME Init PROVE Typed
    OBVIOUS
  <2>2. edits \in 0..MaxEdits /\ cuts \in 0..MaxCuts
    BY MaxEditsAssumption, MaxCutsAssumption DEF Init
  <2>3. Idle /\ call.step # "remove.write"
    BY <2>1 DEF Init, Idle, Finished
  <2> QED BY <2>1, <2>2, <2>3, EmptyTyped DEF Init, Typed, TypeOK, Opt
<1>2. Typed /\ [Next]_vars => Typed'
  BY StepTyped
<1> QED BY <1>1, <1>2, PTL DEF Spec

\* Every file is of a modelled kind, and what a command is about to write is a
\* mapping of lists: a section that is no list ends the merge before.
THEOREM KubeconfigTyped == Spec => []TypeOK
<1>1. Typed => TypeOK
  BY DEF Typed
<1> QED BY <1>1, AlwaysTyped, PTL

-----------------------------------------------------------------------------
(* The pointer kubectl follows                                             *)

LEMMA MergedResolves ==
  ASSUME NEW d \in Content, NEW t \in Targets, NEW c \in Creds
  PROVE  Resolves(Merged(d, t, c))
  BY NothingAssumption DEF Resolves, Merged, Content, Sections, Opt, Names

LEMMA RemovedResolves ==
  ASSUME NEW d \in Content, Resolves(d), NEW t \in Targets
  PROVE  Resolves(Removed(d, t))
  BY NothingAssumption DEF Resolves, Removed, Content, Sections, Opt, Names

LEMMA EmptyResolves ==
  \A form : Resolves([Empty EXCEPT !.form = form])
  BY NothingAssumption DEF Resolves, Empty

LEMMA UserEditsResolve ==
  ASSUME Typed, AllResolve, UserEdits
  PROVE  AllResolve'
<1> SUFFICES ASSUME ~damaged'
             PROVE  /\ Resolves(config)'
                    /\ call'.step = "remove.write" => Resolves(call'.data)
  BY DEF AllResolve, Resolves
<1>1. config \in Content /\ damaged \in BOOLEAN
  BY DEF Typed, TypeOK
<1>2. ~damaged /\ UNCHANGED call
  BY <1>1 DEF UserEdits, AddForeign, UseContext, DeleteEntry, Spoil, Edit
<1>3. /\ Resolves(config)
      /\ call.step = "remove.write" => Resolves(call.data)
  BY <1>2 DEF AllResolve
<1>4. ASSUME NEW n \in Foreign, NEW c \in Creds, AddForeign(n, c)
      PROVE  Resolves(config')
  <2> DEFINE d == [config EXCEPT
                     !.form = "mapping",
                     !.has = [s \in Sections |->
                                IF s \in config.bad THEN @[s]
                                ELSE [@[s] EXCEPT ![n] = c]]]
  <2>1. config' = d
    BY <1>4 DEF AddForeign, Edit
  <2>2. /\ d.current = config.current
        /\ \A t \in Targets : d.has["contexts"][t] = config.has["contexts"][t]
    BY <1>1, EntryNamesAssumption DEF Content, Sections, Names
  <2> HIDE DEF d
  <2> QED BY <1>3, <2>1, <2>2 DEF Resolves
<1>5. ASSUME NEW n \in Names, UseContext(n)
      PROVE  Resolves(config')
  BY <1>1, <1>5, EntryNamesAssumption
     DEF UseContext, Edit, Resolves, Content
<1>6. ASSUME NEW s \in Sections, NEW n \in Names, DeleteEntry(s, n)
      PROVE  Resolves(config')
  <2>1. n \notin Targets
    BY <1>1, <1>6 DEF DeleteEntry
  <2> QED BY <1>1, <1>3, <1>6, <2>1
          DEF DeleteEntry, Edit, Resolves, Content, Sections
<1>7. ASSUME NEW c, Spoil(c)
      PROVE  FALSE
  BY <1>7 DEF Spoil
<1>8. Resolves(config')
  BY <1>4, <1>5, <1>6, <1>7 DEF UserEdits
<1> QED BY <1>2, <1>3, <1>8 DEF Resolves

LEMMA StepResolves ==
  ASSUME Typed, AllResolve, [Next]_vars
  PROVE  AllResolve'
<1>1. CASE UNCHANGED vars
  BY <1>1 DEF vars, ghostVars, AllResolve, Resolves
<1>2. CASE \/ \E t \in Targets, c \in Creds : MergeLoad(t, c)
           \/ BackUp \/ Interrupt
  <2>1. UNCHANGED <<config, damaged>>
    BY <1>2 DEF MergeLoad, BackUp, Interrupt, ghostVars
  <2>2. TypeOK
    BY DEF Typed
  <2>3. call'.step # "remove.write"
    <3>1. CASE \E outcome \in Finished : Finish(outcome)
      BY <3>1, FinishTyped
    <3>2. ASSUME NEW t \in Targets, NEW c \in Creds, MergeLoad(t, c)
          PROVE  call'.step # "remove.write"
      BY <2>2, <3>1, <3>2, MergeLoadCall DEF Finished
    <3>3. CASE BackUp
      BY <2>2, <3>1, <3>3, BackUpCall, CallStep DEF Finished
    <3> QED BY <1>2, <3>1, <3>2, <3>3 DEF Interrupt, Finished
  <2> QED BY <2>1, <2>3 DEF AllResolve, Resolves
<1>3. CASE MergeWrite
  <2> DEFINE written == Merged(call.data, call.target, call.cred)
  <2>1. /\ call.data \in Content /\ call.target \in Targets
        /\ call.cred \in Creds
    BY <1>3 DEF Typed, TypeOK, Call, MergeWrite, Idle, Finished
  <2>2. written \in Content /\ Resolves(written)
    BY <2>1, MergedTyped, MergedResolves
  <2> HIDE DEF written
  <2>3. config' = written \/ damaged' = TRUE
    BY <1>3 DEF MergeWrite, written
  <2>4. ~damaged' => Resolves(config')
    BY <2>2, <2>3
  <2>5. call'.step # "remove.write"
    BY <1>3, FinishTyped DEF MergeWrite, CutOff, Finished
  <2> QED BY <2>4, <2>5 DEF AllResolve, Resolves
<1>4. ASSUME NEW t \in Targets, RemoveLoad(t)
      PROVE  AllResolve'
  <2>1. UNCHANGED <<config, damaged>>
    BY <1>4 DEF RemoveLoad, ghostVars
  <2>2. \/ \E outcome \in Finished : Finish(outcome)
        \/ call'.data = config
    <3>1. TypeOK
      BY DEF Typed
    <3> QED BY <1>4, <3>1, RemoveLoadCall DEF Finished
  <2>3. call'.step = "remove.write" => call'.data = config
    BY <2>2, FinishTyped
  <2> QED BY <2>1, <2>3 DEF AllResolve, Resolves
<1>5. CASE RemoveWrite
  <2> DEFINE written == Removed(call.data, call.target)
  <2>1. call.data \in Content /\ call.target \in Targets
    BY <1>5 DEF Typed, TypeOK, Call, RemoveWrite, Idle, Finished
  <2>2. call'.step # "remove.write"
    BY <1>5, FinishTyped DEF RemoveWrite, CutOff, Finished
  <2>3. ASSUME ~damaged' PROVE Resolves(config')
    <3>1. ~damaged /\ config' = written
      BY <1>5, <2>3 DEF RemoveWrite
    <3>2. Resolves(written)
      BY <1>5, <2>1, <3>1, RemovedResolves DEF AllResolve, RemoveWrite
    <3> QED BY <3>1, <3>2
  <2> QED BY <2>2, <2>3 DEF AllResolve, Resolves
<1>6. CASE UserEdits
  BY <1>6, UserEditsResolve
<1> QED BY <1>1, <1>2, <1>3, <1>4, <1>5, <1>6 DEF Next, Merge, Remove

\* kubectl is never left with a current-context of SSHerpa's whose entry is
\* gone: not by a down, not by any number of commands and edits in between.
\* Only the user's hand and a write that is cut off in the middle do it, and
\* then the next up that writes the file to its end mends it, whatever was cut.
THEOREM PointerResolves == Spec => []OurPointerResolves
<1>1. Init => AllResolve
  BY NothingAssumption
     DEF Init, AllResolve, Resolves, Absent, Empty, NoCall
<1>2. Typed /\ AllResolve /\ [Next]_vars => AllResolve'
  BY StepResolves
<1>3. AllResolve => OurPointerResolves
  BY DEF AllResolve, Resolves, OurPointerResolves
<1> QED BY <1>1, <1>2, <1>3, AlwaysTyped, PTL DEF Spec

-----------------------------------------------------------------------------
(* The backup                                                              *)

LEMMA FirstTouchLasts ==
  ASSUME TypeOK, FirstTouch
  PROVE  /\ original' # None
         /\ original # None => original' = original
         /\ original = None => original' = call.data
  BY NoContentAssumption DEF FirstTouch, TypeOK, Call

\* Where nothing is SSHerpa's, nothing is to be removed.
LEMMA NothingToRemove ==
  ASSUME NEW d \in Content, Untouched(d), NEW t \in Targets
  PROVE  Removed(d, t) = d
<1>1. \A s \in Sections : [d.has[s] EXCEPT ![t] = None] = d.has[s]
  BY DEF Content, Untouched
<1>2. [s \in Sections |-> [d.has[s] EXCEPT ![t] = None]] = d.has
  BY <1>1 DEF Content
<1>3. (IF d.current = t THEN None ELSE d.current) = d.current
  BY DEF Untouched
<1> DEFINE has == [s \in Sections |-> [d.has[s] EXCEPT ![t] = None]]
<1>4. Removed(d, t) = [d EXCEPT !.has = has,
                                !.current = IF @ = t THEN None ELSE @]
  BY DEF Removed
<1>5. has = d.has
  BY <1>2
<1> HIDE DEF has
<1>6. [d EXCEPT !.has = has, !.current = IF @ = t THEN None ELSE @] = d
  BY <1>3, <1>5 DEF Content
<1> QED BY <1>4, <1>6

LEMMA UserEditsTouchNothing ==
  ASSUME Typed, Untouched(config), UserEdits
  PROVE  Untouched(config')
<1>1. config \in Content
  BY DEF Typed, TypeOK
<1>2. ASSUME NEW n \in Foreign, NEW c \in Creds, AddForeign(n, c)
      PROVE  Untouched(config')
  <2> DEFINE d == [config EXCEPT
                     !.form = "mapping",
                     !.has = [s \in Sections |->
                                IF s \in config.bad THEN @[s]
                                ELSE [@[s] EXCEPT ![n] = c]]]
  <2>1. config' = d
    BY <1>2 DEF AddForeign, Edit
  <2>2. /\ d.current = config.current
        /\ \A s \in Sections, t \in Targets :
             d.has[s][t] = config.has[s][t]
    BY <1>1, EntryNamesAssumption DEF Content, Names
  <2> HIDE DEF d
  <2> QED BY <2>1, <2>2 DEF Untouched
<1>3. ASSUME NEW n \in Names, UseContext(n)
      PROVE  Untouched(config')
  <2>1. n \notin Targets
    BY <1>3, EntryNamesAssumption DEF UseContext, Untouched, Sections
  <2>2. config' = [config EXCEPT !.current = n]
    BY <1>3 DEF UseContext, Edit
  <2> QED BY <1>1, <2>1, <2>2 DEF Untouched, Content
<1>4. ASSUME NEW s \in Sections, NEW n \in Names, DeleteEntry(s, n)
      PROVE  Untouched(config')
  BY <1>1, <1>4 DEF DeleteEntry, Edit, Untouched, Content
<1>5. ASSUME NEW s \in Sections,
             Spoil([config EXCEPT !.bad = @ \cup {s},
                                  !.has[s] = [n \in Names |-> None]])
      PROVE  Untouched(config')
  <2> DEFINE d == [config EXCEPT !.bad = @ \cup {s},
                                 !.has[s] = [n \in Names |-> None]]
  <2>1. config' = d
    BY <1>5 DEF Spoil, Edit
  <2>2. d.current = config.current
    BY <1>1 DEF Content
  <2>3. \A r \in Sections, t \in Targets :
          d.has[r][t] = None \/ d.has[r][t] = config.has[r][t]
    BY <1>1 DEF Content, Names
  <2> HIDE DEF d
  <2> QED BY <2>1, <2>2, <2>3 DEF Untouched
<1>6. ASSUME NEW form \in {"undecodable", "unparsable", "absent"},
             Spoil([Empty EXCEPT !.form = form])
      PROVE  Untouched(config')
  <2>1. config' = [Empty EXCEPT !.form = form]
    BY <1>6 DEF Spoil, Edit
  <2> QED BY <2>1, NothingAssumption DEF Untouched, Empty, Names
<1> QED BY <1>2, <1>3, <1>4, <1>5, <1>6 DEF UserEdits

LEMMA BackUpKeepsFirst ==
  ASSUME Typed, FirstWrite, BackUp
  PROVE  FirstWrite'
<1> USE DEF FirstWrite, BackupKeepsOriginal
<1>1. CASE /\ backup.form # "absent"
           /\ UNCHANGED <<backup, original, tattered>>
  BY <1>1
<1>2. CASE FirstTouch /\ backup.form = "absent"
  <2>1. /\ original' # None
        /\ original # None => original' = original
        /\ original = None => original' = call.data
    BY <1>2, FirstTouchLasts DEF Typed
  <2>2. \/ backup' = call.data /\ UNCHANGED tattered
        \/ tattered' = TRUE
    BY <1>2 DEF BackUp
  <2> QED BY <1>2, <2>1, <2>2
<1> QED BY <1>1, <1>2 DEF BackUp

LEMMA StepKeepsFirst ==
  ASSUME Typed, FirstWrite, [Next]_vars
  PROVE  FirstWrite'
<1>1. TypeOK
  BY DEF Typed
<1>2. CASE UNCHANGED vars
  BY <1>2 DEF vars, ghostVars, FirstWrite, BackupKeepsOriginal, Untouched
<1>3. ASSUME NEW t \in Targets, NEW c \in Creds, MergeLoad(t, c)
      PROVE  FirstWrite'
  <2>1. UNCHANGED <<config, backup, original, tattered>>
    BY <1>3 DEF MergeLoad, ghostVars
  <2>2. /\ call'.step # "remove.write"
        /\ call'.step = "merge.write" => call'.data.form = "absent"
    <3>1. CASE Finish("merge_error") \/ Finish("failed")
      BY <3>1 DEF Finish, NoCall
    <3> QED BY <1>1, <1>3, <3>1, MergeLoadCall
  <2> QED BY <2>1, <2>2 DEF FirstWrite, BackupKeepsOriginal, Untouched
<1>4. CASE BackUp
  BY <1>4, BackUpKeepsFirst
<1>5. CASE MergeWrite
  <2>1. /\ original' # None
        /\ original # None => original' = original
        /\ original = None => original' = call.data
    BY <1>1, <1>5, FirstTouchLasts DEF MergeWrite
  <2>2. UNCHANGED <<backup, tattered>> /\ call.step = "merge.write"
    BY <1>5 DEF MergeWrite
  <2> QED BY <2>1, <2>2 DEF FirstWrite, BackupKeepsOriginal
<1>6. ASSUME NEW t \in Targets, RemoveLoad(t)
      PROVE  FirstWrite'
  <2>1. UNCHANGED <<config, backup, original, tattered>>
    BY <1>6 DEF RemoveLoad, ghostVars
  <2>2. original = None => Removed(config, t) = config
    BY <1>1, NothingToRemove DEF FirstWrite, TypeOK
  <2>3. original = None => Finish("kept") \/ Finish("failed")
    BY <1>1, <1>6, <2>2, RemoveLoadCall
  <2>4. original = None => call'.step \in {"kept", "failed"}
    BY <2>3 DEF Finish, NoCall
  <2> QED BY <2>1, <2>4 DEF FirstWrite, BackupKeepsOriginal, Untouched
<1>7. CASE RemoveWrite
  <2>1. /\ original # None /\ original' = original
        /\ UNCHANGED <<backup, tattered>>
    BY <1>1, <1>7, FirstTouchLasts DEF RemoveWrite, FirstWrite
  <2> QED BY <2>1 DEF FirstWrite, BackupKeepsOriginal
<1>8. CASE UserEdits
  <2>1. UNCHANGED <<backup, call, original, tattered>>
    BY <1>8 DEF UserEdits, AddForeign, UseContext, DeleteEntry, Spoil, Edit
  <2>2. original = None => Untouched(config')
    BY <1>8, UserEditsTouchNothing DEF FirstWrite
  <2> QED BY <2>1, <2>2 DEF FirstWrite, BackupKeepsOriginal, Untouched
<1>9. CASE Interrupt
  <2>1. UNCHANGED <<config, backup, original, tattered>>
    BY <1>9 DEF Interrupt, ghostVars
  <2>2. call'.step = "idle"
    BY <1>9 DEF Interrupt, Finish, NoCall
  <2> QED BY <2>1, <2>2 DEF FirstWrite, BackupKeepsOriginal, Untouched
<1> QED BY <1>2, <1>3, <1>4, <1>5, <1>6, <1>7, <1>8, <1>9
        DEF Next, Merge, Remove

\* The backup is the user's file as SSHerpa first found it, through any number
\* of merges, removals, edits and cut writes of the config; unless the write
\* of the backup itself was cut off.
THEOREM BackupIsTheOriginal == Spec => []BackupKeepsOriginal
<1>1. Init => FirstWrite
  BY NothingAssumption DEF Init, FirstWrite, BackupKeepsOriginal, Untouched,
                           Absent, Empty, NoCall, Names
<1>2. Typed /\ FirstWrite /\ [Next]_vars => FirstWrite'
  BY StepKeepsFirst
<1>3. FirstWrite => BackupKeepsOriginal
  BY DEF FirstWrite
<1> QED BY <1>1, <1>2, <1>3, AlwaysTyped, PTL DEF Spec

\* Where no write is cut off, a merge that is done has touched the file.
Whole ==
  /\ cuts = 0 /\ ~tattered
  /\ (call.step = "merged" => original # None)

\* Only a write that is cut off breaks that.
LEMMA StepKeepsWhole ==
  ASSUME Typed, Whole, [Next]_vars
  PROVE  Whole'
<1>1. TypeOK
  BY DEF Typed
<1>2. ~CutOff
  BY DEF CutOff, Whole
<1>3. CASE UNCHANGED vars
  BY <1>3 DEF vars, ghostVars, Whole
<1>4. ASSUME UNCHANGED ghostVars, call'.step # "merged"
      PROVE  Whole'
  BY <1>4 DEF ghostVars, Whole
<1>5. \A outcome : Finish(outcome) => call'.step = outcome
  BY DEF Finish, NoCall
<1>6. ASSUME NEW t \in Targets, NEW c \in Creds, MergeLoad(t, c)
      PROVE  Whole'
  <2>1. call'.step # "merged"
    BY <1>1, <1>5, <1>6, MergeLoadCall
  <2> QED BY <1>4, <1>6, <2>1 DEF MergeLoad
<1>7. CASE BackUp
  <2>1. call'.step # "merged"
    BY <1>1, <1>5, <1>7, BackUpCall, CallStep
  <2>2. UNCHANGED <<cuts, tattered>>
    BY <1>2, <1>7 DEF BackUp
  <2> QED BY <2>1, <2>2 DEF Whole
<1>8. CASE MergeWrite \/ RemoveWrite
  <2>1. original' # None
    BY <1>1, <1>8, FirstTouchLasts DEF MergeWrite, RemoveWrite
  <2>2. UNCHANGED <<cuts, tattered>>
    BY <1>2, <1>8 DEF MergeWrite, RemoveWrite
  <2> QED BY <2>1, <2>2 DEF Whole
<1>9. ASSUME NEW t \in Targets, RemoveLoad(t)
      PROVE  Whole'
  <2>1. call'.step # "merged"
    BY <1>1, <1>5, <1>9, RemoveLoadCall
  <2> QED BY <1>4, <1>9, <2>1 DEF RemoveLoad
<1>10. CASE UserEdits
  <2>1. PICK c : Edit(c)
    BY <1>10, Zenon DEF UserEdits, AddForeign, UseContext, DeleteEntry, Spoil
  <2>2. UNCHANGED <<call, original, tattered, cuts>>
    BY <2>1 DEF Edit
  <2> QED BY <2>2 DEF Whole
<1>11. CASE Interrupt
  BY <1>4, <1>5, <1>11 DEF Interrupt
<1> QED BY <1>3, <1>6, <1>7, <1>8, <1>9, <1>10, <1>11
        DEF Next, Merge, Remove

\* "The original is backed up before writing" is true of the code but for one
\* thing: where no write is cut off, a merge that has come to its end leaves
\* the original in the backup.  What the run KubeTornBackup shows has no other
\* cause; neither edits nor interruptions nor the order of commands do it.
THEOREM OnlyCutsLoseTheOriginal ==
  ASSUME MaxCuts = 0
  PROVE  Spec => []MergedMeansBackedUp
<1>1. Init => Whole
  BY DEF Init, NoCall, Whole
<1>2. Typed /\ Whole /\ [Next]_vars => Whole'
  BY StepKeepsWhole
<1>3. BackupKeepsOriginal /\ Whole => MergedMeansBackedUp
  BY DEF BackupKeepsOriginal, MergedMeansBackedUp, Whole
<1>. QED BY <1>1, <1>2, <1>3, BackupIsTheOriginal, AlwaysTyped, PTL DEF Spec

-----------------------------------------------------------------------------
(* What of the file a command changes                                      *)

\* A whole write changes one target's entries, and current-context only where
\* it is none, dangling or that target's.
Scoped(d, t, new) ==
  /\ \A s \in Sections, n \in Names \ {t} : new.has[s][n] = d.has[s][n]
  /\ d.current \in Foreign => new.current = d.current
  /\ d.current \in Targets \ {t} /\ d.has["contexts"][d.current] # None
       => new.current = d.current

LEMMA MergedScoped ==
  ASSUME NEW d \in Content, NEW t \in Targets, NEW c \in Creds
  PROVE  Scoped(d, t, Merged(d, t, c))
<1> DEFINE has == [s \in Sections |-> [d.has[s] EXCEPT ![t] = c]]
           new == Merged(d, t, c)
<1>1. new.has = has /\ \A s \in Sections, n \in Names \ {t} :
                         has[s][n] = d.has[s][n]
  BY DEF Merged, Content
<1>2. /\ d.current # None
      /\ ~(d.current \in Targets /\ has["contexts"][d.current] = None)
      => new.current = d.current
  BY DEF Merged, Content
<1>3. d.current \in Foreign => d.current # None /\ d.current \notin Targets
  BY NothingAssumption, EntryNamesAssumption
<1>4. d.current \in Targets \ {t} /\ d.has["contexts"][d.current] # None
      => d.current # None /\ has["contexts"][d.current] # None
  BY <1>1, NothingAssumption DEF Sections, Names
<1> HIDE DEF has, new
<1>5. Scoped(d, t, new)
  BY <1>1, <1>2, <1>3, <1>4 DEF Scoped
<1> QED BY <1>5 DEF new

LEMMA RemovedScoped ==
  ASSUME NEW d \in Content, NEW t \in Targets
  PROVE  Scoped(d, t, Removed(d, t))
  BY EntryNamesAssumption DEF Scoped, Removed, Content, Names

\* Unless the user was faster or the write is cut off, a command touches the
\* entries of its own target only, and no pointer that works or is not ours.
THEOREM OthersAreUntouched == Spec => OthersUntouched
<1> DEFINE Write ==
      call.step \in {"merge.write", "remove.write"}
        /\ call'.step \in {"merged", "removed"} /\ config = call.data =>
      Scoped(config, call.target, config')
<1>1. Typed /\ [Next]_vars => Write
  <2> SUFFICES ASSUME Typed, [Next]_vars,
                      call.step \in {"merge.write", "remove.write"},
                      call'.step \in {"merged", "removed"},
                      config = call.data
               PROVE  Scoped(config, call.target, config')
    OBVIOUS
  <2>1. config \in Content /\ call.target \in Targets
    BY DEF Typed, TypeOK, Idle, Finished
  <2>2. MergeWrite \/ RemoveWrite
    BY DEF Next, Merge, Remove, MergeLoad, RemoveLoad, BackUp, UserEdits,
           AddForeign, UseContext, DeleteEntry, Spoil, Edit, Interrupt,
           Finish, NoCall, vars, Idle, Finished
  <2>3. ~CutOff
    BY DEF CutOff, Finish, NoCall
  <2>4. CASE MergeWrite
    <3>1. config' = Merged(config, call.target, call.cred)
      BY <2>3, <2>4 DEF MergeWrite
    <3>2. call.cred \in Creds
      BY <2>4 DEF MergeWrite, Typed, TypeOK, Idle, Finished
    <3> QED BY <2>1, <3>1, <3>2, MergedScoped
  <2>5. CASE RemoveWrite
    <3>1. config' = Removed(config, call.target)
      BY <2>3, <2>5 DEF RemoveWrite
    <3> QED BY <2>1, <3>1, RemovedScoped
  <2> QED BY <2>2, <2>4, <2>5
<1>2. Typed /\ [Next]_vars =>
        [call.step \in {"merge.write", "remove.write"}
             /\ call'.step \in {"merged", "removed"} /\ config = call.data =>
           /\ \A s \in Sections, n \in Names \ {call.target} :
                config'.has[s][n] = config.has[s][n]
           /\ config.current \in Foreign => config'.current = config.current
           /\ config.current \in Targets \ {call.target}
                /\ config.has["contexts"][config.current] # None
                  => config'.current = config.current]_vars
  BY <1>1 DEF Scoped
<1> QED BY <1>2, AlwaysTyped, PTL DEF Spec, OthersUntouched
-----------------------------------------------------------------------------
(* Up and down undo each other                                             *)

\* Two contents that agree in what they have and point to are the same.
LEMMA SameContent ==
  ASSUME NEW d \in Content, NEW e \in Content,
         d.form = e.form, d.bad = e.bad, d.current = e.current,
         \A s \in Sections, n \in Names : d.has[s][n] = e.has[s][n]
  PROVE  d = e
<1>1. \A s \in Sections : d.has[s] = e.has[s]
  BY DEF Content
<1>2. d.has = e.has
  BY <1>1 DEF Content
<1>. QED BY <1>2 DEF Content

\* What merge and remove leave, entry by entry.
LEMMA MergedHas ==
  ASSUME NEW d \in Content, NEW t \in Targets, NEW c \in Creds
  PROVE  /\ Merged(d, t, c).bad = d.bad
         /\ \A s \in Sections, n \in Names :
              Merged(d, t, c).has[s][n] = IF n = t THEN c ELSE d.has[s][n]
         /\ Merged(d, t, c).current =
              IF \/ d.current = None
                 \/ /\ d.current \in Targets \ {t}
                    /\ d.has["contexts"][d.current] = None
              THEN t ELSE d.current
<1>. DEFINE has == [s \in Sections |-> [d.has[s] EXCEPT ![t] = c]]
<1>1. \A s \in Sections, n \in Names :
        has[s][n] = IF n = t THEN c ELSE d.has[s][n]
  BY DEF Content, Names
<1>2. /\ Merged(d, t, c).has = has /\ Merged(d, t, c).bad = d.bad
      /\ Merged(d, t, c).current =
           IF \/ d.current = None
              \/ d.current \in Targets /\ has["contexts"][d.current] = None
           THEN t ELSE d.current
  BY DEF Merged, Content
<1>3. ASSUME d.current \in Targets
      PROVE  has["contexts"][d.current] = None
               <=> d.current # t /\ d.has["contexts"][d.current] = None
  BY <1>1, <1>3, NothingAssumption DEF Sections, Names
<1>. HIDE DEF has
<1>. QED BY <1>1, <1>2, <1>3

LEMMA RemovedHas ==
  ASSUME NEW d \in Content, NEW t \in Targets
  PROVE  /\ Removed(d, t).bad = d.bad
         /\ \A s \in Sections, n \in Names :
              Removed(d, t).has[s][n] = IF n = t THEN None ELSE d.has[s][n]
         /\ Removed(d, t).current = IF d.current = t THEN None ELSE d.current
  BY DEF Removed, Content, Names

\* Taking the entries of a target out of a file that they were put into gives
\* the file back, and putting them in twice is putting them in once.
LEMMA RemoveUndoesMerge ==
  ASSUME NEW d \in Content, d.form = "mapping",
         d.current \in Targets => d.has["contexts"][d.current] # None,
         NEW t \in Targets, NEW c \in Creds, Removed(d, t) = d
  PROVE  /\ Removed(Merged(d, t, c), t) = d
         /\ Merged(Merged(d, t, c), t, c) = Merged(d, t, c)
<1>. DEFINE m == Merged(d, t, c)
<1>1. m \in Content /\ m.form = "mapping"
  BY MergedTyped
<1>2. /\ m.bad = d.bad
      /\ \A s \in Sections, n \in Names :
           m.has[s][n] = IF n = t THEN c ELSE d.has[s][n]
      /\ m.current = IF d.current = None THEN t ELSE d.current
  BY MergedHas
<1>3. /\ d.current # t
      /\ \A s \in Sections : d.has[s][t] = None
  <2>1. t \in Names /\ t # None
    BY NothingAssumption DEF Names
  <2>. QED BY <2>1, RemovedHas
<1>. HIDE DEF m
<1>4. Removed(m, t) = d
  <2>1. Removed(m, t) \in Content /\ Removed(m, t).form = d.form
    BY <1>1, RemovedTyped
  <2>2. /\ Removed(m, t).bad = d.bad /\ Removed(m, t).current = d.current
        /\ \A s \in Sections, n \in Names :
             Removed(m, t).has[s][n] = d.has[s][n]
    BY <1>1, <1>2, <1>3, RemovedHas
  <2>. QED BY <2>1, <2>2, SameContent
<1>5. Merged(m, t, c) = m
  <2>1. Merged(m, t, c) \in Content /\ Merged(m, t, c).form = m.form
    BY <1>1, MergedTyped
  <2>2. \A s \in Sections, n \in Names :
          Merged(m, t, c).has[s][n] = m.has[s][n]
    BY <1>1, <1>2, MergedHas
  <2>3. m.current # None
    BY <1>2, NothingAssumption
  <2>4. ~(m.current \in Targets \ {t} /\ m.has["contexts"][m.current] = None)
    BY <1>2 DEF Sections, Names
  <2>5. Merged(m, t, c).bad = m.bad /\ Merged(m, t, c).current = m.current
    BY <1>1, <2>3, <2>4, MergedHas
  <2>. QED BY <1>1, <2>1, <2>2, <2>5, SameContent
<1>. QED BY <1>4, <1>5 DEF m

\* Whatever the file holds when up and down come to it, down takes back what
\* up put in and no more, and an up that is repeated changes nothing.
THEOREM DownRestoresTheFile == Spec => []DownUndoesUp
<1>1. Typed => DownUndoesUp
  BY RemoveUndoesMerge DEF Typed, TypeOK, Readable, DownUndoesUp
<1>. QED BY <1>1, AlwaysTyped, PTL
=============================================================================
