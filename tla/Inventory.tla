------------------------------ MODULE Inventory ------------------------------
(***************************************************************************)
(* ~/.ssherpa/inventory.yml and the commands that write it: target add,    *)
(* update and remove.  Each reads the file, works on what it has read and  *)
(* writes the whole file back; nothing is locked, commands are given from  *)
(* several terminals, and the file may be edited by hand.  A command that  *)
(* is refused takes no step: it has written nothing.                       *)
(*                                                                         *)
(* A value is one the checks let pass, or Bad: an empty text, a port out   *)
(* of range.  The key and the user are treated alike.                      *)
(***************************************************************************)
EXTENDS Naturals, FiniteSets

CONSTANTS Clis,      \* terminals
          Names,     \* of targets
          Optional,  \* the fields beside the address
          Good,      \* values the checks let pass
          Bad,       \* one they do not
          MaxEdits,  \* bound: how often somebody edits the file
          MaxCuts,   \* bound: how often a write is cut off
          None

ASSUME OptionalAssumption == Optional \subseteq {"user", "port", "key"}
ASSUME ValuesAssumption == Bad \notin Good /\ None \notin Good \cup {Bad}
ASSUME MaxEditsAssumption == MaxEdits \in Nat
ASSUME MaxCutsAssumption == MaxCuts \in Nat

VARIABLES
  file,     \* the inventory
  pc, cli,  \* of every terminal: its step, its local variables
  byhand,   \* fields that were once written by hand, or cut off
  outside,  \* turns over when the file is changed in any other way than by a
            \* command that writes what it read and one change to it
  edits,    \* edits left
  cuts      \* cuts left

vars == <<file, pc, cli, byhand, outside, edits, cuts>>

-----------------------------------------------------------------------------
Fields == {"host"} \cup Optional
Opt(S) == S \cup {None}
Vars == [Fields -> Good \cup {Bad, None}]
Bare == [f \in Fields |-> None]

\* A file that is not there, that is no YAML mapping, that is one without a
\* mapping where the targets ought to be, or one with targets in it.
Content == [form : {"absent", "unparsable", "misshapen", "book"},
            hosts : [Names -> Opt(Vars)]]
Nobody == [n \in Names |-> None]
Absent == [form |-> "absent", hosts |-> Nobody]
Local == [read : Content, data : Content]  \* as read, as it is to be written
NoLocal == [read |-> Absent, data |-> Absent]

Outside == outside' = (outside + 1) % 2

Init ==
  /\ file = Absent
  /\ pc = [c \in Clis |-> "idle"] /\ cli = [c \in Clis |-> NoLocal]
  /\ byhand = {} /\ outside = 0
  /\ edits = MaxEdits /\ cuts = MaxCuts

\* Broken: what cannot be read is taken for empty.
ReadAnything(f) == IF f.form = "book" THEN f.hosts ELSE Nobody

\* _load_raw: nothing registered yet, or the targets.  Any other file ends
\* the command, in an InventoryError or in an exception nobody expects.
Read(f) == IF f.form \in {"absent", "book"} THEN f.hosts ELSE None

\* Broken: a file that is not there is not given the shape of one.
PrepareAsFound(c, hosts) ==
  /\ pc[c] = "idle" /\ Read(file) # None
  /\ pc' = [pc EXCEPT ![c] = "save"]
  /\ cli' = [cli EXCEPT ![c] = [read |-> file,
                                data |-> [file EXCEPT !.hosts = hosts]]]
  /\ UNCHANGED <<file, byhand, outside, edits, cuts>>

\* The file has been read and the change worked out; it is still to be
\* written.
Prepare(c, hosts) ==
  /\ pc[c] = "idle" /\ Read(file) # None
  /\ pc' = [pc EXCEPT ![c] = "save"]
  /\ cli' = [cli EXCEPT ![c] = [read |-> file,
                                data |-> [form |-> "book", hosts |-> hosts]]]
  /\ UNCHANGED <<file, byhand, outside, edits, cuts>>
Registered(n) == Read(file) # None /\ Read(file)[n] # None

-----------------------------------------------------------------------------
(* target add, update, remove                                              *)

\* Broken: only the address is looked at.
CheckedAddress(given) == given["host"] # Bad

\* _checked_host, _checked_port, _checked_text: the same for add and update.
Checked(given) == \A f \in Fields : given[f] # Bad

\* An address is required; a name is registered once.
Add(c, n, given) ==
  /\ given["host"] # None /\ Checked(given)
  /\ ~Registered(n)
  /\ Prepare(c, [Read(file) EXCEPT ![n] = given])

\* Broken: what is not named is not written.
NamedOnly(old, given, unset) == given

\* What is given is written, what is unset taken out, the rest left alone.
Updated(old, given, unset) ==
  [f \in Fields |-> IF given[f] # None THEN given[f]
                    ELSE IF f \in unset THEN None ELSE old[f]]

\* Something has to be given or unset, nothing both; the address stays.
Update(c, n, given, unset) ==
  /\ Registered(n)
  /\ unset \subseteq Optional
  /\ <<given, unset>> # <<Bare, {}>>
  /\ \A f \in unset : given[f] = None
  /\ Checked(given)
  /\ Prepare(c, [Read(file) EXCEPT ![n] = Updated(@, given, unset)])

Remove(c, n) ==
  /\ Registered(n)
  /\ Prepare(c, [Read(file) EXCEPT ![n] = None])

\* What write_text leaves when it is cut off: the targets it got to, perhaps
\* with the name of the next one, or no YAML.  An empty file is a file with
\* no targets in it.
Shortened(d, part, next) ==
  [form |-> "book",
   hosts |-> [n \in Names |-> IF n \in part THEN d.hosts[n]
                              ELSE IF n \in next /\ d.hosts[n] # None
                              THEN Bare ELSE None]]
Cut(d) ==
  {[form |-> "unparsable", hosts |-> Nobody]} \cup
  {Shortened(d, part, next) :
     part \in SUBSET Names, next \in {{}} \cup {{n} : n \in Names}}

\* _save_raw.  A cut write ends the command.
Save(c) ==
  /\ pc[c] = "save"
  /\ \/ /\ file' = cli[c].data
        /\ IF file = cli[c].read THEN UNCHANGED outside ELSE Outside
        /\ UNCHANGED <<byhand, cuts>>
     \/ /\ cuts > 0 /\ cuts' = cuts - 1
        /\ file' \in Cut(cli[c].data)
        /\ Outside
        /\ byhand' = byhand \cup (Names \X {"host"})
  /\ pc' = [pc EXCEPT ![c] = "idle"] /\ cli' = [cli EXCEPT ![c] = NoLocal]
  /\ UNCHANGED edits

Interrupt(c) ==
  /\ pc[c] = "save"
  /\ pc' = [pc EXCEPT ![c] = "idle"] /\ cli' = [cli EXCEPT ![c] = NoLocal]
  /\ UNCHANGED <<file, byhand, outside, edits, cuts>>

-----------------------------------------------------------------------------
(* An editor                                                               *)

Edit(f) ==
  /\ edits > 0 /\ edits' = edits - 1
  /\ file' = f /\ Outside
  /\ UNCHANGED <<pc, cli, cuts>>
Readable == file.form \in {"absent", "book"}

WriteByHand(n, v) ==
  /\ Readable
  /\ Edit([form |-> "book", hosts |-> [file.hosts EXCEPT ![n] = v]])
  /\ byhand' = byhand \cup ({n} \X Fields)
\* A slip; Mend is its repair, for which there is always an edit left.
Spoil(form) ==
  /\ Readable /\ Edit([file EXCEPT !.form = form]) /\ UNCHANGED byhand
Delete == Edit(Absent) /\ UNCHANGED byhand
Mend ==
  /\ ~Readable /\ file' = [file EXCEPT !.form = "book"] /\ Outside
  /\ UNCHANGED <<pc, cli, byhand, edits, cuts>>

-----------------------------------------------------------------------------
Command(c) ==
  \/ \E n \in Names, given \in Vars :
       \/ Add(c, n, given)
       \/ \E unset \in SUBSET Fields : Update(c, n, given, unset)
  \/ \E n \in Names : Remove(c, n)
  \/ Save(c) \/ Interrupt(c)
Next ==
  \/ \E c \in Clis : Command(c)
  \/ \E n \in Names, v \in Vars : WriteByHand(n, v)
  \/ \E form \in {"unparsable", "misshapen"} : Spoil(form)
  \/ Delete \/ Mend
Spec == Init /\ [][Next]_vars

-----------------------------------------------------------------------------
(* Properties                                                              *)

\* Every variable has its type; what is written is a book.
TypeOK ==
  /\ file \in Content
  /\ file.form = "absent" => file.hosts = Nobody
  /\ pc \in [Clis -> {"idle", "save"}] /\ cli \in [Clis -> Local]
  /\ \A c \in Clis : pc[c] = "save" => cli[c].data.form = "book"
  /\ byhand \subseteq Names \X Fields /\ outside \in {0, 1}
  /\ edits \in 0..MaxEdits /\ cuts \in 0..MaxCuts

\* Reading, working and writing come to one change of one target, whatever is
\* interrupted, repeated or edited before: AddressBook's promise.
Entries == IF Readable THEN file.hosts ELSE Nobody
Book == INSTANCE AddressBook
          WITH book <- Entries, Values <- Good \cup {Bad}
BookKept == Book!Spec

\* A file the user broke is his to repair: no command writes over it, but for
\* one that had read it before.
UnreadableUntouched ==
  [][~Readable /\ file' # file /\ pc' # pc =>
       \E c \in Clis :
         pc[c] = "save" /\ cli[c].read.form \in {"absent", "book"}]_vars

\* Wherever a target has no address, or a value no check lets pass, the file
\* was written by hand or cut off there: there is no way in for them through
\* the commands, also not through several of them at once.
CheckedOrByHand ==
  \A n \in Names, f \in Fields :
    /\ file.hosts[n] # None
    /\ file.hosts[n][f] = Bad \/ (f = "host" /\ file.hosts[n][f] = None)
    => <<n, f>> \in byhand
=============================================================================
