--------------------------- MODULE InventoryProofs ---------------------------
(***************************************************************************)
(* Inventory for any number of terminals, targets, values, edits and cut   *)
(* writes: every variable keeps its type, no value gets past the checks, a *)
(* file that cannot be read is left alone, and the commands implement      *)
(* AddressBook.                                                            *)
(***************************************************************************)
EXTENDS Inventory, TLAPS

\* What a command is about to write comes of what it has read by one change.
OneChange(old, new) ==
  \E n \in Names :
    \/ old[n] # None /\ new = [old EXCEPT ![n] = None]
    \/ \E given \in Vars :
         /\ given["host"] # None /\ old[n] = None
         /\ new = [old EXCEPT ![n] = given]
    \/ \E given \in Vars, unset \in SUBSET Optional :
         /\ old[n] # None /\ \A f \in unset : given[f] = None
         /\ new = [old EXCEPT ![n] = Updated(old[n], given, unset)]
\* Inductive with TypeOK: so it was when the command read the file, and
\* nothing changes it before the command writes.
WorkedOut ==
  \A c \in Clis : pc[c] = "save" =>
    /\ cli[c].read.form \in {"absent", "book"}
    /\ OneChange(cli[c].read.hosts, cli[c].data.hosts)

\* No value in hosts is wrong unless it was written by hand or cut off.
Unspoilt(hosts) ==
  \A n \in Names, f \in Fields :
    /\ hosts[n] # None
    /\ hosts[n][f] = Bad \/ (f = "host" /\ hosts[n][f] = None)
    => <<n, f>> \in byhand
\* Inductive with TypeOK: nor in what is still to be written.
AllUnspoilt ==
  /\ Unspoilt(file.hosts)
  /\ \A c \in Clis : pc[c] = "save" => Unspoilt(cli[c].data.hosts)

-----------------------------------------------------------------------------
(* Types                                                                   *)

Hosts == [Names -> Opt(Vars)]

LEMMA HostIsAField == "host" \in Fields /\ "host" \notin Optional
  BY OptionalAssumption DEF Fields

LEMMA NobodyTyped == Nobody \in Hosts /\ Absent \in Content
  BY DEF Nobody, Hosts, Opt, Absent, Content

LEMMA BareTyped == Bare \in Vars
  BY DEF Bare, Vars

LEMMA UpdatedTyped ==
  ASSUME NEW old \in Vars, NEW given \in Vars, NEW unset
  PROVE  Updated(old, given, unset) \in Vars
  BY DEF Updated, Vars

\* A cut write leaves a file of some kind.
LEMMA CutLeaves ==
  ASSUME NEW d, NEW left \in Cut(d)
  PROVE  \/ left = [form |-> "unparsable", hosts |-> Nobody]
         \/ \E part \in SUBSET Names, next \in SUBSET Names :
              left = Shortened(d, part, next)
  BY DEF Cut

LEMMA CutTyped ==
  ASSUME NEW d \in Content, NEW left \in Cut(d)
  PROVE  left \in Content /\ left.form # "absent"
<1>1. CASE left = [form |-> "unparsable", hosts |-> Nobody]
  BY <1>1, NobodyTyped DEF Content, Hosts
<1>2. ASSUME NEW part \in SUBSET Names, NEW next \in SUBSET Names,
             left = Shortened(d, part, next)
      PROVE  left \in Content /\ left.form # "absent"
  BY <1>2, BareTyped DEF Shortened, Content, Opt
<1> QED BY <1>1, <1>2, CutLeaves

\* Whoever reads the file reads targets, or stops.
LEMMA ReadableRead ==
  ASSUME TypeOK, Read(file) # None
  PROVE  /\ file.form \in {"absent", "book"}
         /\ Read(file) = file.hosts /\ file.hosts \in Hosts
  BY DEF TypeOK, Read, Content, Hosts

LEMMA PrepareTyped ==
  ASSUME TypeOK, NEW c \in Clis, NEW hosts \in Hosts, Prepare(c, hosts)
  PROVE  TypeOK'
<1>1. cli'[c].data.form = "book" /\ cli' \in [Clis -> Local]
  BY DEF Prepare, TypeOK, Local, Content, Hosts
<1>2. \A b \in Clis : pc'[b] = "save" => cli'[b].data.form = "book"
  BY <1>1 DEF Prepare, TypeOK
<1>3. pc' \in [Clis -> {"idle", "save"}]
  BY DEF Prepare, TypeOK
<1> QED BY <1>1, <1>2, <1>3 DEF Prepare, TypeOK

LEMMA IdleTyped ==
  ASSUME TypeOK, NEW c \in Clis,
         pc' = [pc EXCEPT ![c] = "idle"], cli' = [cli EXCEPT ![c] = NoLocal]
  PROVE  /\ pc' \in [Clis -> {"idle", "save"}] /\ cli' \in [Clis -> Local]
         /\ \A b \in Clis : pc'[b] = "save" => cli'[b].data.form = "book"
<1>1. NoLocal \in Local
  BY NobodyTyped DEF NoLocal, Local
<1> QED BY <1>1 DEF TypeOK

LEMMA OutsideTyped ==
  ASSUME outside \in {0, 1}, Outside
  PROVE  outside' \in {0, 1}
  BY DEF Outside

\* Each change yields targets of the right form.
LEMMA CommandTyped ==
  ASSUME TypeOK, NEW c \in Clis, Command(c)
  PROVE  TypeOK'
<1>1. ASSUME NEW n \in Names, NEW given \in Vars, Add(c, n, given)
      PROVE  TypeOK'
  <2>1. [Read(file) EXCEPT ![n] = given] \in Hosts
    BY <1>1, ReadableRead DEF Add, Prepare, Hosts, Opt
  <2> QED BY <1>1, <2>1, PrepareTyped DEF Add
<1>2. ASSUME NEW n \in Names, NEW given \in Vars, NEW unset \in SUBSET Fields,
             Update(c, n, given, unset)
      PROVE  TypeOK'
  <2>1. Read(file) \in Hosts /\ Read(file)[n] \in Vars
    BY <1>2, ReadableRead DEF Update, Registered, Hosts, Opt
  <2>2. [Read(file) EXCEPT ![n] = Updated(@, given, unset)] \in Hosts
    BY <2>1, UpdatedTyped DEF Hosts, Opt
  <2> QED BY <1>2, <2>2, PrepareTyped DEF Update
<1>3. ASSUME NEW n \in Names, Remove(c, n)
      PROVE  TypeOK'
  <2>1. [Read(file) EXCEPT ![n] = None] \in Hosts
    BY <1>3, ReadableRead DEF Remove, Prepare, Hosts, Opt
  <2> QED BY <1>3, <2>1, PrepareTyped DEF Remove
<1>4. CASE Save(c)
  <2>1. file' \in Content /\ file'.form # "absent"
    <3>1. cli[c].data \in Content /\ cli[c].data.form = "book"
      BY <1>4 DEF Save, TypeOK, Local
    <3> QED BY <1>4, <3>1, CutTyped DEF Save
  <2>2. outside' \in {0, 1}
    BY <1>4, OutsideTyped DEF Save, TypeOK
  <2>3. cuts' \in 0..MaxCuts
    BY <1>4, MaxCutsAssumption DEF Save, TypeOK
  <2>4. byhand' \subseteq Names \X Fields
    BY <1>4, HostIsAField DEF Save, TypeOK
  <2>5. edits' \in 0..MaxEdits
    BY <1>4 DEF Save, TypeOK
  <2>6. /\ pc' \in [Clis -> {"idle", "save"}] /\ cli' \in [Clis -> Local]
        /\ \A b \in Clis : pc'[b] = "save" => cli'[b].data.form = "book"
    BY <1>4, IdleTyped DEF Save
  <2> QED BY <2>1, <2>2, <2>3, <2>4, <2>5, <2>6 DEF TypeOK
<1>5. CASE Interrupt(c)
  BY <1>5, IdleTyped DEF Interrupt, TypeOK
<1> QED BY <1>1, <1>2, <1>3, <1>4, <1>5 DEF Command

LEMMA EditTyped ==
  ASSUME TypeOK, NEW f \in Content, f.form = "absent" => f.hosts = Nobody,
         Edit(f), byhand' \subseteq Names \X Fields
  PROVE  TypeOK'
<1>1. outside' \in {0, 1}
  BY OutsideTyped DEF Edit, TypeOK
<1>2. edits' \in 0..MaxEdits
  BY MaxEditsAssumption DEF Edit, TypeOK
<1> QED BY <1>1, <1>2 DEF Edit, TypeOK

LEMMA EditorTyped ==
  ASSUME TypeOK,
         \/ \E n \in Names, v \in Vars : WriteByHand(n, v)
         \/ \E form \in {"unparsable", "misshapen"} : Spoil(form)
         \/ Delete \/ Mend
  PROVE  TypeOK'
<1>1. ASSUME NEW n \in Names, NEW v \in Vars, WriteByHand(n, v)
      PROVE  TypeOK'
  <2> DEFINE f == [form |-> "book", hosts |-> [file.hosts EXCEPT ![n] = v]]
  <2>1. f \in Content /\ f.form # "absent"
    BY DEF TypeOK, Content, Opt
  <2>2. byhand' \subseteq Names \X Fields
    BY <1>1 DEF WriteByHand, TypeOK
  <2> QED BY <1>1, <2>1, <2>2, EditTyped DEF WriteByHand
<1>2. ASSUME NEW form \in {"unparsable", "misshapen"}, Spoil(form)
      PROVE  TypeOK'
  <2>1. /\ [file EXCEPT !.form = form] \in Content
        /\ [file EXCEPT !.form = form].form # "absent"
    BY DEF TypeOK, Content
  <2>2. byhand' \subseteq Names \X Fields
    BY <1>2 DEF Spoil, TypeOK
  <2> QED BY <1>2, <2>1, <2>2, EditTyped DEF Spoil
<1>3. CASE Delete
  <2>1. byhand' \subseteq Names \X Fields /\ Absent.hosts = Nobody
    BY <1>3 DEF Delete, TypeOK, Absent
  <2> QED BY <1>3, <2>1, NobodyTyped, EditTyped DEF Delete
<1>4. CASE Mend
  <2>1. outside' \in {0, 1}
    BY <1>4, OutsideTyped DEF Mend, TypeOK
  <2> QED BY <1>4, <2>1 DEF Mend, TypeOK, Content
<1> QED BY <1>1, <1>2, <1>3, <1>4

LEMMA StepTyped ==
  ASSUME TypeOK, [Next]_vars
  PROVE  TypeOK'
<1>1. CASE UNCHANGED vars
  BY <1>1 DEF vars, TypeOK
<1>2. CASE Next
  BY <1>2, CommandTyped, EditorTyped DEF Next
<1> QED BY <1>1, <1>2

LEMMA InitTyped ==
  ASSUME Init
  PROVE  TypeOK
<1>1. NoLocal \in Local
  BY NobodyTyped DEF NoLocal, Local
<1> QED BY <1>1, NobodyTyped, MaxEditsAssumption, MaxCutsAssumption
        DEF Init, TypeOK, Absent

\* The file, what every terminal has read of it and what it is to write are
\* files of the modelled kinds at every moment; what is written is a book.
THEOREM InventoryTyped == Spec => []TypeOK
<1>1. Init => TypeOK
  BY InitTyped
<1>2. TypeOK /\ [Next]_vars => TypeOK'
  BY StepTyped
<1> QED BY <1>1, <1>2, PTL DEF Spec

-----------------------------------------------------------------------------
(* One change of what was read                                             *)

LEMMA PrepareWorksOut ==
  ASSUME TypeOK, WorkedOut, NEW c \in Clis, NEW hosts,
         Prepare(c, hosts), OneChange(Read(file), hosts)
  PROVE  WorkedOut'
<1>1. /\ cli'[c].read.form \in {"absent", "book"}
      /\ cli'[c].read.hosts = Read(file) /\ cli'[c].data.hosts = hosts
  BY ReadableRead DEF Prepare, TypeOK
<1>2. \A b \in Clis : b # c => pc'[b] = pc[b] /\ cli'[b] = cli[b]
  BY DEF Prepare, TypeOK
<1>3. OneChange(Read(file), hosts)
  OBVIOUS
<1>4. ASSUME NEW b \in Clis, pc'[b] = "save"
      PROVE  /\ cli'[b].read.form \in {"absent", "book"}
             /\ OneChange(cli'[b].read.hosts, cli'[b].data.hosts)
  <2>1. CASE b = c
    BY <1>1, <1>3, <2>1
  <2>2. CASE b # c
    BY <1>2, <1>4, <2>2 DEF WorkedOut
  <2> QED BY <2>1, <2>2
<1> QED BY <1>4 DEF WorkedOut

\* A terminal that has nothing to write has nothing worked out.
LEMMA IdleWorksOut ==
  ASSUME TypeOK, WorkedOut, NEW c \in Clis,
         pc' = [pc EXCEPT ![c] = "idle"], cli' = [cli EXCEPT ![c] = NoLocal]
  PROVE  WorkedOut'
<1>1. \A b \in Clis : pc'[b] = "save" =>
        pc[b] = "save" /\ cli'[b] = cli[b]
  BY DEF TypeOK
<1> QED BY <1>1 DEF WorkedOut

LEMMA StepWorksOut ==
  ASSUME TypeOK, WorkedOut, [Next]_vars
  PROVE  WorkedOut'
<1>1. ASSUME NEW c \in Clis, NEW n \in Names, NEW given \in Vars,
             Add(c, n, given)
      PROVE  WorkedOut'
  <2>1. Read(file) # None /\ Read(file)[n] = None
    BY <1>1 DEF Add, Prepare, Registered
  <2>2. OneChange(Read(file), [Read(file) EXCEPT ![n] = given])
    BY <1>1, <2>1 DEF Add, OneChange
  <2> QED BY <1>1, <2>2, PrepareWorksOut DEF Add
<1>2. ASSUME NEW c \in Clis, NEW n \in Names, NEW given \in Vars,
             NEW unset \in SUBSET Fields, Update(c, n, given, unset)
      PROVE  WorkedOut'
  <2>1. /\ Read(file)[n] # None /\ unset \in SUBSET Optional
        /\ \A f \in unset : given[f] = None
    BY <1>2 DEF Update, Registered
  <2>2. [Read(file) EXCEPT ![n] = Updated(@, given, unset)]
          = [Read(file) EXCEPT ![n] = Updated(Read(file)[n], given, unset)]
    BY <1>2, ReadableRead DEF Update, Prepare, Hosts
  <2>3. OneChange(Read(file),
                  [Read(file) EXCEPT ![n] = Updated(@, given, unset)])
    BY <2>1, <2>2 DEF OneChange
  <2> QED BY <1>2, <2>3, PrepareWorksOut DEF Update
<1>3. ASSUME NEW c \in Clis, NEW n \in Names, Remove(c, n)
      PROVE  WorkedOut'
  <2>1. OneChange(Read(file), [Read(file) EXCEPT ![n] = None])
    BY <1>3 DEF Remove, Registered, OneChange
  <2> QED BY <1>3, <2>1, PrepareWorksOut DEF Remove
<1>4. ASSUME NEW c \in Clis, Save(c) \/ Interrupt(c)
      PROVE  WorkedOut'
  BY <1>4, IdleWorksOut DEF Save, Interrupt
<1>5. ASSUME UNCHANGED <<pc, cli>>
      PROVE  WorkedOut'
  BY <1>5 DEF WorkedOut
<1>6. CASE \/ \E n \in Names, v \in Vars : WriteByHand(n, v)
           \/ \E form \in {"unparsable", "misshapen"} : Spoil(form)
           \/ Delete \/ Mend
  BY <1>5, <1>6 DEF WriteByHand, Spoil, Delete, Mend, Edit
<1>7. CASE UNCHANGED vars
  BY <1>5, <1>7 DEF vars
<1>8. ASSUME NEW c \in Clis, Command(c)
      PROVE  WorkedOut'
  BY <1>1, <1>2, <1>3, <1>4, <1>8 DEF Command
<1> QED BY <1>6, <1>7, <1>8 DEF Next

LEMMA AlwaysWorkedOut == Spec => [](TypeOK /\ WorkedOut)
<1>1. Init => TypeOK /\ WorkedOut
  BY InitTyped DEF Init, WorkedOut
<1>2. TypeOK /\ WorkedOut /\ [Next]_vars => TypeOK' /\ WorkedOut'
  BY StepTyped, StepWorksOut
<1> QED BY <1>1, <1>2, PTL DEF Spec

\* A file that cannot be read is written over by no command but one that read
\* it while it could be read, however many commands and edits went before.
THEOREM BrokenFileIsLeft == Spec => UnreadableUntouched
<1> DEFINE Left == ~Readable /\ file' # file /\ pc' # pc =>
                     \E c \in Clis :
                       pc[c] = "save"
                         /\ cli[c].read.form \in {"absent", "book"}
<1>1. TypeOK /\ WorkedOut /\ [Next]_vars => Left
  <2> SUFFICES ASSUME TypeOK, WorkedOut, [Next]_vars,
                      ~Readable, file' # file, pc' # pc
               PROVE  \E c \in Clis :
                        pc[c] = "save"
                          /\ cli[c].read.form \in {"absent", "book"}
    OBVIOUS
  <2>1. \E c \in Clis : Save(c)
    BY DEF Next, Command, vars, Add, Update, Remove, Prepare, Interrupt,
           WriteByHand, Spoil, Delete, Mend, Edit
  <2> QED BY <2>1 DEF Save, WorkedOut
<1>2. TypeOK /\ WorkedOut /\ [Next]_vars => [Left]_vars
  BY <1>1
<1> QED BY <1>2, AlwaysWorkedOut, PTL DEF Spec, UnreadableUntouched

-----------------------------------------------------------------------------
(* The inventory keeps AddressBook's promise                               *)

LEMMA EntriesAreHosts ==
  ASSUME TypeOK
  PROVE  Entries \in Hosts
  BY NobodyTyped DEF TypeOK, Content, Hosts, Entries

\* One change of the file is one command of the book.
LEMMA ChangeIsCommand ==
  ASSUME TypeOK, OneChange(Entries, Entries'), UNCHANGED outside,
         Entries' # Entries
  PROVE  Book!Next
<1>1. Entries \in Hosts
  BY EntriesAreHosts
<1>2. Vars = Book!Given
  BY DEF Vars, Book!Given
<1>3. PICK n \in Names :
        \/ Entries[n] # None /\ Entries' = [Entries EXCEPT ![n] = None]
        \/ \E given \in Vars :
             /\ given["host"] # None /\ Entries[n] = None
             /\ Entries' = [Entries EXCEPT ![n] = given]
        \/ \E given \in Vars, unset \in SUBSET Optional :
             /\ Entries[n] # None /\ \A f \in unset : given[f] = None
             /\ Entries' = [Entries EXCEPT
                              ![n] = Updated(Entries[n], given, unset)]
  BY DEF OneChange
<1> SUFFICES Entries'[n] # Entries[n] /\ Book!Command(n)
  BY DEF Book!Next
<1>4. ASSUME NEW v, Entries' = [Entries EXCEPT ![n] = v]
      PROVE  Entries'[n] # Entries[n]
  BY <1>1, <1>4 DEF Hosts
<1>5. CASE Entries[n] # None /\ Entries' = [Entries EXCEPT ![n] = None]
  BY <1>4, <1>5 DEF Book!Command, Book!Remove
<1>6. ASSUME NEW given \in Vars, given["host"] # None, Entries[n] = None,
             Entries' = [Entries EXCEPT ![n] = given]
      PROVE  Entries'[n] # Entries[n] /\ Book!Command(n)
  BY <1>2, <1>4, <1>6 DEF Book!Command, Book!Add
<1>7. ASSUME NEW given \in Vars, NEW unset \in SUBSET Optional,
             Entries[n] # None, \A f \in unset : given[f] = None,
             Entries' = [Entries EXCEPT
                           ![n] = Updated(Entries[n], given, unset)]
      PROVE  Entries'[n] # Entries[n] /\ Book!Command(n)
  <2>1. Updated(Entries[n], given, unset)
          = Book!Changed(Entries[n], given, unset)
    BY <1>7 DEF Updated, Book!Changed
  <2>2. unset \in SUBSET (Fields \ {"host"})
    BY HostIsAField DEF Fields
  <2>3. [Entries EXCEPT ![n] = Book!Changed(@, given, unset)]
          = [Entries EXCEPT ![n] = Book!Changed(Entries[n], given, unset)]
    BY <1>1 DEF Hosts
  <2>4. Book!Update(n, given, unset)
    BY <1>7, <2>1, <2>3 DEF Book!Update
  <2>5. Book!Command(n)
    BY <1>2, <2>2, <2>4 DEF Book!Command
  <2> QED BY <1>4, <1>7, <2>5
<1> QED BY <1>3, <1>5, <1>6, <1>7

\* A command writes what it read with one change, or the step counts as
\* somebody else's.
LEMMA SaveKeepsBook ==
  ASSUME TypeOK, WorkedOut, TypeOK', NEW c \in Clis, Save(c)
  PROVE  Book!Next \/ UNCHANGED <<Entries, outside>>
<1>1. CASE Outside
  BY <1>1 DEF Book!Next, Book!Others, Outside
<1>2. CASE file' = cli[c].data /\ file = cli[c].read /\ UNCHANGED outside
  <2>1. /\ file.form \in {"absent", "book"}
        /\ OneChange(file.hosts, cli[c].data.hosts)
        /\ cli[c].data.form = "book"
    BY <1>2 DEF WorkedOut, TypeOK, Save
  <2>2. Entries = file.hosts /\ Entries' = cli[c].data.hosts
    BY <1>2, <2>1 DEF Entries, Readable
  <2>3. OneChange(Entries, Entries')
    BY <2>1, <2>2
  <2> QED BY <1>2, <2>3, ChangeIsCommand
<1> QED BY <1>1, <1>2 DEF Save

LEMMA StepKeepsBook ==
  ASSUME TypeOK, WorkedOut, TypeOK', [Next]_vars
  PROVE  [Book!Next]_<<Entries, outside>>
<1>1. ASSUME UNCHANGED <<file, outside>>
      PROVE  UNCHANGED <<Entries, outside>>
  BY <1>1 DEF Entries, Readable
<1>2. ASSUME NEW c \in Clis, Command(c)
      PROVE  [Book!Next]_<<Entries, outside>>
  <2>1. CASE Save(c)
    BY <2>1, SaveKeepsBook
  <2>2. CASE ~Save(c)
    BY <1>1, <1>2, <2>2 DEF Command, Add, Update, Remove, Prepare, Interrupt
  <2> QED BY <2>1, <2>2
<1>3. CASE \/ \E n \in Names, v \in Vars : WriteByHand(n, v)
           \/ \E form \in {"unparsable", "misshapen"} : Spoil(form)
           \/ Delete \/ Mend
  <2>1. Outside
    BY <1>3 DEF WriteByHand, Spoil, Delete, Mend, Edit
  <2> QED BY <2>1 DEF Book!Next, Book!Others, Outside
<1>4. CASE UNCHANGED vars
  BY <1>1, <1>4 DEF vars
<1> QED BY <1>2, <1>3, <1>4 DEF Next

\* The three commands, each a read, a working and a write that may be
\* interrupted, cut off or crossed by another terminal, implement an address
\* book in which a command changes one target at one moment.
THEOREM InventoryIsAnAddressBook == Spec => BookKept
<1>1. Init => Book!Init
  BY DEF Init, Absent, Nobody, Entries, Readable, Book!Init
<1>2. TypeOK /\ WorkedOut /\ TypeOK' /\ [Next]_vars
        => [Book!Next]_<<Entries, outside>>
  BY StepKeepsBook
<1> QED BY <1>1, <1>2, AlwaysWorkedOut, PTL DEF Spec, BookKept, Book!Spec

-----------------------------------------------------------------------------
(* No value gets past the checks                                           *)

LEMMA CheckedIsGood ==
  ASSUME NEW given \in Vars, Checked(given), NEW f \in Fields
  PROVE  given[f] # Bad
  BY DEF Checked

LEMMA NobodyUnspoilt == Unspoilt(Nobody)
  BY DEF Unspoilt, Nobody

\* What a command works out of unspoilt targets is unspoilt.
LEMMA PrepareUnspoilt ==
  ASSUME TypeOK, AllUnspoilt, NEW c \in Clis, NEW hosts,
         Prepare(c, hosts), Unspoilt(hosts)
  PROVE  AllUnspoilt'
<1>1. Unspoilt(file.hosts)'
  BY DEF Prepare, AllUnspoilt, Unspoilt
<1>2. ASSUME NEW b \in Clis, pc'[b] = "save"
      PROVE  Unspoilt(cli[b].data.hosts)'
  <2>1. CASE b = c
    <3>1. cli'[b].data.hosts = hosts
      BY <2>1 DEF Prepare, TypeOK
    <3> QED BY <3>1 DEF Prepare, Unspoilt
  <2>2. CASE b # c
    <3>1. pc[b] = "save" /\ cli'[b] = cli[b]
      BY <1>2, <2>2 DEF Prepare, TypeOK
    <3>2. Unspoilt(cli[b].data.hosts)
      BY <3>1 DEF AllUnspoilt
    <3> QED BY <3>1, <3>2 DEF Prepare, Unspoilt
  <2> QED BY <2>1, <2>2
<1> QED BY <1>1, <1>2 DEF AllUnspoilt

\* Of unspoilt targets a cut write leaves some, and others without address:
\* every address counts as written by hand from then on.
LEMMA CutUnspoilt ==
  ASSUME NEW d \in Content, Unspoilt(d.hosts), NEW left \in Cut(d),
         byhand' = byhand \cup (Names \X {"host"})
  PROVE  Unspoilt(left.hosts)'
<1> SUFFICES ASSUME NEW n \in Names, NEW f \in Fields, left.hosts[n] # None,
                    \/ left.hosts[n][f] = Bad
                    \/ f = "host" /\ left.hosts[n][f] = None
             PROVE  <<n, f>> \in byhand'
  BY DEF Unspoilt
<1>1. CASE left = [form |-> "unparsable", hosts |-> Nobody]
  BY <1>1 DEF Nobody
<1>2. ASSUME NEW part \in SUBSET Names, NEW next \in SUBSET Names,
             left = Shortened(d, part, next)
      PROVE  <<n, f>> \in byhand'
  <2>1. CASE left.hosts[n] = d.hosts[n]
    BY <2>1 DEF Unspoilt
  <2>2. CASE left.hosts[n] = Bare
    BY <2>2, ValuesAssumption DEF Bare
  <2> QED BY <1>2, <2>1, <2>2 DEF Shortened
<1> QED BY <1>1, <1>2, CutLeaves

LEMMA SaveUnspoilt ==
  ASSUME TypeOK, AllUnspoilt, NEW c \in Clis, Save(c)
  PROVE  AllUnspoilt'
<1>1. Unspoilt(cli[c].data.hosts) /\ cli[c].data \in Content
  BY DEF Save, AllUnspoilt, TypeOK, Local
<1>2. byhand \subseteq byhand'
  BY DEF Save
<1>3. Unspoilt(file.hosts)'
  <2>1. CASE file' = cli[c].data /\ UNCHANGED byhand
    BY <1>1, <2>1 DEF Unspoilt
  <2>2. CASE /\ file' \in Cut(cli[c].data)
             /\ byhand' = byhand \cup (Names \X {"host"})
    <3>1. PICK left \in Cut(cli[c].data) : left = file'
      BY <2>2
    <3>2. Unspoilt(left.hosts)'
      BY <1>1, <2>2, CutUnspoilt
    <3> QED BY <3>1, <3>2 DEF Unspoilt
  <2> QED BY <2>1, <2>2 DEF Save
<1>4. ASSUME NEW b \in Clis, pc'[b] = "save"
      PROVE  Unspoilt(cli[b].data.hosts)'
  <2>1. pc[b] = "save" /\ cli'[b] = cli[b]
    BY <1>4 DEF Save, TypeOK
  <2>2. Unspoilt(cli[b].data.hosts)
    BY <2>1 DEF AllUnspoilt
  <2> QED BY <1>2, <2>1, <2>2 DEF Unspoilt
<1> QED BY <1>3, <1>4 DEF AllUnspoilt

\* Who works with an editor vouches for the fields of the target he writes.
LEMMA EditUnspoilt ==
  ASSUME TypeOK, AllUnspoilt, UNCHANGED <<pc, cli>>,
         byhand \subseteq byhand', Unspoilt(file.hosts)'
  PROVE  AllUnspoilt'
<1>1. ASSUME NEW b \in Clis, pc'[b] = "save"
      PROVE  Unspoilt(cli[b].data.hosts)'
  <2>1. Unspoilt(cli[b].data.hosts) /\ cli'[b] = cli[b]
    BY <1>1 DEF AllUnspoilt
  <2> QED BY <2>1 DEF Unspoilt
<1> QED BY <1>1 DEF AllUnspoilt

LEMMA CommandUnspoilt ==
  ASSUME TypeOK, AllUnspoilt, NEW c \in Clis, Command(c)
  PROVE  AllUnspoilt'
<1>1. ASSUME NEW n \in Names, NEW given \in Vars, Add(c, n, given)
      PROVE  AllUnspoilt'
  <2> DEFINE new == [Read(file) EXCEPT ![n] = given]
  <2>1. Read(file) = file.hosts /\ file.hosts \in Hosts
    BY <1>1, ReadableRead DEF Add, Prepare
  <2>2. Unspoilt(new)
    BY <1>1, <2>1 DEF Add, Checked, AllUnspoilt, Unspoilt, Hosts
  <2> QED BY <1>1, <2>2, PrepareUnspoilt DEF Add
<1>2. ASSUME NEW n \in Names, NEW given \in Vars, NEW unset \in SUBSET Fields,
             Update(c, n, given, unset)
      PROVE  AllUnspoilt'
  <2> DEFINE new == [Read(file) EXCEPT ![n] = Updated(@, given, unset)]
  <2>1. /\ Read(file) = file.hosts /\ file.hosts \in Hosts
        /\ file.hosts[n] # None
    BY <1>2, ReadableRead DEF Update, Prepare, Registered
  <2>2. new[n] = Updated(file.hosts[n], given, unset)
    BY <2>1 DEF Hosts
  <2>3. ASSUME NEW f \in Fields,
               \/ new[n][f] = Bad \/ (f = "host" /\ new[n][f] = None)
        PROVE  <<n, f>> \in byhand
    <3>1. given[f] # Bad /\ (f \in unset => f # "host")
      BY <1>2, CheckedIsGood, HostIsAField DEF Update
    <3>2. new[n][f] = file.hosts[n][f]
      BY <2>2, <2>3, <3>1, ValuesAssumption DEF Updated
    <3> QED BY <2>1, <2>3, <3>2 DEF AllUnspoilt, Unspoilt
  <2>4. \A m \in Names : m # n => new[m] = file.hosts[m]
    BY <2>1 DEF Hosts
  <2>5. Unspoilt(new)
    BY <2>3, <2>4 DEF AllUnspoilt, Unspoilt
  <2> QED BY <1>2, <2>5, PrepareUnspoilt DEF Update
<1>3. ASSUME NEW n \in Names, Remove(c, n)
      PROVE  AllUnspoilt'
  <2>1. Read(file) = file.hosts /\ file.hosts \in Hosts
    BY <1>3, ReadableRead DEF Remove, Prepare
  <2>2. Unspoilt([Read(file) EXCEPT ![n] = None])
    BY <2>1 DEF AllUnspoilt, Unspoilt, Hosts
  <2> QED BY <1>3, <2>2, PrepareUnspoilt DEF Remove
<1>4. CASE Save(c)
  BY <1>4, SaveUnspoilt
<1>5. CASE Interrupt(c)
  BY <1>5 DEF Interrupt, AllUnspoilt, Unspoilt, TypeOK
<1> QED BY <1>1, <1>2, <1>3, <1>4, <1>5 DEF Command

LEMMA EditorUnspoilt ==
  ASSUME TypeOK, AllUnspoilt,
         \/ \E n \in Names, v \in Vars : WriteByHand(n, v)
         \/ \E form \in {"unparsable", "misshapen"} : Spoil(form)
         \/ Delete \/ Mend
  PROVE  AllUnspoilt'
<1>1. ASSUME NEW n \in Names, NEW v \in Vars, WriteByHand(n, v)
      PROVE  AllUnspoilt'
  <2>1. \A m \in Names : m # n => file'.hosts[m] = file.hosts[m]
    BY <1>1 DEF WriteByHand, Edit, TypeOK, Content
  <2>2. byhand \subseteq byhand' /\ \A f \in Fields : <<n, f>> \in byhand'
    BY <1>1 DEF WriteByHand
  <2>3. Unspoilt(file.hosts)'
    BY <2>1, <2>2 DEF AllUnspoilt, Unspoilt
  <2> QED BY <1>1, <2>2, <2>3, EditUnspoilt DEF WriteByHand, Edit
<1>2. ASSUME NEW form \in {"unparsable", "misshapen"}, Spoil(form)
      PROVE  AllUnspoilt'
  <2>1. file'.hosts = file.hosts /\ UNCHANGED <<pc, cli, byhand>>
    BY <1>2 DEF Spoil, Edit, TypeOK, Content
  <2> QED BY <2>1, EditUnspoilt DEF AllUnspoilt, Unspoilt
<1>3. CASE Delete
  BY <1>3, EditUnspoilt DEF Delete, Edit, Absent, Nobody, Unspoilt
<1>4. CASE Mend
  <2>1. file'.hosts = file.hosts /\ UNCHANGED <<pc, cli, byhand>>
    BY <1>4 DEF Mend, TypeOK, Content
  <2> QED BY <2>1, EditUnspoilt DEF AllUnspoilt, Unspoilt
<1> QED BY <1>1, <1>2, <1>3, <1>4

LEMMA StepUnspoilt ==
  ASSUME TypeOK, AllUnspoilt, [Next]_vars
  PROVE  AllUnspoilt'
<1>1. CASE UNCHANGED vars
  BY <1>1 DEF vars, AllUnspoilt, Unspoilt
<1> QED BY <1>1, CommandUnspoilt, EditorUnspoilt DEF Next

\* A value the checks refuse, or a target without address, stands only where
\* the file was once written by hand or cut off: not even several commands at
\* once let one in.
THEOREM NothingSlipsIn == Spec => []CheckedOrByHand
<1>1. Init => AllUnspoilt
  BY NobodyUnspoilt DEF Init, AllUnspoilt, Absent
<1>2. TypeOK /\ AllUnspoilt /\ [Next]_vars => AllUnspoilt'
  BY StepUnspoilt
<1>3. AllUnspoilt => CheckedOrByHand
  BY DEF AllUnspoilt, Unspoilt, CheckedOrByHand
<1> QED BY <1>1, <1>2, <1>3, InventoryTyped, PTL DEF Spec
=============================================================================
