--------------------------- MODULE AuthorityProofs ---------------------------
(***************************************************************************)
(* Theorems about Authority, for any number of attempts, revisions,        *)
(* damaged files and failures: every property AuthoritySafety checks.      *)
(*                                                                         *)
(* A document is two files, and a process is started after both copies of  *)
(* its ledger name it.  What recovery reads afterwards is right because    *)
(* nobody writes anything else to a ledger while its process lives, and    *)
(* because damage leaves a file that can be told from one that was never   *)
(* written (EvidenceInv, below).  All but the types rests on that no       *)
(* command is overtaken while it creates a document: that code holds no    *)
(* lock, and AuthorityStaleBackup shows what happens without.              *)
(*                                                                         *)
(* A repair is judged by what its queue amounts to: MendInv says that      *)
(* every copy holds a document with which the authority is valid and       *)
(* resolved, or that the queue still has that document for it.             *)
(***************************************************************************)
EXTENDS Authority, SequenceTheorems, TLAPS

-----------------------------------------------------------------------------
(* The replacements in a queue                                             *)

(* What is in a queue, in whatever order.                                  *)
Puts(queue) == {queue[i] : i \in 1..Len(queue)}

(* The elements of a queue are in the set it is a sequence over.           *)
LEMMA PutsAre ==
  ASSUME NEW S, NEW s \in Seq(S), NEW p \in Puts(s) PROVE p \in S
BY DEF Puts

(* The head of a queue and what is behind it are all there is in it.       *)
LEMMA PutsOfHead ==
  ASSUME NEW S, NEW s \in Seq(S), s # <<>>
  PROVE  /\ Head(s) \in Puts(s) /\ Head(s) \in S
         /\ Tail(s) \in Seq(S) /\ Puts(s) = {Head(s)} \union Puts(Tail(s))
         /\ (Tail(s) = <<>>) <=> (Len(s) = 1)
<1>1. /\ Len(s) \in Nat \ {0} /\ Head(s) = s[1] /\ s[1] \in S /\ Tail(s) \in Seq(S)
      /\ Len(Tail(s)) = Len(s) - 1 /\ \A i \in 1..Len(Tail(s)) : Tail(s)[i] = s[i + 1]
  OBVIOUS
<1>2. Head(s) \in Puts(s)
  BY <1>1 DEF Puts
<1>3. \A i \in 1..Len(s) : s[i] = Head(s) \/ s[i] \in Puts(Tail(s))
  <2>. SUFFICES ASSUME NEW i \in 1..Len(s), i # 1 PROVE s[i] \in Puts(Tail(s))
    BY <1>1
  <2>1. i - 1 \in 1..Len(Tail(s)) /\ Tail(s)[i - 1] = s[i]
    BY <1>1
  <2> QED BY <2>1 DEF Puts
<1>4. \A i \in 1..Len(Tail(s)) : Tail(s)[i] \in Puts(s)
  <2>1. \A i \in 1..Len(Tail(s)) : i + 1 \in 1..Len(s)
    BY <1>1
  <2> QED BY <1>1, <2>1 DEF Puts
<1>5. Puts(s) = {Head(s)} \union Puts(Tail(s))
  BY <1>2, <1>3, <1>4 DEF Puts
<1>6. (Tail(s) = <<>>) <=> (Len(s) = 1)
  <2>1. Len(<<>>) = 0 /\ (Tail(s) # <<>> => Len(Tail(s)) # 0)
    BY <1>1, EmptySeq
  <2>2. ASSUME Tail(s) = <<>> PROVE Len(s) = 1
    BY <1>1, <2>1, <2>2
  <2>3. ASSUME Len(s) = 1 PROVE Tail(s) = <<>>
    BY <1>1, <2>1, <2>3
  <2> QED BY <2>2, <2>3
<1> QED BY <1>1, <1>2, <1>5, <1>6

(* Two queues, one behind the other.                                       *)
LEMMA PutsOfBoth ==
  ASSUME NEW S, NEW s \in Seq(S), NEW t \in Seq(S)
  PROVE  s \o t \in Seq(S) /\ Puts(s \o t) = Puts(s) \union Puts(t)
<1>1. /\ s \o t \in Seq(S) /\ Len(s) \in Nat /\ Len(t) \in Nat
      /\ Len(s \o t) = Len(s) + Len(t)
      /\ \A i \in 1..Len(s \o t) : (s \o t)[i] = IF i <= Len(s) THEN s[i] ELSE t[i - Len(s)]
  BY ConcatProperties
<1>2. ASSUME NEW i \in 1..Len(s \o t) PROVE (s \o t)[i] \in Puts(s) \union Puts(t)
  <2>1. CASE i <= Len(s)
    <3>1. i \in 1..Len(s) /\ (s \o t)[i] = s[i]
      BY <1>1, <2>1
    <3> QED BY <3>1 DEF Puts
  <2>2. CASE ~(i <= Len(s))
    <3>1. i - Len(s) \in 1..Len(t) /\ (s \o t)[i] = t[i - Len(s)]
      BY <1>1, <2>2
    <3> QED BY <3>1 DEF Puts
  <2> QED BY <2>1, <2>2
<1>3. ASSUME NEW i \in 1..Len(s) PROVE s[i] \in Puts(s \o t)
  <2>1. i \in 1..Len(s \o t) /\ (s \o t)[i] = s[i]
    BY <1>1
  <2> QED BY <2>1 DEF Puts
<1>4. ASSUME NEW i \in 1..Len(t) PROVE t[i] \in Puts(s \o t)
  <2>1. i + Len(s) \in 1..Len(s \o t) /\ ~(i + Len(s) <= Len(s)) /\ (i + Len(s)) - Len(s) = i
    BY <1>1
  <2>2. (s \o t)[i + Len(s)] = t[i]
    BY <1>1, <2>1
  <2> QED BY <2>1, <2>2 DEF Puts
<1> QED BY <1>1, <1>2, <1>3, <1>4 DEF Puts

(* An empty queue.                                                         *)
LEMMA PutsOfNothing == \A S : <<>> \in Seq(S) /\ Puts(<<>>) = {}
BY DEF Puts

(* A document that names an attempt names one that was made.               *)
Sound == {doc \in Content : Unresolved(doc) => doc.n # 0}
Entry == [at : Copy, doc : Sound]

(* The replacement a queue begins with, and what is behind it.             *)
LEMMA HeadOf ==
  ASSUME NEW w \in Seq(Entry), w # <<>>
  PROVE  /\ Head(w) \in Puts(w) /\ Head(w).at \in Copy /\ Head(w).doc \in Sound
         /\ Tail(w) \in Seq(Entry) /\ Puts(w) = {Head(w)} \union Puts(Tail(w))
         /\ (Tail(w) = <<>>) <=> (Len(w) = 1)
<1>1. /\ Head(w) \in Puts(w) /\ Head(w) \in Entry
      /\ Tail(w) \in Seq(Entry) /\ (Tail(w) = <<>>) <=> (Len(w) = 1)
  BY PutsOfHead
<1>2. Puts(w) = {Head(w)} \union Puts(Tail(w))
  BY PutsOfHead
<1> QED BY <1>1, <1>2 DEF Entry

(* A document is replaced in its primary, and in its backup if it has one. *)
LEMMA PutsOfWrite ==
  ASSUME NEW d \in Doc, NEW doc \in Sound
  PROVE  /\ Write(d, doc) \in Seq(Entry) /\ Write(d, doc) # <<>>
         /\ Put("primary", d, doc) \in Puts(Write(d, doc))
         /\ d \in Backed => Put("backup", d, doc) \in Puts(Write(d, doc))
         /\ \A p \in Puts(Write(d, doc)) : p.at \in Copy /\ p.at[2] = d /\ p.doc = doc
<1>1. Put("primary", d, doc) \in Entry /\ (d \in Backed => Put("backup", d, doc) \in Entry)
  BY DEF Put, Entry, Copy
<1>2. CASE d \in Backed
  <2>1. Write(d, doc) = <<Put("primary", d, doc), Put("backup", d, doc)>>
    BY <1>2 DEF Write
  <2>2. Puts(Write(d, doc)) = {Put("primary", d, doc), Put("backup", d, doc)}
    BY <2>1 DEF Puts
  <2> QED BY <1>1, <1>2, <2>1, <2>2 DEF Put, Copy
<1>3. CASE d \notin Backed
  <2>1. Write(d, doc) = <<Put("primary", d, doc)>>
    BY <1>3 DEF Write
  <2>2. Puts(Write(d, doc)) = {Put("primary", d, doc)}
    BY <2>1 DEF Puts
  <2> QED BY <1>1, <1>3, <2>1, <2>2 DEF Put, Copy
<1> QED BY <1>2, <1>3

(* The pieces of several documents, put into order.                        *)
LEMMA PutsInOrder ==
  ASSUME NEW entry, DOMAIN entry \subseteq Doc,
         \A d \in DOMAIN entry : entry[d] \in Seq(Entry)
  PROVE  /\ InOrder(entry) \in Seq(Entry)
         /\ \A p : p \in Puts(InOrder(entry)) <=> \E d \in DOMAIN entry : p \in Puts(entry[d])
<1> DEFINE of(d) == IF d \in DOMAIN entry THEN entry[d] ELSE <<>>
<1>1. ASSUME NEW d PROVE of(d) \in Seq(Entry) /\ (d \notin DOMAIN entry => Puts(of(d)) = {})
  BY PutsOfNothing
<1>2. ASSUME NEW d \in DOMAIN entry PROVE of(d) = entry[d]
  OBVIOUS
<1>3. InOrder(entry) = of("manifest") \o of("gate") \o of("desired")
                         \o of("resident") \o of("child") \o of("claim")
  BY DEF InOrder
<1> HIDE DEF of
<1>4. /\ InOrder(entry) \in Seq(Entry)
      /\ \A p : p \in Puts(InOrder(entry)) <=>
           \/ p \in Puts(of("manifest")) \/ p \in Puts(of("gate")) \/ p \in Puts(of("desired"))
           \/ p \in Puts(of("resident")) \/ p \in Puts(of("child")) \/ p \in Puts(of("claim"))
  <2>0. \A s, t \in Seq(Entry) :
          s \o t \in Seq(Entry) /\ Puts(s \o t) = Puts(s) \union Puts(t)
    BY PutsOfBoth
  <2>1. PICK m \in Seq(Entry), g \in Seq(Entry), d \in Seq(Entry) :
          m = of("manifest") /\ g = of("gate") /\ d = of("desired")
    BY <1>1
  <2>2. PICK r \in Seq(Entry), c \in Seq(Entry), k \in Seq(Entry) :
          r = of("resident") /\ c = of("child") /\ k = of("claim")
    BY <1>1
  <2>3. PICK q2 \in Seq(Entry) : q2 = m \o g /\ Puts(q2) = Puts(m) \union Puts(g)
    BY <2>0
  <2>4. PICK q3 \in Seq(Entry) : q3 = q2 \o d /\ Puts(q3) = Puts(q2) \union Puts(d)
    BY <2>0
  <2>5. PICK q4 \in Seq(Entry) : q4 = q3 \o r /\ Puts(q4) = Puts(q3) \union Puts(r)
    BY <2>0
  <2>6. PICK q5 \in Seq(Entry) : q5 = q4 \o c /\ Puts(q5) = Puts(q4) \union Puts(c)
    BY <2>0
  <2>7. PICK q6 \in Seq(Entry) : q6 = q5 \o k /\ Puts(q6) = Puts(q5) \union Puts(k)
    BY <2>0
  <2>8. InOrder(entry) = q6
    BY <1>3, <2>1, <2>2, <2>3, <2>4, <2>5, <2>6, <2>7
  <2> QED BY <2>1, <2>2, <2>3, <2>4, <2>5, <2>6, <2>7, <2>8
<1>5. DOMAIN entry \subseteq {"manifest", "gate", "desired", "resident", "child", "claim"}
  BY DEF Doc, Backed, Ledger
<1>6. ASSUME NEW p
      PROVE  p \in Puts(InOrder(entry)) <=> \E d \in DOMAIN entry : p \in Puts(of(d))
  <2>1. ASSUME p \in Puts(InOrder(entry)) PROVE \E d \in DOMAIN entry : p \in Puts(of(d))
    BY <1>1, <1>4, <2>1
  <2>2. ASSUME NEW d \in DOMAIN entry, p \in Puts(of(d)) PROVE p \in Puts(InOrder(entry))
    BY <1>4, <1>5, <2>2
  <2> QED BY <2>1, <2>2
<1> QED BY <1>2, <1>4, <1>6

-----------------------------------------------------------------------------
(* Documents                                                               *)

Modes == ActiveModes \union {"identity", "clean", "enabled", "disabled",
                             "recovery_required", "minute"}

(* Attempts and revisions are numbers a document can hold.                 *)
LEMMA Numbers ==
  /\ 0 \in Range_n
  /\ \A n \in 0..MaxAttempts : n \in Range_n
  /\ \A n \in 0..MaxRevision : n \in Range_n
BY BoundsAssumption DEF Range_n

(* What a document, read or written, can be.                               *)
LEMMA Documents ==
  /\ Missing \in Sound /\ ~Valid(Missing) /\ ~Unresolved(Missing)
  /\ \A doc \in Damaged :
       doc \in Sound /\ ~Valid(doc) /\ ~Unresolved(doc) /\ doc.is \in {"corrupt", "foreign"}
  /\ \A mode \in Modes, n \in Range_n :
       /\ Valid(Document(mode, n)) /\ Document(mode, n).mode = mode /\ Document(mode, n).n = n
       /\ (mode \in ActiveModes => n # 0) => Document(mode, n) \in Sound
  /\ \A doc \in Sound : /\ doc.n \in Range_n /\ (Unresolved(doc) => doc.n # 0)
                        /\ Valid(doc) \/ doc \in Damaged \/ doc = Missing
<1>1. Missing \in Sound /\ ~Valid(Missing) /\ ~Unresolved(Missing)
  BY DEF Missing, Unwritten, Content, Sound, Valid, Unresolved, ActiveModes
<1>2. ASSUME NEW doc \in Damaged
      PROVE  doc \in Sound /\ ~Valid(doc) /\ ~Unresolved(doc) /\ doc.is \in {"corrupt", "foreign"}
  BY DEF Damaged, Unwritten, Content, Sound, Valid, Unresolved, ActiveModes
<1>3. ASSUME NEW mode \in Modes, NEW n \in Range_n
      PROVE  /\ Document(mode, n) \in Content /\ Valid(Document(mode, n))
             /\ Document(mode, n).mode = mode /\ Document(mode, n).n = n
  BY DEF Document, Content, Valid, Modes
<1>4. ASSUME NEW doc \in Sound
      PROVE  /\ doc.n \in Range_n /\ (Unresolved(doc) => doc.n # 0)
             /\ Valid(doc) \/ doc \in Damaged \/ doc = Missing
  BY Numbers DEF Sound, Content, Damaged, Missing, Unwritten, Valid
<1> QED BY <1>1, <1>2, <1>3, <1>4 DEF Sound, Unresolved

(* The documents that are written with a fixed content.                    *)
LEMMA Fixed ==
  /\ Clean \in Sound /\ Valid(Clean) /\ ~Unresolved(Clean)
  /\ \A d \in Required \union {"child"} :
       /\ Blank(d) \in Sound /\ Valid(Blank(d)) /\ ~Unresolved(Blank(d))
       /\ Blank(d).mode # "enabled"
  /\ \A n \in Range_n : /\ Disabled(n) \in Sound /\ Valid(Disabled(n))
                        /\ ~Unresolved(Disabled(n)) /\ Disabled(n).mode # "enabled"
<1>1. Clean \in Sound /\ Valid(Clean) /\ Clean.mode = "clean"
  BY Documents, Numbers DEF Clean, Modes, ActiveModes
<1>2. Manifest \in Sound /\ Valid(Manifest) /\ Manifest.mode = "identity"
  BY Documents, Numbers DEF Manifest, Modes, ActiveModes
<1>3. ASSUME NEW n \in Range_n
      PROVE  Disabled(n) \in Sound /\ Valid(Disabled(n)) /\ Disabled(n).mode = "disabled"
  BY Documents DEF Disabled, Modes, ActiveModes
<1>4. ~Unresolved(Clean) /\ ~Unresolved(Manifest) /\ \A n \in Range_n : ~Unresolved(Disabled(n))
  BY <1>1, <1>2, <1>3 DEF Unresolved, ActiveModes
<1>5. ASSUME NEW d \in Required \union {"child"}
      PROVE  Blank(d) \in {Manifest, Disabled(0), Clean}
  BY DEF Blank, Required, Ledger
<1> QED BY <1>1, <1>2, <1>3, <1>4, <1>5, Numbers

(* Where the copies of a document are.                                     *)
LEMMA Copies ==
  /\ \A d \in Doc : <<"primary", d>> \in Copy
  /\ \A d \in Backed : <<"backup", d>> \in Copy
  /\ \A c \in Copy : /\ c[2] \in Doc
                     /\ c = <<"primary", c[2]>> \/ (c = <<"backup", c[2]>> /\ c[2] \in Backed)
  /\ Ledger \subseteq Backed /\ Backed \subseteq Doc /\ Required \subseteq Backed
  /\ "child" \in Ledger /\ "resident" \in Ledger /\ "gate" \in Required /\ "desired" \in Backed
  /\ "claim" \in Doc /\ "claim" \notin Backed
BY DEF Copy, Doc, Backed, Required, Ledger

-----------------------------------------------------------------------------
(* Types                                                                   *)

FileTypes == file \in [Copy -> Sound] /\ found \in [Ledger -> Sound]

QueueTypes == writes \in Seq(Entry) /\ fresh \in Seq(Entry)

LockTypes ==
  /\ holder \in {"nobody", "control", "recovery"} \union Ledger
  /\ phase \in {"idle", "wait", "clear", "write", "commit"}
  /\ writes # <<>> => holder # "nobody"
  /\ holder = "recovery" <=> phase \in {"clear", "write", "commit"}
  /\ phase = "clear" => writes = <<>>

SystemTypes ==
  /\ resident \in BOOLEAN
  /\ job \in [Ledger -> 0..MaxAttempts]
  /\ alive \subseteq {l \in Ledger : job[l] # 0}
  /\ step \in [Ledger -> {"idle", "armed", "started"}]

BudgetTypes ==
  /\ stray \in BOOLEAN /\ tampered \in BOOLEAN
  /\ tries \in 0..MaxAttempts /\ damage \in 0..MaxDamage /\ faults \in 0..MaxFaults

TypeInv == FileTypes /\ QueueTypes /\ LockTypes /\ SystemTypes /\ BudgetTypes

(* What is proved of the parts is what the runs check.                     *)
LEMMA TypesAreOK == TypeInv => TypeOK
<1>. SUFFICES ASSUME TypeInv PROVE TypeOK
  OBVIOUS
<1>. Entry \subseteq Pending
  BY DEF Entry, Pending, Sound
<1>1. \A i \in 1..Len(writes) : writes[i] \in Pending
  BY DEF TypeInv, QueueTypes
<1>2. \A i \in 1..Len(fresh) : fresh[i] \in Pending
  BY DEF TypeInv, QueueTypes
<1>3. file \in [Copy -> Content] /\ found \in [Ledger -> Content]
  BY DEF TypeInv, FileTypes, Sound
<1> QED BY <1>1, <1>2, <1>3 DEF TypeInv, LockTypes, SystemTypes, BudgetTypes, TypeOK

(* What is read of a document is a content.                                *)
LEMMA ReadsAre ==
  ASSUME TypeInv, NEW d \in Doc
  PROVE  Primary(d) \in Sound /\ Backup(d) \in Sound /\ Selected(d) \in Sound
BY Documents, Copies DEF TypeInv, FileTypes, Primary, Backup, Selected

(* The document says of the ledger what its launcher has started.          *)
Names(doc, l) == Valid(doc) /\ Unresolved(doc) /\ doc.n = job[l]

-----------------------------------------------------------------------------
(* The actions, by who takes them.                                         *)

Commands ==
  (\E n \in 1..MaxRevision : ApplyEnabled(n) \/ ApplyDisabled(n)) \/ DisableGate

Creations ==
  (\E d \in Required \union {"child"} : Initialize(d)) \/ InitializeNext \/ InitializeFails

Launches(l) ==
  \/ Arm(l) \/ Start(l) \/ Confirm(l) \/ Unconfirmed(l)
  \/ MarkClean(l) \/ MarkUncertain(l) \/ JobEnds(l)

Recovers ==
  \/ BeginRecovery \/ JobsAbsent \/ WaitFails
  \/ ClearNext \/ ClearStray \/ CreateClean
  \/ CommitRecovery \/ RepairFails \/ Recovered \/ RecoveryDies

(* Every step is one of theirs.                                            *)
LEMMA NextIs ==
  Next => \/ WriteNext \/ WriteFails \/ (\E c \in Copy : Damage(c)) \/ StrayFile
          \/ Creations \/ Commands \/ (\E l \in Ledger : Launches(l))
          \/ ResidentStarts \/ Claim \/ Recovers
BY DEF Next, Commands, Creations, Launches, Recovers

(* What recovery means to write repairs every document from its copies.    *)
LEMMA RepairsAre ==
  ASSUME TypeInv
  PROVE  /\ Repairs \in Seq(Entry)
         /\ \A p \in Puts(Repairs) : p.doc = Selected(p.at[2])
         /\ \A d \in ToRestore : \A c \in Copy : c[2] = d => \E p \in Puts(Repairs) : p.at = c
         /\ \A d \in ToRefresh : \E p \in Puts(Repairs) : p.at = <<"backup", d>>
<1> DEFINE restore == [d \in ToRestore |-> Write(d, Backup(d))]
           refresh == [d \in ToRefresh |-> <<Put("backup", d, Primary(d))>>]
<1>1. ToRestore \subseteq Doc /\ ToRefresh \subseteq Backed /\ Backed \subseteq Doc
  BY Copies DEF ToRestore, ToRefresh
<1>2. ASSUME NEW d \in ToRestore
      PROVE  /\ restore[d] = Write(d, Backup(d)) /\ restore[d] \in Seq(Entry)
             /\ \A p \in Puts(restore[d]) : p.doc = Selected(p.at[2])
             /\ \A c \in Copy : c[2] = d => \E p \in Puts(restore[d]) : p.at = c
  <2>1. d \in Doc /\ Backup(d) \in Sound /\ Backup(d) = Selected(d)
    BY <1>1, ReadsAre DEF ToRestore, Selected
  <2>2. /\ Write(d, Backup(d)) \in Seq(Entry)
        /\ Put("primary", d, Backup(d)) \in Puts(Write(d, Backup(d)))
        /\ d \in Backed => Put("backup", d, Backup(d)) \in Puts(Write(d, Backup(d)))
        /\ \A p \in Puts(Write(d, Backup(d))) : p.at[2] = d /\ p.doc = Backup(d)
    BY <2>1, PutsOfWrite
  <2>3. Put("primary", d, Backup(d)).at = <<"primary", d>>
          /\ Put("backup", d, Backup(d)).at = <<"backup", d>>
    BY DEF Put
  <2> QED BY <2>1, <2>2, <2>3, Copies
<1>3. ASSUME NEW d \in ToRefresh
      PROVE  /\ refresh[d] \in Seq(Entry)
             /\ \A p \in Puts(refresh[d]) : p.doc = Selected(p.at[2])
             /\ \E p \in Puts(refresh[d]) : p.at = <<"backup", d>>
  <2>1. d \in Backed /\ Primary(d) \in Sound /\ Primary(d) = Selected(d)
    BY <1>1, ReadsAre DEF ToRefresh, Selected
  <2>2. refresh[d] = <<Put("backup", d, Primary(d))>> /\ Put("backup", d, Primary(d)) \in Entry
    BY <2>1, Copies DEF Put, Entry
  <2>3. Puts(refresh[d]) = {Put("backup", d, Primary(d))}
    BY <2>2 DEF Puts
  <2> QED BY <2>1, <2>2, <2>3 DEF Put
<1> HIDE DEF restore, refresh
<1>4. DOMAIN restore = ToRestore /\ DOMAIN refresh = ToRefresh
  BY DEF restore, refresh
<1>5. /\ InOrder(restore) \in Seq(Entry)
      /\ \A p : p \in Puts(InOrder(restore)) <=> \E d \in ToRestore : p \in Puts(restore[d])
  BY <1>1, <1>2, <1>4, PutsInOrder
<1>6. /\ InOrder(refresh) \in Seq(Entry)
      /\ \A p : p \in Puts(InOrder(refresh)) <=> \E d \in ToRefresh : p \in Puts(refresh[d])
  BY <1>1, <1>3, <1>4, PutsInOrder
<1>7. Repairs = InOrder(restore) \o InOrder(refresh)
  BY DEF Repairs, restore, refresh
<1>8. Repairs \in Seq(Entry)
        /\ Puts(Repairs) = Puts(InOrder(restore)) \union Puts(InOrder(refresh))
  BY <1>5, <1>6, <1>7, PutsOfBoth
<1>9. ASSUME NEW p \in Puts(Repairs) PROVE p.doc = Selected(p.at[2])
  BY <1>2, <1>3, <1>5, <1>6, <1>8
<1>10. ASSUME NEW d \in ToRestore, NEW c \in Copy, c[2] = d
       PROVE  \E p \in Puts(Repairs) : p.at = c
  BY <1>2, <1>5, <1>8, <1>10
<1>11. ASSUME NEW d \in ToRefresh PROVE \E p \in Puts(Repairs) : p.at = <<"backup", d>>
  BY <1>3, <1>6, <1>8
<1> QED BY <1>8, <1>9, <1>10, <1>11

(* What a salvage writes: the documents that must exist, empty.            *)
BlankWrites == InOrder([d \in Required |-> Write(d, Blank(d))])

(* A blank document for every copy of those that must exist.               *)
LEMMA BlanksAre ==
  /\ BlankWrites \in Seq(Entry)
  /\ \A p \in Puts(BlankWrites) : p.at[2] \in Required /\ p.doc = Blank(p.at[2])
  /\ \A c \in Copy : c[2] \in Required => \E p \in Puts(BlankWrites) : p.at = c
<1> DEFINE entry == [d \in Required |-> Write(d, Blank(d))]
<1>1. ASSUME NEW d \in Required
      PROVE  /\ entry[d] \in Seq(Entry)
             /\ \A p \in Puts(entry[d]) : p.at[2] = d /\ p.doc = Blank(d)
             /\ \A c \in Copy : c[2] = d => \E p \in Puts(entry[d]) : p.at = c
  <2>1. d \in Doc /\ Blank(d) \in Sound /\ entry[d] = Write(d, Blank(d))
    BY Copies, Fixed
  <2>2. /\ Write(d, Blank(d)) \in Seq(Entry)
        /\ Put("primary", d, Blank(d)) \in Puts(Write(d, Blank(d)))
        /\ d \in Backed => Put("backup", d, Blank(d)) \in Puts(Write(d, Blank(d)))
        /\ \A p \in Puts(Write(d, Blank(d))) : p.at[2] = d /\ p.doc = Blank(d)
    BY <2>1, PutsOfWrite
  <2>3. Put("primary", d, Blank(d)).at = <<"primary", d>>
          /\ Put("backup", d, Blank(d)).at = <<"backup", d>>
    BY DEF Put
  <2> QED BY <2>1, <2>2, <2>3, Copies
<1>2. DOMAIN entry = Required /\ Required \subseteq Doc /\ BlankWrites = InOrder(entry)
  BY Copies DEF BlankWrites
<1> HIDE DEF entry
<1>3. /\ InOrder(entry) \in Seq(Entry)
      /\ \A p : p \in Puts(InOrder(entry)) <=> \E d \in Required : p \in Puts(entry[d])
  BY <1>1, <1>2, PutsInOrder
<1> QED BY <1>1, <1>2, <1>3

(* What a recovery writes in the end.                                      *)
LEMMA CommitsAre ==
  ASSUME TypeInv, NEW n \in Range_n
  PROVE  InOrder([l \in {k \in Ledger : Unresolved(Primary(k))} |-> Write(l, Clean)])
           \o Write("gate", Disabled(n)) \in Seq(Entry)
<1> DEFINE entry == [l \in {k \in Ledger : Unresolved(Primary(k))} |-> Write(l, Clean)]
<1>1. /\ DOMAIN entry \subseteq Doc
      /\ \A l \in DOMAIN entry : entry[l] = Write(l, Clean) /\ l \in Doc
  BY Copies
<1>2. \A l \in DOMAIN entry : entry[l] \in Seq(Entry)
  BY <1>1, Fixed, PutsOfWrite
<1>3. Write("gate", Disabled(n)) \in Seq(Entry)
  BY Copies, Fixed, PutsOfWrite
<1> HIDE DEF entry
<1>4. InOrder(entry) \in Seq(Entry)
  BY <1>1, <1>2, PutsInOrder
<1>5. InOrder(entry) \o Write("gate", Disabled(n)) \in Seq(Entry)
  BY <1>3, <1>4, PutsOfBoth
<1> QED BY <1>5 DEF entry

(* Two documents that are written one after the other.                     *)
LEMMA PutsOfTwo ==
  ASSUME NEW d \in Doc, NEW e \in Doc, NEW x \in Sound, NEW y \in Sound
  PROVE  /\ Write(d, x) \o Write(e, y) \in Seq(Entry) /\ Write(d, x) \o Write(e, y) # <<>>
         /\ \A p \in Puts(Write(d, x) \o Write(e, y)) :
              (p.at[2] = d /\ p.doc = x) \/ (p.at[2] = e /\ p.doc = y)
<1>1. /\ Write(d, x) \in Seq(Entry) /\ Write(e, y) \in Seq(Entry)
      /\ \A p \in Puts(Write(d, x)) : p.at[2] = d /\ p.doc = x
      /\ \A p \in Puts(Write(e, y)) : p.at[2] = e /\ p.doc = y
      /\ Put("primary", d, x) \in Puts(Write(d, x))
  BY PutsOfWrite
<1>2. /\ Write(d, x) \o Write(e, y) \in Seq(Entry)
      /\ Puts(Write(d, x) \o Write(e, y)) = Puts(Write(d, x)) \union Puts(Write(e, y))
  BY <1>1, PutsOfBoth
<1>3. Write(d, x) \o Write(e, y) # <<>>
  BY <1>1, <1>2, PutsOfNothing
<1> QED BY <1>1, <1>2, <1>3

(* The queues that commands and launchers write.                           *)
LEMMA CommandWrites ==
  ASSUME TypeInv, Commands
  PROVE  /\ writes' \in Seq(Entry) /\ writes' # <<>>
         /\ \A p \in Puts(writes') : p.at[2] \in {"gate", "desired"}
<1>1. "gate" \in Doc /\ "desired" \in Doc
  BY Copies
<1>2. ASSUME NEW n \in 1..MaxRevision
      PROVE  Document("enabled", n) \in Sound /\ Disabled(n) \in Sound
  BY BoundsAssumption, Documents, Numbers, Fixed DEF Modes, ActiveModes
<1>3. ASSUME NEW n \in 1..MaxRevision, ApplyEnabled(n) \/ ApplyDisabled(n)
      PROVE  \/ writes' = Write("desired", Document("enabled", n))
             \/ writes' = Write("desired", Document("enabled", n))
                            \o Write("gate", Document("enabled", n))
             \/ writes' = Write("gate", Disabled(n)) \o Write("desired", Disabled(n))
  BY <1>3 DEF ApplyEnabled, ApplyDisabled
<1>4. CASE \E n \in 1..MaxRevision : ApplyEnabled(n) \/ ApplyDisabled(n)
  <2>1. PICK n \in 1..MaxRevision : ApplyEnabled(n) \/ ApplyDisabled(n)
    BY <1>4
  <2>2. CASE writes' = Write("desired", Document("enabled", n))
    BY <1>1, <1>2, <2>2, PutsOfWrite
  <2>3. CASE writes' = Write("desired", Document("enabled", n))
                         \o Write("gate", Document("enabled", n))
    BY <1>1, <1>2, <2>3, PutsOfTwo
  <2>4. CASE writes' = Write("gate", Disabled(n)) \o Write("desired", Disabled(n))
    BY <1>1, <1>2, <2>4, PutsOfTwo
  <2> QED BY <1>3, <2>1, <2>2, <2>3, <2>4
<1>5. CASE DisableGate
  <2>1. Selected("gate").n \in Range_n /\ writes' = Write("gate", Disabled(Selected("gate").n))
    BY <1>1, <1>5, ReadsAre, Documents DEF DisableGate
  <2> QED BY <1>1, <2>1, Fixed, PutsOfWrite
<1> QED BY <1>4, <1>5 DEF Commands

(* A launcher writes its own ledger, and names its attempt if not clean.   *)
LEMMA LaunchWrites ==
  ASSUME TypeInv, NEW l \in Ledger,
         Arm(l) \/ Confirm(l) \/ MarkClean(l) \/ MarkUncertain(l)
  PROVE  /\ writes' \in Seq(Entry) /\ writes' # <<>> /\ job'[l] \in 0..MaxAttempts
         /\ \A p \in Puts(writes') : /\ p.at[2] \in {l, "gate"}
                                     /\ p.at[2] = l /\ ~MarkClean(l) => Names(p.doc, l)'
<1>1. l \in Doc /\ l \in Backed /\ "gate" \in Doc /\ l # "gate" /\ Primary(l) \in Sound
  BY Copies, ReadsAre DEF Ledger
<1>2. CASE Arm(l)
  <2>1. PICK n \in 1..MaxAttempts : n = tries' /\ job'[l] = n
    BY <1>2, BoundsAssumption DEF Arm, TypeInv, BudgetTypes, SystemTypes
  <2>2. Document("spawn_armed", n) \in Sound /\ Names(Document("spawn_armed", n), l)'
    BY <2>1, Documents, Numbers DEF Modes, ActiveModes, Names, Unresolved
  <2>3. writes' = Write(l, Document("spawn_armed", n))
    BY <1>2, <2>1 DEF Arm
  <2> QED BY <1>1, <2>1, <2>2, <2>3, PutsOfWrite
<1>3. CASE Confirm(l)
  <2>1. job[l] \in 1..MaxAttempts /\ job' = job
    BY <1>1, <1>3, Documents DEF Confirm, OwnAttempt, system, TypeInv, SystemTypes
  <2>2. Document("active", job[l]) \in Sound /\ Names(Document("active", job[l]), l)'
    BY <2>1, Documents, Numbers DEF Modes, ActiveModes, Names, Unresolved
  <2>3. writes' = Write(l, Document("active", job[l]))
    BY <1>3 DEF Confirm
  <2> QED BY <1>1, <2>1, <2>2, <2>3, PutsOfWrite
<1>4. CASE MarkClean(l)
  <2>1. writes' = Write(l, Clean) /\ job' = job
    BY <1>4 DEF MarkClean, system
  <2> QED BY <1>1, <1>4, <2>1, Fixed, PutsOfWrite DEF TypeInv, SystemTypes
<1>5. CASE MarkUncertain(l)
  <2>1. job[l] \in 1..MaxAttempts /\ job' = job /\ Primary(l).n \in Range_n
    BY <1>1, <1>5, Documents DEF MarkUncertain, system, TypeInv, SystemTypes
  <2>2. Document("uncertain", job[l]) \in Sound /\ Names(Document("uncertain", job[l]), l)'
    BY <2>1, Documents, Numbers DEF Modes, ActiveModes, Names, Unresolved
  <2>3. Document("recovery_required", Primary(l).n) \in Sound
    BY <2>1, Documents DEF Modes, ActiveModes
  <2>4. writes' = Write(l, Document("uncertain", job[l]))
                    \o Write("gate", Document("recovery_required", Primary(l).n))
    BY <1>5 DEF MarkUncertain
  <2> QED BY <1>1, <2>1, <2>2, <2>3, <2>4, PutsOfTwo DEF TypeInv, SystemTypes
<1> QED BY <1>2, <1>3, <1>4, <1>5

(* A ledger is armed in all its copies.                                    *)
LEMMA ArmWrites ==
  ASSUME TypeInv, NEW l \in Ledger, Arm(l), NEW c \in Copy, c[2] = l
  PROVE  \E p \in Puts(writes') : p.at = c
<1>1. tries' \in 1..MaxAttempts
  BY BoundsAssumption DEF Arm, TypeInv, BudgetTypes
<1>2. Document("spawn_armed", tries') \in Sound /\ l \in Doc
  BY <1>1, Documents, Numbers, Copies DEF Modes, ActiveModes
<1>3. writes' = Write(l, Document("spawn_armed", tries'))
  BY DEF Arm
<1>4. /\ Put("primary", l, Document("spawn_armed", tries')).at = <<"primary", l>>
      /\ Put("backup", l, Document("spawn_armed", tries')).at = <<"backup", l>>
  BY DEF Put
<1> QED BY <1>2, <1>3, <1>4, Copies, PutsOfWrite

-----------------------------------------------------------------------------
(* What a command and a launcher leave alone.                              *)
LEMMA CommandsKeep ==
  ASSUME Commands
  PROVE  /\ UNCHANGED <<file, stray, job, alive, step, resident, fresh, phase, found, tampered,
                        tries, damage, faults>>
         /\ holder = "nobody" /\ Settled /\ holder' = "control"
BY DEF Commands, ApplyEnabled, ApplyDisabled, DisableGate, Locks, disk, system, recovery, budget

(* A launcher replaces no file itself, and takes no step of recovery.      *)
LEMMA LaunchesKeep ==
  ASSUME NEW l \in Ledger, Launches(l)
  PROVE  UNCHANGED <<file, stray, phase, found, tampered, damage, faults>>
BY DEF Launches, Arm, Start, Confirm, Unconfirmed, MarkClean, MarkUncertain, JobEnds,
       disk, recovery, budget

(* Only copies are removed.                                                *)
LEMMA ClearedAre == \A i \in 1..Len(ClearOrder) : Present(ClearOrder[i]) \subseteq Copy
<1>1. Len(ClearOrder) = 7
  BY DEF ClearOrder
<1>2. \A i \in 1..7 : ClearOrder[i] \subseteq Copy
  BY DEF ClearOrder, Copy, Doc, Backed, Ledger
<1> QED BY <1>1, <1>2 DEF Present

(* The types are kept, part by part.                                       *)
LEMMA FilesStep == ASSUME TypeInv, Next PROVE FileTypes'
<1>. FileTypes /\ NoOwnership \in [Ledger -> Sound]
  BY Documents DEF TypeInv, NoOwnership
<1>. USE DEF FileTypes
<1>1. CASE WriteNext
  <2>1. writes # <<>> /\ Head(writes).doc \in Sound
    BY <1>1, HeadOf DEF WriteNext, TypeInv, QueueTypes
  <2> QED BY <1>1, <2>1 DEF WriteNext, recovery
<1>2. CASE WriteFails
  <2>1. Head(writes).doc \in Sound
    BY <1>2, HeadOf DEF WriteFails, TypeInv, QueueTypes
  <2> QED BY <1>2, <2>1 DEF WriteFails, Forget
<1>3. CASE (\E c \in Copy : Damage(c)) \/ StrayFile
  BY <1>3, Documents DEF Damage, StrayFile
<1>4. CASE Creations
  <2>1. CASE InitializeNext
    <3>1. fresh # <<>> /\ Head(fresh).doc \in Sound
      BY <2>1, HeadOf DEF InitializeNext, TypeInv, QueueTypes
    <3> QED BY <2>1, <3>1 DEF InitializeNext, recovery
  <2> QED BY <1>4, <2>1 DEF Creations, Initialize, InitializeFails, disk, recovery
<1>5. CASE Commands
  BY <1>5, CommandsKeep
<1>6. CASE \E l \in Ledger : Launches(l)
  BY <1>6, LaunchesKeep
<1>7. CASE ResidentStarts
  BY <1>7 DEF ResidentStarts, disk, recovery
<1>8. CASE Claim
  BY <1>8, Documents, Numbers DEF Claim, recovery, Modes, ActiveModes
<1>9. CASE Recovers
  <2>1. CASE BeginRecovery
    <3>1. Ownership \in [Ledger -> Sound]
      BY Copies, ReadsAre DEF Ownership
    <3> QED BY <2>1, <3>1 DEF BeginRecovery, disk
  <2>2. CASE ClearNext
    <3>1. (\E c \in Copy : file' = [file EXCEPT ![c] = Missing]) /\ found' = found
      BY <2>2, ClearedAre DEF ClearNext
    <3> QED BY <3>1, Documents
  <2>3. CASE JobsAbsent \/ ClearStray \/ CreateClean \/ CommitRecovery
    BY <2>3 DEF JobsAbsent, ClearStray, CreateClean, CommitRecovery, disk, recovery
  <2>4. CASE WaitFails \/ RepairFails \/ Recovered \/ RecoveryDies
    BY <2>4 DEF WaitFails, RepairFails, Recovered, RecoveryDies, Return, Forget, disk
  <2> QED BY <1>9, <2>1, <2>2, <2>3, <2>4 DEF Recovers
<1> QED BY <1>1, <1>2, <1>3, <1>4, <1>5, <1>6, <1>7, <1>8, <1>9, NextIs

(* What is queued are documents that could be read.                        *)
LEMMA QueuesStep == ASSUME TypeInv, Next PROVE QueueTypes'
<1>. QueueTypes
  BY DEF TypeInv
<1>1. ASSUME writes' \in {writes, <<>>, Tail(writes)}, writes' = Tail(writes) => writes # <<>>
      PROVE  writes' \in Seq(Entry)
  BY <1>1, HeadOf, PutsOfNothing DEF QueueTypes
<1>2. ASSUME fresh' \in {fresh, <<>>, Tail(fresh)}, fresh' = Tail(fresh) => fresh # <<>>
      PROVE  fresh' \in Seq(Entry)
  BY <1>2, HeadOf, PutsOfNothing DEF QueueTypes
<1>3. CASE WriteNext \/ WriteFails
  BY <1>1, <1>2, <1>3 DEF WriteNext, WriteFails, QueueTypes
<1>4. CASE (\E c \in Copy : Damage(c)) \/ StrayFile \/ ResidentStarts \/ Claim
  BY <1>4 DEF Damage, StrayFile, ResidentStarts, Claim, QueueTypes
<1>5. CASE Creations
  <2>1. writes' = writes
    BY <1>5 DEF Creations, Initialize, InitializeNext, InitializeFails
  <2>2. CASE \E d \in Required \union {"child"} : Initialize(d)
    <3>1. PICK d \in Required \union {"child"} : fresh' = Write(d, Blank(d))
      BY <2>2 DEF Initialize
    <3> QED BY <2>1, <3>1, Copies, Fixed, PutsOfWrite DEF QueueTypes
  <2>3. CASE InitializeNext \/ InitializeFails
    BY <1>2, <2>1, <2>3 DEF InitializeNext, InitializeFails, QueueTypes
  <2> QED BY <1>5, <2>2, <2>3 DEF Creations
<1>6. CASE Commands
  BY <1>6, CommandsKeep, CommandWrites DEF QueueTypes
<1>7. ASSUME NEW l \in Ledger, Launches(l) PROVE QueueTypes'
  <2>1. fresh' \in {fresh, <<>>}
    BY <1>7 DEF Launches, Arm, Start, Confirm, Unconfirmed, MarkClean, MarkUncertain, JobEnds
  <2>2. CASE Arm(l) \/ Confirm(l) \/ MarkClean(l) \/ MarkUncertain(l)
    BY <1>2, <2>1, <2>2, LaunchWrites DEF QueueTypes
  <2>3. CASE Start(l) \/ Unconfirmed(l) \/ JobEnds(l)
    <3>1. writes' \in {writes, <<>>}
      BY <2>3 DEF Start, Unconfirmed, JobEnds
    <3> QED BY <1>1, <1>2, <2>1, <3>1, PutsOfNothing DEF QueueTypes
  <2> QED BY <1>7, <2>2, <2>3 DEF Launches
<1>8. CASE Recovers
  <2>1. fresh' = fresh
    BY <1>8 DEF Recovers, BeginRecovery, JobsAbsent, WaitFails, ClearNext, ClearStray, CreateClean,
            CommitRecovery, RepairFails, Recovered, RecoveryDies
  <2>2. CASE BeginRecovery \/ JobsAbsent
    <3>1. writes' \in {writes, <<>>, Repairs}
      BY <2>2 DEF BeginRecovery, JobsAbsent, Prepare
    <3> QED BY <2>1, <3>1, RepairsAre, PutsOfNothing DEF QueueTypes
  <2>3. CASE CreateClean
    BY <2>1, <2>3, BlanksAre DEF CreateClean, BlankWrites, QueueTypes
  <2>4. CASE CommitRecovery
    <3>1. Primary("gate").n \in Range_n
      BY Copies, ReadsAre, Documents
    <3> QED BY <2>1, <2>4, <3>1, CommitsAre DEF CommitRecovery, QueueTypes
  <2>5. CASE WaitFails \/ ClearNext \/ ClearStray \/ RepairFails \/ Recovered \/ RecoveryDies
    <3>1. writes' \in {writes, <<>>}
      BY <2>5 DEF WaitFails, ClearNext, ClearStray, RepairFails, Recovered, RecoveryDies, Return
    <3> QED BY <2>1, <3>1, PutsOfNothing DEF QueueTypes
  <2> QED BY <1>8, <2>2, <2>3, <2>4, <2>5 DEF Recovers
<1> QED BY <1>3, <1>4, <1>5, <1>6, <1>7, <1>8, NextIs

(* The holder of the transition mutex, and how far recovery is.            *)
LEMMA LocksStep == ASSUME TypeInv, Next PROVE LockTypes'
<1>. LockTypes
  BY DEF TypeInv
<1>. USE DEF LockTypes
<1>1. CASE WriteNext
  <2>1. (Len(writes) = 1) <=> (writes' = <<>>)
    BY <1>1, HeadOf DEF WriteNext, TypeInv, QueueTypes
  <2> QED BY <1>1, <2>1 DEF WriteNext, recovery
<1>2. CASE WriteFails
  BY <1>2 DEF WriteFails
<1>3. CASE (\E c \in Copy : Damage(c)) \/ StrayFile \/ ResidentStarts \/ Claim
  BY <1>3 DEF Damage, StrayFile, ResidentStarts, Claim, recovery
<1>4. CASE Creations
  BY <1>4 DEF Creations, Initialize, InitializeNext, InitializeFails, recovery
<1>5. CASE Commands
  BY <1>5, CommandsKeep
<1>6. ASSUME NEW l \in Ledger, Launches(l) PROVE LockTypes'
  <2>1. phase' = phase
    BY <1>6, LaunchesKeep
  <2>2. CASE Arm(l) \/ Confirm(l) \/ MarkClean(l) \/ MarkUncertain(l)
    <3>1. holder = "nobody" /\ holder' = l
      BY <2>2 DEF Arm, Confirm, MarkClean, MarkUncertain, Locks
    <3> QED BY <2>1, <3>1 DEF Ledger
  <2>3. CASE Start(l) \/ Unconfirmed(l) \/ JobEnds(l)
    <3>1. \/ writes' = writes /\ holder' = holder
          \/ writes' = <<>> /\ holder' = "nobody" /\ holder \in Ledger
      BY <2>3 DEF Start, Unconfirmed, JobEnds, Ledger
    <3> QED BY <2>1, <3>1 DEF Ledger
  <2> QED BY <1>6, <2>2, <2>3 DEF Launches
<1>7. CASE Recovers
  <2>1. CASE BeginRecovery \/ JobsAbsent
    BY <2>1 DEF BeginRecovery, JobsAbsent, Prepare
  <2>2. CASE ClearNext \/ ClearStray \/ CreateClean \/ CommitRecovery
    BY <2>2 DEF ClearNext, ClearStray, CreateClean, CommitRecovery, recovery
  <2>3. CASE WaitFails \/ RepairFails \/ Recovered \/ RecoveryDies
    BY <2>3 DEF WaitFails, RepairFails, Recovered, RecoveryDies, Return, Forget
  <2> QED BY <1>7, <2>1, <2>2, <2>3 DEF Recovers
<1> QED BY <1>1, <1>2, <1>3, <1>4, <1>5, <1>6, <1>7, NextIs

(* What lives has a Job.                                                   *)
LEMMA SystemStep == ASSUME TypeInv, Next PROVE SystemTypes'
<1>. SystemTypes
  BY DEF TypeInv
<1>. USE DEF SystemTypes
<1>1. CASE WriteNext \/ (\E c \in Copy : Damage(c)) \/ StrayFile \/ Creations \/ Claim
  BY <1>1 DEF WriteNext, Damage, StrayFile, Creations, Initialize, InitializeNext,
          InitializeFails, Claim, system, disk
<1>2. CASE WriteFails
  <2>1. step' \in [Ledger -> {"idle", "armed", "started"}]
    BY <1>2 DEF WriteFails
  <2> QED BY <1>2, <2>1 DEF WriteFails
<1>3. CASE Commands
  BY <1>3, CommandsKeep
<1>4. ASSUME NEW l \in Ledger, Launches(l) PROVE SystemTypes'
  <2>1. CASE Arm(l)
    <3>1. tries' \in 1..MaxAttempts
      BY <2>1, BoundsAssumption DEF Arm, TypeInv, BudgetTypes
    <3> QED BY <2>1, <3>1 DEF Arm
  <2>2. CASE Start(l)
    BY <2>2 DEF Start
  <2>3. CASE Confirm(l) \/ Unconfirmed(l)
    BY <2>3 DEF Confirm, Unconfirmed
  <2>4. CASE MarkClean(l) \/ MarkUncertain(l)
    BY <2>4 DEF MarkClean, MarkUncertain, system
  <2>5. CASE JobEnds(l)
    <3>1. step' \in [Ledger -> {"idle", "armed", "started"}]
      BY <2>5 DEF JobEnds
    <3>2. job' \in [Ledger -> 0..MaxAttempts] /\ alive' \subseteq {k \in Ledger : job'[k] # 0}
      BY <2>5, BoundsAssumption DEF JobEnds
    <3> QED BY <2>5, <3>1, <3>2 DEF JobEnds
  <2> QED BY <1>4, <2>1, <2>2, <2>3, <2>4, <2>5 DEF Launches
<1>5. CASE ResidentStarts
  BY <1>5 DEF ResidentStarts
<1>6. CASE Recovers
  BY <1>6 DEF Recovers, BeginRecovery, JobsAbsent, WaitFails, ClearNext, ClearStray, CreateClean,
          CommitRecovery, RepairFails, Recovered, RecoveryDies, system
<1> QED BY <1>1, <1>2, <1>3, <1>4, <1>5, <1>6, NextIs

(* The bounds.                                                             *)
LEMMA BudgetStep == ASSUME TypeInv, Next PROVE BudgetTypes'
<1>. BudgetTypes
  BY DEF TypeInv
<1>. USE BoundsAssumption DEF BudgetTypes
<1>1. CASE WriteNext
  BY <1>1 DEF WriteNext, recovery, budget
<1>2. CASE WriteFails
  <2>1. tampered' \in {tampered, FALSE}
    BY <1>2 DEF WriteFails, Forget
  <2>2. UNCHANGED <<stray, tries, damage>> /\ faults < MaxFaults /\ faults' = faults + 1
    BY <1>2 DEF WriteFails
  <2>3. stray' \in BOOLEAN /\ tampered' \in BOOLEAN
    BY <2>1, <2>2
  <2>4. tries' \in 0..MaxAttempts /\ damage' \in 0..MaxDamage /\ faults' \in 0..MaxFaults
    BY <2>2
  <2> QED BY <2>3, <2>4
<1>3. CASE (\E c \in Copy : Damage(c)) \/ StrayFile
  <2>1. (tampered' <=> phase # "idle") /\ tampered' \in BOOLEAN
    BY <1>3 DEF Damage, StrayFile
  <2>2. /\ stray' \in {stray, TRUE} /\ UNCHANGED <<tries, faults>>
        /\ damage < MaxDamage /\ damage' = damage + 1
    BY <1>3 DEF Damage, StrayFile
  <2>3. stray' \in BOOLEAN
    BY <2>2
  <2>4. tries' \in 0..MaxAttempts /\ damage' \in 0..MaxDamage /\ faults' \in 0..MaxFaults
    BY <2>2
  <2> QED BY <2>1, <2>3, <2>4
<1>4. CASE Creations
  BY <1>4 DEF Creations, Initialize, InitializeNext, InitializeFails, disk, recovery, budget
<1>5. CASE Commands
  BY <1>5, CommandsKeep
<1>6. ASSUME NEW l \in Ledger, Launches(l) PROVE BudgetTypes'
  <2>1. UNCHANGED <<stray, tampered, damage, faults>>
    BY <1>6, LaunchesKeep
  <2>2. tries' \in 0..MaxAttempts
    <3>1. tries' = tries \/ (tries < MaxAttempts /\ tries' = tries + 1)
      BY <1>6 DEF Launches, Arm, Start, Confirm, Unconfirmed, MarkClean, MarkUncertain, JobEnds,
              budget
    <3> QED BY <3>1
  <2> QED BY <2>1, <2>2
<1>7. CASE ResidentStarts \/ Claim
  BY <1>7 DEF ResidentStarts, Claim, disk, recovery, budget
<1>8. CASE Recovers
  <2>1. CASE BeginRecovery \/ JobsAbsent
    BY <2>1 DEF BeginRecovery, JobsAbsent, disk, budget
  <2>2. CASE ClearNext \/ ClearStray \/ CreateClean \/ CommitRecovery
    BY <2>2 DEF ClearNext, ClearStray, CreateClean, CommitRecovery, disk, recovery, budget
  <2>3. CASE WaitFails \/ RepairFails \/ Recovered
    BY <2>3 DEF WaitFails, RepairFails, Recovered, Return, Forget, disk, budget
  <2>4. CASE RecoveryDies
    <3>1. stray' \in BOOLEAN /\ tampered' \in BOOLEAN
      BY <2>4 DEF RecoveryDies, Forget, disk
    <3>2. tries' \in 0..MaxAttempts /\ damage' \in 0..MaxDamage /\ faults' \in 0..MaxFaults
      BY <2>4 DEF RecoveryDies
    <3> QED BY <3>1, <3>2
  <2> QED BY <1>8, <2>1, <2>2, <2>3, <2>4 DEF Recovers
<1> QED BY <1>1, <1>2, <1>3, <1>4, <1>5, <1>6, <1>7, <1>8, NextIs

(* Nothing exists in the beginning.                                        *)
LEMMA TypesBegin == Init => TypeInv
<1>. SUFFICES ASSUME Init PROVE TypeInv
  OBVIOUS
<1>. USE BoundsAssumption DEF Init
<1>1. FileTypes
  BY Documents DEF FileTypes, NoOwnership
<1>2. QueueTypes
  BY PutsOfNothing DEF QueueTypes
<1>3. LockTypes
  BY DEF LockTypes
<1>4. resident \in BOOLEAN /\ stray \in BOOLEAN /\ tampered \in BOOLEAN
  OBVIOUS
<1>5. /\ job \in [Ledger -> 0..MaxAttempts] /\ alive \subseteq {l \in Ledger : job[l] # 0}
      /\ step \in [Ledger -> {"idle", "armed", "started"}]
  OBVIOUS
<1>6. tries \in 0..MaxAttempts /\ damage \in 0..MaxDamage /\ faults \in 0..MaxFaults
  OBVIOUS
<1> QED BY <1>1, <1>2, <1>3, <1>4, <1>5, <1>6 DEF TypeInv, SystemTypes, BudgetTypes

(* Every step keeps all of them.                                           *)
LEMMA TypesKept == TypeInv /\ [Next]_vars => TypeInv'
<1>. SUFFICES ASSUME TypeInv, [Next]_vars PROVE TypeInv'
  OBVIOUS
<1>1. CASE Next
  BY <1>1, FilesStep, QueuesStep, LocksStep, SystemStep, BudgetStep DEF TypeInv
<1>2. CASE UNCHANGED vars
  BY <1>2 DEF TypeInv, FileTypes, QueueTypes, LockTypes, SystemTypes, BudgetTypes,
          vars, disk, system, recovery, budget
<1> QED BY <1>1, <1>2

(* So they hold.                                                           *)
LEMMA Types == Spec => []TypeInv
BY TypesBegin, TypesKept, PTL DEF Spec

(* Every variable keeps its type, a lock is held while its holder has      *)
(* something to write, and recovery repairs only under both of its locks   *)
(* (locks.py:31-67, recovery.py:105-146).                                  *)
THEOREM TypeCorrect == Spec => []TypeOK
BY Types, TypesAreOK, PTL

-----------------------------------------------------------------------------
(* Evidence                                                                *)

(* Recovery and the resident exclude each other, and what was started is   *)
(* not about to be started.                                                *)
AloneInv ==
  /\ phase # "idle" => ~resident
  /\ \A l \in alive : step[l] # "armed"

(* There is neither a recovery nor a process in the beginning.             *)
LEMMA AloneBegins == Init => AloneInv
BY DEF Init, AloneInv

(* Recovery takes the resident mutex first, and a Job is new.              *)
LEMMA AloneKept == TypeInv /\ AloneInv /\ [Next]_vars => AloneInv'
<1>. SUFFICES ASSUME TypeInv, AloneInv, [Next]_vars PROVE AloneInv'
  OBVIOUS
<1>. SystemTypes
  BY DEF TypeInv
<1>. USE DEF AloneInv, SystemTypes
<1>1. CASE WriteNext \/ (\E c \in Copy : Damage(c)) \/ StrayFile \/ Creations \/ Claim
  BY <1>1 DEF WriteNext, Damage, StrayFile, Creations, Initialize, InitializeNext,
          InitializeFails, Claim, system, disk, recovery
<1>2. CASE WriteFails
  <2>1. phase' \in {phase, "idle"} /\ resident' = resident /\ alive' = alive
    BY <1>2 DEF WriteFails
  <2>2. \A l \in Ledger : step'[l] \in {step[l], "idle"}
    BY <1>2 DEF WriteFails
  <2> QED BY <2>1, <2>2
<1>3. CASE Commands
  BY <1>3, CommandsKeep
<1>4. ASSUME NEW l \in Ledger, Launches(l) PROVE AloneInv'
  <2>1. phase' = phase
    BY <1>4, LaunchesKeep
  <2>2. resident' => resident
    BY <1>4 DEF Launches, Arm, Start, Confirm, Unconfirmed, MarkClean, MarkUncertain, JobEnds,
           system
  <2>3. \A k \in alive' : step'[k] # "armed"
    <3>1. CASE Arm(l)
      BY <3>1 DEF Arm, MayLaunch
    <3>2. CASE Start(l)
      BY <3>2 DEF Start
    <3>3. CASE Confirm(l) \/ Unconfirmed(l)
      BY <3>3 DEF Confirm, Unconfirmed
    <3>4. CASE MarkClean(l) \/ MarkUncertain(l)
      BY <3>4 DEF MarkClean, MarkUncertain, system
    <3>5. CASE JobEnds(l)
      <4>1. alive' \subseteq alive /\ \A k \in Ledger : step'[k] \in {step[k], "idle"}
        BY <3>5 DEF JobEnds
      <4> QED BY <4>1
    <3> QED BY <1>4, <3>1, <3>2, <3>3, <3>4, <3>5 DEF Launches
  <2> QED BY <2>1, <2>2, <2>3
<1>5. CASE ResidentStarts
  BY <1>5 DEF ResidentStarts, recovery
<1>6. CASE Recovers
  <2>1. UNCHANGED system /\ (phase' # "idle" => phase # "idle" \/ ~resident)
    BY <1>6 DEF Recovers, BeginRecovery, JobsAbsent, WaitFails, ClearNext, ClearStray, CreateClean,
            CommitRecovery, RepairFails, Recovered, RecoveryDies, Return
  <2> QED BY <2>1 DEF system
<1>7. CASE UNCHANGED vars
  BY <1>7 DEF vars, system, recovery
<1> QED BY <1>1, <1>2, <1>3, <1>4, <1>5, <1>6, <1>7, NextIs

(* A launcher is at work, or what it has started lives.                    *)
Launching(l) == step[l] # "idle" \/ l \in alive

(* A copy of a ledger that names what was started, will be overwritten     *)
(* before it is started, or is known to be lost.                           *)
Kept(c, l) ==
  \/ file[c] \in Damaged
  \/ Names(file[c], l)
  \/ step[l] = "armed" /\ holder = l /\ \E p \in Puts(writes) : p.at = c

(* Nobody is about to write anything else, and no recovery is under way.   *)
Evident(l) ==
  /\ holder # "recovery"
  /\ \A p \in Puts(fresh) : p.at[2] # l
  /\ \A p \in Puts(writes) : p.at[2] = l => Names(p.doc, l)
  /\ \A c \in Copy : c[2] = l => Kept(c, l)

EvidenceInv ==
  /\ fresh # <<>> => holder = "nobody"
  /\ \A l \in Ledger : Launching(l) => Evident(l)

(* What recovery goes by names what was started, unless it cannot be read. *)
LEMMA NamedOrUnreadable ==
  ASSUME TypeInv, EvidenceInv, NEW l \in Ledger, Launching(l),
         ~(step[l] = "armed" /\ holder = l)
  PROVE  Names(Selected(l), l) \/ Unreadable(l)
<1>1. l \in Doc /\ l \in Backed /\ <<"primary", l>> \in Copy /\ <<"backup", l>> \in Copy
  BY Copies
<1>2. /\ Primary(l) \in Damaged \/ Names(Primary(l), l)
      /\ Backup(l) \in Damaged \/ Names(Backup(l), l)
  BY <1>1 DEF EvidenceInv, Evident, Kept, Primary, Backup
<1>3. CASE Names(Primary(l), l)
  BY <1>3 DEF Names, Selected
<1>4. CASE Primary(l) \in Damaged /\ Names(Backup(l), l)
  BY <1>4, Documents DEF Names, Selected
<1>5. CASE Primary(l) \in Damaged /\ Backup(l) \in Damaged
  BY <1>5, Documents DEF Selected, Unreadable, IsForeign
<1> QED BY <1>2, <1>3, <1>4, <1>5

(* So a recovery that reads nothing of a started process finds none.       *)
LEMMA NothingStarted ==
  ASSUME TypeInv, EvidenceInv, holder = "nobody", ~OwnershipUnreadable,
         NEW l \in Ledger, l \in UnresolvedIn(Ownership) => job[l] # Ownership[l].n
  PROVE  ~Launching(l)
<1>. SUFFICES ASSUME Launching(l) PROVE FALSE
  OBVIOUS
<1>1. Names(Selected(l), l)
  BY NamedOrUnreadable DEF OwnershipUnreadable, Ledger
<1> QED BY <1>1 DEF Names, UnresolvedIn, Ownership

(* Nothing is started in the beginning.                                    *)
LEMMA EvidenceBegins == Init => EvidenceInv
BY DEF Init, EvidenceInv, Launching

(* Nobody writes while a document is created.                              *)
LEMMA FreshStep ==
  ASSUME ~LateInitialization, TypeInv, EvidenceInv, Next
  PROVE  fresh' # <<>> => holder' = "nobody"
<1>. fresh # <<>> => holder = "nobody"
  BY DEF EvidenceInv
<1>. USE DEF Settled, Locks
<1>1. CASE WriteNext \/ WriteFails
  BY <1>1 DEF WriteNext, WriteFails
<1>2. CASE (\E c \in Copy : Damage(c)) \/ StrayFile \/ ResidentStarts \/ Claim
  BY <1>2 DEF Damage, StrayFile, ResidentStarts, Claim
<1>3. CASE Creations
  BY <1>3 DEF Creations, Initialize, InitializeNext, InitializeFails
<1>4. CASE Commands
  BY <1>4, CommandsKeep
<1>5. ASSUME NEW l \in Ledger, Launches(l) PROVE fresh' # <<>> => holder' = "nobody"
  BY <1>5 DEF Launches, Arm, Start, Confirm, Unconfirmed, MarkClean, MarkUncertain, JobEnds
<1>6. CASE Recovers
  <2>1. CASE BeginRecovery \/ JobsAbsent
    BY <2>1 DEF BeginRecovery, JobsAbsent
  <2>2. CASE ClearNext \/ ClearStray \/ CreateClean \/ CommitRecovery
    BY <2>2 DEF ClearNext, ClearStray, CreateClean, CommitRecovery
  <2>3. CASE WaitFails \/ RepairFails \/ Recovered \/ RecoveryDies
    BY <2>3 DEF WaitFails, RepairFails, Recovered, RecoveryDies, Return
  <2> QED BY <1>6, <2>1, <2>2, <2>3 DEF Recovers
<1> QED BY <1>1, <1>2, <1>3, <1>4, <1>5, <1>6, NextIs

(* The next file of a queue is replaced, or a writer dies.                 *)
LEMMA WritingKeepsEvidence ==
  ASSUME TypeInv, AloneInv, EvidenceInv, WriteNext \/ WriteFails,
         NEW l \in Ledger, Launching(l)'
  PROVE  Evident(l)'
<1>. DEFINE put == Head(writes)
<1>1. /\ put \in Puts(writes) /\ put.at \in Copy
      /\ Puts(writes) = {put} \union Puts(Tail(writes))
      /\ (Tail(writes) = <<>>) <=> (Len(writes) = 1)
  BY HeadOf DEF WriteNext, WriteFails, TypeInv, QueueTypes
<1>. HIDE DEF put
<1>2. file \in [Copy -> Sound] /\ step \in [Ledger -> {"idle", "armed", "started"}]
  BY DEF TypeInv, FileTypes, SystemTypes
<1>3. UNCHANGED <<job, alive, fresh>>
  BY DEF WriteNext, WriteFails, system
<1>4. CASE WriteNext
  <2>1. /\ file' = [file EXCEPT ![put.at] = put.doc] /\ writes' = Tail(writes)
        /\ holder' = IF Len(writes) = 1 /\ holder # "recovery" THEN "nobody" ELSE holder
        /\ step' = step
    BY <1>4 DEF WriteNext, put, system
  <2>2. Evident(l)
    BY <1>3, <2>1 DEF EvidenceInv, Launching
  <2>3. holder' # "recovery" /\ (\A p \in Puts(fresh') : p.at[2] # l)
    BY <1>3, <2>1, <2>2 DEF Evident
  <2>4. \A p \in Puts(writes') : p.at[2] = l => Names(p.doc, l)'
    BY <1>1, <1>3, <2>1, <2>2 DEF Evident, Names
  <2>5. ASSUME NEW c \in Copy, c[2] = l PROVE Kept(c, l)'
    <3>1. CASE c = put.at
      <4>1. file'[c] = put.doc /\ Names(put.doc, l)
        BY <1>1, <1>2, <2>1, <2>2, <2>5, <3>1 DEF Evident
      <4> QED BY <1>3, <4>1 DEF Kept, Names
    <3>2. CASE c # put.at
      <4>1. file'[c] = file[c] /\ Kept(c, l)
        BY <1>1, <1>2, <2>1, <2>2, <2>5, <3>2 DEF Evident
      <4>2. CASE step[l] = "armed" /\ holder = l /\ \E p \in Puts(writes) : p.at = c
        <5>1. PICK p \in Puts(Tail(writes)) : p.at = c
          BY <1>1, <3>2, <4>2
        <5>2. Tail(writes) # <<>>
          BY <5>1, PutsOfNothing
        <5> QED BY <1>1, <2>1, <4>2, <5>1, <5>2 DEF Kept
      <4> QED BY <1>3, <4>1, <4>2 DEF Kept, Names
    <3> QED BY <3>1, <3>2
  <2> QED BY <2>3, <2>4, <2>5 DEF Evident
<1>5. CASE WriteFails
  <2>1. /\ file' \in {file, [file EXCEPT ![put.at] = put.doc]} /\ writes' = <<>>
        /\ holder' = "nobody"
        /\ step' = IF holder \in Ledger THEN [step EXCEPT ![holder] = "idle"] ELSE step
    BY <1>5 DEF WriteFails, put
  <2>2. Launching(l) /\ ~(step[l] = "armed" /\ holder = l)
    BY <1>2, <1>3, <2>1 DEF Launching, AloneInv
  <2>3. Evident(l)
    BY <2>2 DEF EvidenceInv
  <2>4. \A p \in Puts(fresh') : p.at[2] # l
    BY <1>3, <2>3 DEF Evident
  <2>5. Puts(writes') = {}
    BY <2>1, PutsOfNothing
  <2>6. ASSUME NEW c \in Copy, c[2] = l PROVE Kept(c, l)'
    <3>1. file[c] \in Damaged \/ Names(file[c], l)
      BY <2>2, <2>3, <2>6 DEF Evident, Kept
    <3>2. file'[c] = file[c] \/ (file'[c] = put.doc /\ Names(put.doc, l))
      BY <1>1, <1>2, <2>1, <2>3, <2>6 DEF Evident
    <3> QED BY <1>3, <3>1, <3>2 DEF Kept, Names
  <2> QED BY <2>1, <2>4, <2>5, <2>6 DEF Evident
<1> QED BY <1>4, <1>5

(* Files are damaged, or created.                                          *)
LEMMA OthersKeepEvidence ==
  ASSUME ~LateInitialization, TypeInv, EvidenceInv,
         (\E c \in Copy : Damage(c)) \/ StrayFile \/ ResidentStarts \/ Claim \/ Creations,
         NEW l \in Ledger, Launching(l)'
  PROVE  Evident(l)'
<1>1. UNCHANGED <<job, alive, step, holder, writes>>
  BY DEF Damage, StrayFile, ResidentStarts, Claim, Creations, Initialize, InitializeNext,
         InitializeFails, system
<1>2. Launching(l) /\ Evident(l)
  BY <1>1 DEF Launching, EvidenceInv
<1>3. file \in [Copy -> Sound] /\ l \in Doc /\ <<"primary", l>> \in Copy /\ l # "claim"
  BY Copies DEF TypeInv, FileTypes, Ledger
<1>4. /\ \A p \in Puts(fresh') : p.at[2] # l
      /\ \A c \in Copy : c[2] = l => file'[c] = file[c] \/ file'[c] \in Damaged
  <2>1. CASE \E c \in Copy : Damage(c)
    BY <1>2, <1>3, <2>1 DEF Damage, Evident
  <2>2. CASE StrayFile \/ ResidentStarts
    BY <1>2, <2>2 DEF StrayFile, ResidentStarts, disk, Evident
  <2>3. CASE Claim
    BY <1>2, <1>3, <2>3 DEF Claim, Evident
  <2>4. CASE \E d \in Required \union {"child"} : Initialize(d)
    <3>1. PICK d \in Required \union {"child"} : Initialize(d)
      BY <2>4
    <3>2. /\ Primary(d) = Missing /\ holder = "nobody" /\ file' = file
          /\ fresh' = Write(d, Blank(d))
      BY <3>1 DEF Initialize, disk
    <3>3. d # l
      <4>1. Primary(l) \in Damaged \/ Names(Primary(l), l)
        BY <1>2, <1>3, <3>2 DEF Evident, Kept, Primary, Ledger
      <4> QED BY <3>2, <4>1, Documents DEF Names, Damaged, Missing, Unwritten
    <3>4. \A p \in Puts(fresh') : p.at[2] = d
      BY <3>2, Copies, Fixed, PutsOfWrite
    <3> QED BY <3>2, <3>3, <3>4
  <2>5. CASE InitializeNext
    <3>1. /\ fresh # <<>> /\ Head(fresh) \in Puts(fresh)
          /\ Puts(fresh) = {Head(fresh)} \union Puts(Tail(fresh))
      BY <2>5, HeadOf DEF InitializeNext, TypeInv, QueueTypes
    <3>2. Head(fresh).at[2] # l
      BY <1>2, <3>1 DEF Evident
    <3>3. \/ fresh' = <<>> /\ file' = file
          \/ fresh' = Tail(fresh) /\ file' = [file EXCEPT ![Head(fresh).at] = Head(fresh).doc]
      BY <2>5 DEF InitializeNext
    <3>4. Puts(fresh') \subseteq Puts(fresh)
      BY <3>1, <3>3, PutsOfNothing
    <3> QED BY <1>2, <1>3, <3>2, <3>3, <3>4 DEF Evident
  <2>6. CASE InitializeFails
    BY <2>6, PutsOfNothing DEF InitializeFails, disk
  <2> QED BY <2>1, <2>2, <2>3, <2>4, <2>5, <2>6 DEF Creations
<1> QED BY <1>1, <1>2, <1>4 DEF Evident, Kept, Names

(* The launcher of one ledger takes a step.                                *)
LEMMA LaunchingKeepsEvidence ==
  ASSUME ~LateInitialization, TypeInv, AloneInv, EvidenceInv,
         NEW k \in Ledger, Launches(k), NEW l \in Ledger, Launching(l)'
  PROVE  Evident(l)'
<1>1. /\ file' = file /\ job \in [Ledger -> 0..MaxAttempts]
      /\ step \in [Ledger -> {"idle", "armed", "started"}]
      /\ alive \subseteq {m \in Ledger : job[m] # 0}
  BY LaunchesKeep DEF TypeInv, SystemTypes
<1>2. CASE Arm(k) \/ Confirm(k) \/ MarkClean(k) \/ MarkUncertain(k)
  <2>1. /\ holder = "nobody" /\ holder' = k /\ fresh = <<>> /\ fresh' = fresh
        /\ alive' = alive
    BY <1>2 DEF Arm, Confirm, MarkClean, MarkUncertain, Locks, Settled, EvidenceInv, system
  <2>2. holder' # "recovery" /\ \A p \in Puts(fresh') : p.at[2] # l
    BY <2>1, PutsOfNothing DEF Ledger
  <2>3. CASE Arm(k) /\ k = l
    <3>1. /\ step'[l] = "armed"
          /\ \A p \in Puts(writes') : p.at[2] = l => MarkClean(l) \/ Names(p.doc, l)'
      BY <1>1, <2>3, LaunchWrites DEF Arm
    <3>2. ~MarkClean(l)
      BY <2>3, Fixed DEF Arm, MayLaunch, MarkClean
    <3>3. \A c \in Copy : c[2] = l => \E p \in Puts(writes') : p.at = c
      BY <2>3, ArmWrites
    <3> QED BY <2>1, <2>2, <2>3, <3>1, <3>2, <3>3 DEF Evident, Kept
  <2>4. CASE ~(Arm(k) /\ k = l)
    <3>1. job'[l] = job[l] /\ (step'[l] = step[l] \/ step'[l] = "idle")
      BY <1>1, <1>2, <2>4 DEF Arm, Confirm, MarkClean, MarkUncertain, system
    <3>2. Launching(l) /\ Evident(l)
      BY <2>1, <3>1 DEF Launching, EvidenceInv
    <3>3. ~(MarkClean(k) /\ k = l)
      BY <1>1, <3>2 DEF MarkClean, Launching
    <3>4. \A p \in Puts(writes') : p.at[2] = l => Names(p.doc, l)'
      <4>1. \A p \in Puts(writes') : /\ p.at[2] \in {k, "gate"}
                                     /\ p.at[2] = k /\ ~MarkClean(k) => Names(p.doc, k)'
        BY <1>2, LaunchWrites
      <4> QED BY <3>3, <4>1 DEF Ledger
    <3>5. \A c \in Copy : c[2] = l => file[c] \in Damaged \/ Names(file[c], l)
      BY <2>1, <3>2 DEF Evident, Kept, Ledger
    <3> QED BY <1>1, <2>2, <3>1, <3>4, <3>5 DEF Evident, Kept, Names
  <2> QED BY <2>3, <2>4
<1>3. CASE Start(k) \/ Unconfirmed(k)
  <2>1. /\ UNCHANGED <<job, holder, writes, fresh>> /\ holder # k
        /\ step'[l] = step[l] \/ l = k
        /\ step[k] # "idle" /\ (l = k \/ (l \in alive' <=> l \in alive))
    BY <1>1, <1>3 DEF Start, Unconfirmed
  <2>2. Launching(l) /\ Evident(l)
    BY <2>1 DEF Launching, EvidenceInv
  <2> QED BY <1>1, <2>1, <2>2 DEF Evident, Kept, Names
<1>4. CASE JobEnds(k)
  <2>1. /\ k # l /\ job'[l] = job[l] /\ Launching(l)
        /\ fresh' \in {fresh, <<>>}
    BY <1>1, <1>4 DEF JobEnds, Launching
  <2>2. Evident(l)
    BY <2>1 DEF EvidenceInv
  <2>3. \/ writes' = writes /\ holder' = holder /\ step'[l] = step[l]
        \/ /\ writes' = writes /\ holder' = holder /\ step'[l] = "idle"
           /\ holder # "child" /\ k = "resident"
        \/ /\ writes' = <<>> /\ holder' = "nobody"
           /\ holder # l \/ (l \in alive /\ step[l] # "armed")
    BY <1>1, <1>4, <2>1 DEF JobEnds, AloneInv, Launching
  <2>4. \A p \in Puts(fresh') : p.at[2] # l
    BY <2>1, <2>2, PutsOfNothing DEF Evident
  <2>5. holder' # "recovery" /\ \A p \in Puts(writes') : p.at[2] = l => Names(p.doc, l)'
    BY <2>1, <2>2, <2>3, PutsOfNothing DEF Evident, Names
  <2>6. ASSUME NEW c \in Copy, c[2] = l PROVE Kept(c, l)'
    BY <1>1, <2>1, <2>2, <2>3, <2>6 DEF Evident, Kept, Names, Ledger
  <2> QED BY <2>4, <2>5, <2>6 DEF Evident
<1> QED BY <1>2, <1>3, <1>4 DEF Launches

(* A command writes no ledger.                                             *)
LEMMA CommandsKeepEvidence ==
  ASSUME TypeInv, EvidenceInv, Commands, NEW l \in Ledger, Launching(l)'
  PROVE  Evident(l)'
<1>1. /\ UNCHANGED <<file, job, alive, step, fresh>> /\ holder = "nobody" /\ holder' = "control"
      /\ \A p \in Puts(writes') : p.at[2] \in {"gate", "desired"}
  BY CommandsKeep, CommandWrites
<1>2. Evident(l)
  BY <1>1 DEF EvidenceInv, Launching
<1> QED BY <1>1, <1>2 DEF Evident, Kept, Names, Ledger

(* A recovery that may write has found nothing that is being started.      *)
LEMMA RecoveryKeepsEvidence ==
  ASSUME TypeInv, EvidenceInv, Recovers, NEW l \in Ledger, Launching(l)'
  PROVE  Evident(l)'
<1>1. UNCHANGED <<job, alive, step, fresh>>
  BY DEF Recovers, BeginRecovery, JobsAbsent, WaitFails, ClearNext, ClearStray, CreateClean,
         CommitRecovery, RepairFails, Recovered, RecoveryDies, system
<1>2. Launching(l) /\ Evident(l)
  BY <1>1 DEF Launching, EvidenceInv
<1>3. holder # "recovery" /\ phase \notin {"clear", "write", "commit"}
  BY <1>2 DEF Evident, TypeInv, LockTypes
<1>4. CASE BeginRecovery
  <2>1. ~OwnershipUnreadable /\ holder = "nobody"
    BY <1>4 DEF BeginRecovery
  <2>2. UnresolvedIn(Ownership) # {}
    BY <1>2, <2>1, NothingStarted
  <2>3. UNCHANGED <<file, holder, writes>>
    BY <1>4, <2>2 DEF BeginRecovery, disk
  <2> QED BY <1>1, <1>2, <2>3 DEF Evident, Kept, Names
<1>5. CASE JobsAbsent
  <2>1. ~OwnershipUnreadable /\ holder = "nobody" /\ Ownership = found
    BY <1>5 DEF JobsAbsent
  <2>2. l \in UnresolvedIn(Ownership) => job[l] # Ownership[l].n
    BY <1>5, <2>1 DEF JobsAbsent
  <2> QED BY <1>2, <2>1, <2>2, NothingStarted
<1>6. CASE WaitFails \/ RecoveryDies
  <2>1. writes' = writes \/ writes' = <<>>
    BY <1>6 DEF WaitFails, RecoveryDies, Return
  <2>2. file' = file /\ holder' = holder
    BY <1>3, <1>6 DEF WaitFails, RecoveryDies, Return, disk
  <2>3. writes' = writes
    BY <1>3, <1>6, <2>1 DEF WaitFails, RecoveryDies, TypeInv, LockTypes
  <2> QED BY <1>1, <1>2, <2>2, <2>3 DEF Evident, Kept, Names
<1>7. CASE ClearNext \/ ClearStray \/ CreateClean \/ CommitRecovery \/ RepairFails \/ Recovered
  BY <1>3, <1>7 DEF ClearNext, ClearStray, CreateClean, CommitRecovery, RepairFails, Recovered
<1> QED BY <1>4, <1>5, <1>6, <1>7 DEF Recovers

(* Every step keeps the evidence of what was started.                      *)
LEMMA EvidenceStays ==
  ASSUME ~LateInitialization, TypeInv, AloneInv, EvidenceInv, [Next]_vars
  PROVE  EvidenceInv'
<1>1. CASE Next
  <2>1. fresh' # <<>> => holder' = "nobody"
    BY <1>1, FreshStep
  <2>2. ASSUME NEW l \in Ledger, Launching(l)' PROVE Evident(l)'
    BY <1>1, <2>2, NextIs, WritingKeepsEvidence, OthersKeepEvidence, CommandsKeepEvidence,
       LaunchingKeepsEvidence, RecoveryKeepsEvidence
  <2> QED BY <2>1, <2>2 DEF EvidenceInv
<1>2. CASE UNCHANGED vars
  BY <1>2 DEF vars, disk, system, recovery, EvidenceInv, Launching, Evident, Kept, Names
<1> QED BY <1>1, <1>2

(* So there always is evidence.                                            *)
LEMMA Evidence ==
  ASSUME ~LateInitialization PROVE Spec => [](TypeInv /\ AloneInv /\ EvidenceInv)
BY TypesBegin, TypesKept, AloneBegins, AloneKept, EvidenceBegins, EvidenceStays, PTL DEF Spec

(* A process that runs can be found by recovery, or recovery refuses       *)
(* (recovery_authority.py:61-86, runtime_files.py:205-209), unless a       *)
(* command is overtaken while it creates a document.                       *)
THEOREM EvidenceIsKept ==
  ASSUME ~LateInitialization PROVE Spec => []EvidenceKept
<1>1. TypeInv /\ AloneInv /\ EvidenceInv => EvidenceKept
  <2>. SUFFICES ASSUME TypeInv, AloneInv, EvidenceInv, NEW l \in alive
                PROVE  \/ Valid(Selected(l)) /\ Unresolved(Selected(l)) /\ Selected(l).n = job[l]
                       \/ Unreadable(l)
    BY DEF EvidenceKept
  <2>1. l \in Ledger /\ Launching(l) /\ step[l] # "armed"
    BY DEF TypeInv, SystemTypes, AloneInv, Launching
  <2> QED BY <2>1, NamedOrUnreadable DEF Names
<1> QED BY <1>1, Evidence, PTL

(* Nothing is started while recovery holds the transition mutex, though a  *)
(* launcher holds no lock when it starts its process                       *)
(* (recovery.py:105-146, control.py:226-252).                              *)
THEOREM NothingStartsUnderRepair ==
  ASSUME ~LateInitialization PROVE Spec => NoStartUnderRepair
<1>1. TypeInv /\ AloneInv /\ EvidenceInv /\ [Next]_vars
        => [holder = "recovery" => alive' \subseteq alive]_vars
  <2>. SUFFICES ASSUME EvidenceInv, Next, holder = "recovery" PROVE alive' \subseteq alive
    BY DEF vars
  <2>1. \A l \in Ledger : step[l] = "idle"
    BY DEF EvidenceInv, Evident, Launching
  <2>2. ASSUME NEW l \in Ledger, Launches(l) PROVE alive' \subseteq alive
    BY <2>1, <2>2 DEF Launches, Arm, Start, Confirm, Unconfirmed, MarkClean, MarkUncertain,
       JobEnds, system
  <2>3. CASE Recovers
    BY <2>3 DEF Recovers, BeginRecovery, JobsAbsent, WaitFails, ClearNext, ClearStray, CreateClean,
       CommitRecovery, RepairFails, Recovered, RecoveryDies, system
  <2>4. CASE WriteNext \/ WriteFails \/ (\E c \in Copy : Damage(c)) \/ StrayFile \/ Creations
    BY <2>4 DEF WriteNext, WriteFails, Damage, StrayFile, Creations, Initialize, InitializeNext,
       InitializeFails, system
  <2>5. CASE Commands \/ ResidentStarts \/ Claim
    BY <2>5, CommandsKeep DEF ResidentStarts, Claim, system
  <2> QED BY <2>2, <2>3, <2>4, <2>5, NextIs
<1> QED BY <1>1, Evidence, PTL DEF Spec, NoStartUnderRepair

(* When recovery reports the runtime stopped nothing is running            *)
(* (recovery.py:105-146, recovery.py:166-170).                             *)
THEOREM RecoveredMeansStopped ==
  ASSUME ~LateInitialization PROVE Spec => NothingLivesAfterRecovery
<1>1. TypeInv /\ AloneInv /\ EvidenceInv /\ [Next]_vars
        => [phase = "commit" /\ phase' = "idle" /\ faults' = faults => alive = {}]_vars
  <2>. SUFFICES ASSUME TypeInv, EvidenceInv, phase = "commit" PROVE alive = {}
    OBVIOUS
  <2> QED BY DEF TypeInv, LockTypes, SystemTypes, EvidenceInv, Evident, Launching
<1> QED BY <1>1, Evidence, PTL DEF Spec, NothingLivesAfterRecovery

-----------------------------------------------------------------------------
(* Repair                                                                  *)

(* Documents with which an authority is valid and resolved.                *)
Fits(doc) ==
  /\ \A d \in Doc : Valid(doc[d]) \/ (doc[d] = Missing /\ d \notin Required)
  /\ doc["gate"].mode # "enabled"
  /\ \A l \in Ledger : Unresolved(doc[l]) =>
       doc[l].n # 0 /\ doc[l].n # job[l] /\ UnresolvedIn(found) # {}

(* Every copy holds its document, or is about to.                          *)
Mends(doc) ==
  /\ \A p \in Puts(writes) : p.doc = doc[p.at[2]]
  /\ \A c \in Copy : file[c] = doc[c[2]] \/ \E p \in Puts(writes) : p.at = c

Mending == ~stray /\ \E doc \in [Doc -> Sound] : Fits(doc) /\ Mends(doc)

MendInv == phase = "write" /\ ~tampered => Mending

(* A recovery that repairs has what it needs for every document.           *)
LEMMA RepairMends ==
  ASSUME TypeInv, ~PlanRefused, ~MustSalvage, UNCHANGED <<file, stray, job>>,
         writes' = Repairs, found' = Ownership,
         \A l \in UnresolvedIn(Ownership) : job[l] # Ownership[l].n
  PROVE  Mending'
<1>1. PICK doc \in [Doc -> Sound] : \A d \in Doc : doc[d] = Selected(d)
  <2>. [d \in Doc |-> Selected(d)] \in [Doc -> Sound]
    BY ReadsAre
  <2> QED OBVIOUS
<1>2. ASSUME NEW d \in Doc, ~Valid(Selected(d))
      PROVE  /\ Primary(d) = Missing /\ Backup(d) = Missing /\ d \notin Required
             /\ Selected(d) = Missing
  BY <1>2 DEF MustSalvage, Lost, Selected
<1>3. Valid(Selected("gate")) /\ Selected("gate").mode # "enabled" /\ "gate" \in Doc
  BY <1>2, Copies DEF PlanRefused
<1>4. ASSUME NEW l \in Ledger, Unresolved(Selected(l))
      PROVE  Selected(l).n # 0 /\ Selected(l).n # job[l] /\ UnresolvedIn(Ownership) # {}
  <2>1. l \in Doc /\ Selected(l) \in Sound /\ Valid(Selected(l))
    BY <1>2, <1>4, Copies, ReadsAre, Documents
  <2>2. l \in UnresolvedIn(Ownership) /\ Ownership[l] = Selected(l)
    BY <1>4, <2>1 DEF UnresolvedIn, Ownership, Unresolved
  <2> QED BY <1>4, <2>1, <2>2, Documents
<1>5. Fits(doc)'
  <2>1. \A d \in Doc : Valid(doc[d]) \/ (doc[d] = Missing /\ d \notin Required)
    BY <1>1, <1>2
  <2>2. doc["gate"].mode # "enabled"
    BY <1>1, <1>3
  <2>3. \A l \in Ledger : Unresolved(doc[l]) =>
          doc[l].n # 0 /\ doc[l].n # job'[l] /\ UnresolvedIn(found') # {}
    BY <1>1, <1>4, Copies
  <2> QED BY <2>1, <2>2, <2>3 DEF Fits, Valid, Missing, Unwritten, Unresolved, UnresolvedIn
<1>6. \A p \in Puts(writes') : p.doc = doc[p.at[2]]
  <2>1. ASSUME NEW p \in Puts(Repairs) PROVE p.doc = Selected(p.at[2]) /\ p.at[2] \in Doc
    <3>1. Repairs \in Seq(Entry) /\ p.doc = Selected(p.at[2])
      BY RepairsAre
    <3>2. p \in Entry
      BY <3>1, PutsAre
    <3> QED BY <3>1, <3>2, Copies DEF Entry
  <2> QED BY <1>1, <2>1
<1>7. ASSUME NEW c \in Copy PROVE file[c] = doc[c[2]] \/ \E p \in Puts(writes') : p.at = c
  <2>1. PICK d \in Doc : /\ d = c[2]
                         /\ c = <<"primary", d>> \/ (c = <<"backup", d>> /\ d \in Backed)
    BY Copies
  <2>2. CASE d \in ToRestore
    BY <2>1, <2>2, RepairsAre
  <2>3. CASE Valid(Primary(d))
    <3>1. Selected(d) = Primary(d)
      BY <2>3 DEF Selected
    <3>2. CASE c = <<"primary", d>>
      BY <1>1, <2>1, <3>1, <3>2 DEF Primary
    <3>3. CASE c = <<"backup", d>> /\ d \in Backed
      <4>1. Backup(d) = file[c]
        BY <3>3 DEF Backup
      <4>2. CASE Backup(d) = Primary(d)
        BY <1>1, <2>1, <3>1, <4>1, <4>2
      <4>3. CASE Backup(d) # Primary(d)
        <5>1. d \in ToRefresh
          BY <2>3, <3>3, <4>3 DEF ToRefresh
        <5> QED BY <3>3, <5>1, RepairsAre
      <4> QED BY <4>2, <4>3
    <3> QED BY <2>1, <3>2, <3>3
  <2>4. CASE d \notin ToRestore /\ ~Valid(Primary(d))
    <3>1. ~Valid(Selected(d))
      BY <2>4 DEF ToRestore, Selected
    <3>2. Primary(d) = Missing /\ Backup(d) = Missing /\ doc[d] = Missing
      BY <1>1, <1>2, <3>1
    <3> QED BY <2>1, <3>2 DEF Primary, Backup
  <2> QED BY <2>2, <2>3, <2>4
<1>8. ~stray'
  BY DEF MustSalvage
<1> QED BY <1>5, <1>6, <1>7, <1>8 DEF Mending, Mends

(* So has a salvage.                                                       *)
LEMMA SalvageMends ==
  ASSUME TypeInv, UNCHANGED <<file, job, found>>, ~stray', \A c \in Copy : file[c] = Missing,
         writes' = BlankWrites
  PROVE  Mending'
<1>1. PICK doc \in [Doc -> Sound] :
             \A d \in Doc : doc[d] = IF d \in Required THEN Blank(d) ELSE Missing
  <2>. [d \in Doc |-> IF d \in Required THEN Blank(d) ELSE Missing] \in [Doc -> Sound]
    BY Fixed, Documents
  <2> QED OBVIOUS
<1>2. \A d \in Doc : /\ Valid(doc[d]) \/ (doc[d] = Missing /\ d \notin Required)
                     /\ ~Unresolved(doc[d]) /\ (d = "gate" => doc[d].mode # "enabled")
  BY <1>1, Fixed, Documents, Copies
<1>3. Fits(doc)'
  <2>1. "gate" \in Doc /\ Ledger \subseteq Doc
    BY Copies
  <2> QED BY <1>2, <2>1 DEF Fits, Valid, Missing, Unwritten, Unresolved
<1>4. \A p \in Puts(writes') : p.doc = doc[p.at[2]]
  BY <1>1, BlanksAre, Copies
<1>5. \A c \in Copy : file'[c] = doc[c[2]] \/ \E p \in Puts(writes') : p.at = c
  BY <1>1, BlanksAre, Copies
<1> QED BY <1>3, <1>4, <1>5 DEF Mending, Mends

(* A Job that ends, or a file that is replaced, takes nothing away.        *)
LEMMA MendingLasts ==
  ASSUME TypeInv, Mending, UNCHANGED <<stray, found>>,
         \A l \in Ledger : job'[l] \in {job[l], 0},
         \/ UNCHANGED <<file, writes>>
         \/ /\ writes # <<>> /\ writes' = Tail(writes)
            /\ file' = [file EXCEPT ![Head(writes).at] = Head(writes).doc]
  PROVE  Mending'
<1>1. PICK doc \in [Doc -> Sound] : Fits(doc) /\ Mends(doc)
  BY DEF Mending
<1>2. Fits(doc)'
  <2>1. /\ \A d \in Doc : Valid(doc[d]) \/ (doc[d] = Missing /\ d \notin Required)
        /\ doc["gate"].mode # "enabled"
        /\ \A l \in Ledger : Unresolved(doc[l]) =>
             doc[l].n # 0 /\ doc[l].n # job'[l] /\ UnresolvedIn(found') # {}
    BY <1>1 DEF Fits
  <2> QED BY <2>1 DEF Fits, Valid, Missing, Unwritten, Unresolved, UnresolvedIn
<1>3. Mends(doc)'
  <2>1. CASE UNCHANGED <<file, writes>>
    BY <1>1, <2>1 DEF Mends
  <2>2. CASE /\ writes # <<>> /\ writes' = Tail(writes)
             /\ file' = [file EXCEPT ![Head(writes).at] = Head(writes).doc]
    <3> DEFINE put == Head(writes)
    <3>1. /\ put \in Puts(writes) /\ put.at \in Copy
          /\ Puts(writes) = {put} \union Puts(Tail(writes))
      BY <2>2, HeadOf DEF TypeInv, QueueTypes
    <3>2. put.doc = doc[put.at[2]]
      BY <1>1, <3>1 DEF Mends
    <3>3. /\ file \in [Copy -> Sound] /\ file' = [file EXCEPT ![put.at] = put.doc]
          /\ Puts(writes') = Puts(Tail(writes))
      BY <2>2 DEF TypeInv, FileTypes
    <3>. HIDE DEF put
    <3>4. \A p \in Puts(writes') : p.doc = doc[p.at[2]]
      BY <1>1, <3>1, <3>3 DEF Mends
    <3>5. \A c \in Copy : file'[c] = doc[c[2]] \/ \E p \in Puts(writes') : p.at = c
      BY <1>1, <3>1, <3>2, <3>3 DEF Mends
    <3> QED BY <3>4, <3>5 DEF Mends
  <2> QED BY <2>1, <2>2
<1> QED BY <1>2, <1>3 DEF Mending

(* Nothing is repaired in the beginning.                                   *)
LEMMA MendBegins == Init => MendInv
BY DEF Init, MendInv

(* A recovery begins with all it needs, and nobody gets in its way.        *)
LEMMA MendStays ==
  ASSUME TypeInv, AloneInv, EvidenceInv, MendInv, [Next]_vars
  PROVE  MendInv'
<1>. SUFFICES ASSUME phase' = "write", ~tampered' PROVE Mending'
  BY DEF MendInv
<1>1. ASSUME phase = "write" PROVE holder = "recovery" /\ fresh = <<>> /\ ~resident
  BY <1>1 DEF TypeInv, LockTypes, EvidenceInv, AloneInv
<1>2. ASSUME phase = "write" PROVE Mending \/ tampered
  BY <1>2 DEF MendInv
<1>3. ASSUME phase = "write", UNCHANGED <<file, stray, job, found, tampered, writes>>
      PROVE  Mending'
  BY <1>2, <1>3, MendingLasts
<1>4. CASE WriteNext
  <2>1. /\ phase = "write" /\ UNCHANGED <<stray, job, found, tampered>>
        /\ writes # <<>> /\ writes' = Tail(writes)
        /\ file' = [file EXCEPT ![Head(writes).at] = Head(writes).doc]
    BY <1>4 DEF WriteNext, recovery, system
  <2> QED BY <1>2, <2>1, MendingLasts
<1>5. CASE WriteFails
  BY <1>1, <1>5 DEF WriteFails
<1>6. CASE (\E c \in Copy : Damage(c)) \/ StrayFile
  BY <1>6 DEF Damage, StrayFile
<1>7. CASE Creations
  <2>1. phase = "write"
    BY <1>7 DEF Creations, Initialize, InitializeNext, InitializeFails, recovery
  <2>2. UNCHANGED <<file, stray, job, found, tampered, writes>>
    BY <1>1, <1>7, <2>1 DEF Creations, Initialize, InitializeNext, InitializeFails, recovery,
       disk, system
  <2> QED BY <1>3, <2>1, <2>2
<1>8. CASE Commands
  BY <1>1, <1>8, CommandsKeep
<1>9. ASSUME NEW l \in Ledger, Launches(l) PROVE Mending'
  <2>1. phase = "write" /\ UNCHANGED <<file, stray, found, tampered>>
    BY <1>9, LaunchesKeep
  <2>2. holder = "recovery"
    BY <1>1, <2>1
  <2>3. UNCHANGED writes /\ \A k \in Ledger : job'[k] \in {job[k], 0}
    BY <1>9, <2>2 DEF Launches, Arm, Start, Confirm, Unconfirmed, MarkClean, MarkUncertain, JobEnds,
       Locks, Ledger, TypeInv, SystemTypes
  <2> QED BY <1>2, <2>1, <2>3, MendingLasts
<1>10. CASE ResidentStarts
  BY <1>3, <1>10 DEF ResidentStarts, disk, recovery
<1>11. CASE Claim
  BY <1>1, <1>11 DEF Claim, recovery
<1>12. CASE Recovers
  <2>1. CASE BeginRecovery
    <3>1. UnresolvedIn(Ownership) = {} /\ Prepare /\ ~MustSalvage /\ ~PlanRefused
      BY <2>1 DEF BeginRecovery, Prepare
    <3>2. writes' = Repairs /\ found' = Ownership /\ UNCHANGED <<file, stray, job>>
      BY <2>1, <3>1 DEF BeginRecovery, Prepare, disk, system
    <3> QED BY <3>1, <3>2, RepairMends
  <2>2. CASE JobsAbsent
    <3>1. /\ ~MustSalvage /\ ~PlanRefused /\ writes' = Repairs /\ found' = Ownership
          /\ found = Ownership /\ UNCHANGED <<file, stray, job>>
      BY <2>2 DEF JobsAbsent, Prepare, disk, system
    <3>2. \A l \in UnresolvedIn(Ownership) : job[l] # Ownership[l].n
      BY <2>2, <3>1 DEF JobsAbsent
    <3> QED BY <3>1, <3>2, RepairMends
  <2>3. CASE CreateClean
    <3>1. /\ \A c \in Copy : file[c] = Missing
          /\ UNCHANGED <<file, job, found>> /\ ~stray' /\ writes' = BlankWrites
      BY <2>3 DEF CreateClean, Present, BlankWrites, disk, system
    <3> QED BY <3>1, SalvageMends
  <2>4. CASE ClearNext \/ ClearStray \/ CommitRecovery
    BY <2>4 DEF ClearNext, ClearStray, CommitRecovery, recovery
  <2>5. CASE WaitFails \/ RepairFails \/ Recovered \/ RecoveryDies
    BY <2>5 DEF WaitFails, RepairFails, Recovered, RecoveryDies, Return
  <2> QED BY <1>12, <2>1, <2>2, <2>3, <2>4, <2>5 DEF Recovers
<1>13. CASE UNCHANGED vars
  BY <1>3, <1>13 DEF vars, disk, system, recovery
<1> QED BY <1>4, <1>5, <1>6, <1>7, <1>8, <1>9, <1>10, <1>11, <1>12, <1>13, NextIs

(* What a repair has written in full is valid and resolved.                *)
LEMMA MendedIsRepaired ==
  ASSUME TypeInv, Mending, writes = <<>> PROVE Repaired
<1>1. PICK doc \in [Doc -> Sound] : Fits(doc) /\ \A c \in Copy : file[c] = doc[c[2]]
  BY PutsOfNothing DEF Mending, Mends
<1>2. /\ \A d \in Doc : Primary(d) = doc[d]
      /\ Backup("child") = doc["child"]
  BY <1>1, Copies DEF Primary, Backup
<1>3. Normal
  BY <1>1, <1>2 DEF Normal, Fits, Mending
<1>4. Resolved
  <2>1. ASSUME NEW l \in Ledger, Unresolved(Primary(l))
        PROVE  UnresolvedIn(found) # {} /\ job[l] # Primary(l).n
    BY <1>1, <1>2, <2>1, Copies DEF Fits
  <2> QED BY <2>1 DEF Resolved
<1>5. Primary("gate").mode # "enabled"
  BY <1>1, <1>2, Copies DEF Fits
<1> QED BY <1>3, <1>4, <1>5 DEF Repaired

(* A recovery nothing disturbs ends up with authority it can validate and  *)
(* that owns nothing it has not found before, wherever an earlier one died *)
(* (recovery_authority.py:95-136, recovery.py:70-88).                      *)
THEOREM RepairIsEnough ==
  ASSUME ~LateInitialization PROVE Spec => RepairSuffices
<1>1. TypeInv /\ AloneInv /\ EvidenceInv /\ MendInv /\ [Next]_vars => MendInv'
  BY MendStays
<1>2. TypeInv /\ MendInv /\ [Next]_vars
        => [phase = "write" /\ phase' = "idle" /\ faults' = faults => tampered]_vars
  <2>. SUFFICES ASSUME TypeInv, MendInv, Next, phase = "write", phase' = "idle",
                       faults' = faults, ~tampered
                PROVE  FALSE
    BY DEF vars
  <2>1. faults \in Nat /\ holder = "recovery"
    BY BoundsAssumption DEF TypeInv, BudgetTypes, LockTypes
  <2>2. RepairFails
    <3>1. CASE WriteFails
      BY <2>1, <3>1 DEF WriteFails
    <3>2. CASE WriteNext \/ (\E c \in Copy : Damage(c)) \/ StrayFile \/ Creations
      BY <3>2 DEF WriteNext, Damage, StrayFile, Creations, Initialize, InitializeNext,
         InitializeFails, recovery
    <3>3. CASE Commands \/ (\E l \in Ledger : Launches(l)) \/ ResidentStarts \/ Claim
      BY <3>3, CommandsKeep, LaunchesKeep DEF ResidentStarts, Claim, recovery
    <3>4. CASE Recovers
      BY <3>4 DEF Recovers, BeginRecovery, JobsAbsent, WaitFails, ClearNext, ClearStray,
         CreateClean, CommitRecovery, Recovered, RecoveryDies, recovery
    <3> QED BY <3>1, <3>2, <3>3, <3>4, NextIs
  <2>3. Repaired
    BY <2>2, MendedIsRepaired DEF MendInv, RepairFails
  <2> QED BY <2>2, <2>3 DEF RepairFails
<1> QED BY <1>1, <1>2, MendBegins, Evidence, PTL DEF Spec, RepairSuffices

=============================================================================
