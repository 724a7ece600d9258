----------------------------- MODULE SessionProofs -----------------------------
(***************************************************************************)
(* What one builder promises over its life, for every set of handles, files *)
(* and users, and however many entries and archives there are.              *)
(***************************************************************************)
EXTENDS Session, SequenceTheorems, TLAPS

Paths   == {f.path : f \in Files}
Members == [path : Paths, inode : {f.inode : f \in Files}, uid : Uids,
            whole : BOOLEAN,
            user : UserNames \cup {None}, link : Paths \cup {None}]

\* What an error may name.
Named == Paths \cup {None, Elsewhere}

TypeOK ==
  /\ passwd \in [Uids -> UserNames \cup {None}]
  /\ handle \in Handles \cup {None}
  /\ record \in Seq(Members) /\ sent \in [Handles -> Seq(Members)]
  /\ given \in [Handles -> Seq(Members)]
  /\ err \in [type : {"ok", "warn", "fatal"}, path : Named, archive : Nat]
  /\ users \in [Uids -> UserNames \cup {None, Unasked}]
  /\ links \in [Inodes -> Paths \cup {None}]
  /\ walk \in Seq(Files)
  /\ reply \in {"none", "returned", "croaked", "delayed",
                "destroyed"} \X Named
  /\ archive \in Nat /\ begun \in Nat
  /\ finished \in BOOLEAN /\ disturbed \in Nat

\* A walk has a handle and nothing to answer yet; after finish() there is
\* none, and nothing is left to send.
WalkInv ==
  /\ walk # <<>> => handle \in Handles /\ reply[1] = "none"
  /\ finished => walk = <<>> /\ record = <<>>

\* Once a member is begun, what the error object tells is of this archive.
BlameInv == begun > 0 /\ err.type # "ok" => err.archive = archive

\* Each name given out is the one remembered.
UserInv ==
  \A h \in Handles : \A i \in DOMAIN given[h] :
    /\ users[given[h][i].uid] # Unasked
    /\ given[h][i].user = users[given[h][i].uid]

\* Each file with several links that was archived is remembered.
LinkInv ==
  "preserve_hardlinks" \in options =>
    \A h \in Handles : \A i \in DOMAIN given[h] :
      given[h][i].inode # None => links[given[h][i].inode] # None

\* No handle is given the contents of a file with several links twice.
GivenOnce ==
  "preserve_hardlinks" \in options =>
    \A h \in Handles : \A i, j \in DOMAIN given[h] :
      /\ given[h][i].inode # None /\ given[h][i].inode = given[h][j].inode
      /\ given[h][i].link = None /\ given[h][j].link = None
      => i = j

IInv == /\ TypeOK /\ WalkInv /\ BlameInv
        /\ UserInv /\ LinkInv /\ GivenOnce /\ ContentsOnce /\ Delivered

LEMMA InitIInv == Init => IInv
PROOF
<1>1. SUFFICES ASSUME Init PROVE IInv
  OBVIOUS
<1>2. TypeOK
  BY <1>1 DEF Init, TypeOK, Named
<1>3. WalkInv /\ BlameInv /\ UserInv /\ LinkInv /\ GivenOnce /\ Delivered
  BY <1>1 DEF Init, WalkInv, BlameInv, UserInv, LinkInv, GivenOnce, Delivered
<1>4. ContentsOnce
  BY <1>1 DEF Init, ContentsOnce, Stream
<1>5. QED
  BY <1>2, <1>3, <1>4 DEF IInv

-----------------------------------------------------------------------------
\* The next entry of a walk.
LEMMA NextEntry ==
  ASSUME TypeOK, walk # <<>>
  PROVE  /\ Head(walk) \in Files /\ Head(walk).path \in Paths
         /\ Head(walk).path # None
         /\ Head(walk).uid \in Uids
         /\ Head(walk).inode # None => Head(walk).inode \in Inodes
         /\ Tail(walk) \in Seq(Files)
BY SessionAssumption DEF TypeOK, Paths, Uids, Inodes

\* What the caches answer, and what they remember of it.
LEMMA Answers ==
  ASSUME TypeOK, NEW f \in Files
  PROVE  /\ user_lookup(f.uid) \in UserNames \cup {None}
         /\ user_lookup(f.uid) # Unasked
         /\ hardlink_lookup(f) \in Paths \cup {None}
         /\ {Member(f), Remains(f)} \subseteq Members
PROOF
<1>1. f.uid \in Uids /\ f.path \in Paths
  BY DEF Uids, Paths
<1>2. user_lookup(f.uid) \in UserNames \cup {None} /\ user_lookup(f.uid) # Unasked
  BY <1>1, SessionAssumption DEF TypeOK, user_lookup, Unasked
<1>3. hardlink_lookup(f) \in Paths \cup {None}
  <2>1. CASE IsHardlink(f)
    <3>1. f.inode \in Inodes
      BY <2>1 DEF IsHardlink, Inodes
    <3>2. QED
      BY <2>1, <3>1 DEF hardlink_lookup, TypeOK
  <2>2. CASE ~IsHardlink(f)
    BY <2>2 DEF hardlink_lookup
  <2>3. QED
    BY <2>1, <2>2
<1>4. {Member(f), Remains(f)} \subseteq Members
  <2>1. Member(f) \in Members
    BY <1>1, <1>2, <1>3 DEF Member, Members
  <2>2. Remains(f) \in Members
    BY <2>1 DEF Remains, Members
  <2>3. QED
    BY <2>1, <2>2
<1>5. QED
  BY <1>2, <1>3, <1>4

LEMMA Remembered ==
  ASSUME TypeOK, NEW f \in Files, LookUp(f)
  PROVE  /\ users' \in [Uids -> UserNames \cup {None, Unasked}]
         /\ users'[f.uid] = user_lookup(f.uid)
         /\ \A u \in Uids : users[u] # Unasked => users'[u] = users[u]
         /\ links' \in [Inodes -> Paths \cup {None}]
         /\ IsHardlink(f) => links'[f.inode] # None
         /\ \A i \in Inodes : links[i] # None => links'[i] # None
PROOF
<1>1. f.uid \in Uids /\ f.path \in Paths /\ f.path # None
  BY SessionAssumption DEF Uids, Paths
<1>2. users' = [users EXCEPT ![f.uid] = user_lookup(f.uid)]
  BY DEF LookUp
<1>3. users' \in [Uids -> UserNames \cup {None, Unasked}]
  BY <1>1, <1>2, Answers DEF TypeOK
<1>4. users'[f.uid] = user_lookup(f.uid)
  BY <1>1, <1>2 DEF TypeOK
<1>5. \A u \in Uids : users[u] # Unasked => users'[u] = users[u]
  BY <1>1, <1>2 DEF TypeOK, user_lookup
<1>6. CASE IsHardlink(f) /\ links[f.inode] = None
  <2>1. f.inode \in Inodes /\ links' = [links EXCEPT ![f.inode] = f.path]
    BY <1>6 DEF IsHardlink, Inodes, LookUp
  <2>2. QED
    BY <1>1, <1>3, <1>4, <1>5, <2>1 DEF TypeOK
<1>7. CASE ~(IsHardlink(f) /\ links[f.inode] = None)
  <2>1. links' = links
    BY <1>7 DEF LookUp
  <2>2. QED
    BY <1>3, <1>4, <1>5, <1>7, <2>1 DEF TypeOK
<1>8. QED
  BY <1>6, <1>7

-----------------------------------------------------------------------------
\* Both tell of the file what the caches answer.
LEMMA Told ==
  ASSUME NEW f \in Files, NEW m \in {Member(f), Remains(f)}
  PROVE  /\ m.inode = f.inode /\ m.uid = f.uid
         /\ m.user = user_lookup(f.uid) /\ m.link = hardlink_lookup(f)
BY DEF Member, Remains

\* All a step does to the caches and to what was given: nothing, a lookup for an
\* entry, or a lookup and its member, whole or not.
LEMMA CacheSteps ==
  ASSUME IInv, [Next]_vars
  PROVE  /\ options' = options
         /\ \/ UNCHANGED <<users, links, given>>
            \/ walk # <<>> /\ LookUp(Head(walk)) /\ UNCHANGED given
            \/ /\ walk # <<>> /\ handle \in Handles /\ LookUp(Head(walk))
               /\ \E m \in {Member(Head(walk)), Remains(Head(walk))} :
                    given' = [given EXCEPT ![handle] = Append(@, m)]
PROOF
<1>1. CASE Call
  BY <1>1 DEF Call, SetHandle, NoHandle, ArchiveAs, Flush, FlushFails, Finish,
    Destroy, world, output, caches, history
<1>2. CASE ArgumentFails \/ EntryFails \/ FlushForRoom
  BY <1>2 DEF ArgumentFails, EntryFails, FlushForRoom, world, output, caches,
    history
<1>3. CASE Write \/ WriteUnopened
  BY <1>3 DEF Write, WriteUnopened, Archived, PutOut, Begin, world, IInv, WalkInv
<1>4. CASE Fails
  <2>1. CASE WriteFlushFails
    BY <2>1 DEF WriteFlushFails, PutOut, Begin, world, IInv, WalkInv
  <2>2. CASE BodyFlushFails \/ LongNameFlushFails \/ WriteBroken
    BY <2>2 DEF BodyFlushFails, LongNameFlushFails, WriteBroken, PutOut, Begin, world,
      IInv, WalkInv
  <2>3. CASE WriteRefused \/ WriteFatal
    BY <2>3 DEF WriteRefused, WriteFatal, Begin, world, caches
  <2>4. QED
    BY <1>4, <2>1, <2>2, <2>3 DEF Fails
<1>5. CASE \E u \in Uids : Rename(u)
  BY <1>5 DEF Rename, caches, history
<1>6. CASE UNCHANGED vars
  BY <1>6 DEF vars
<1>7. QED
  BY <1>1, <1>2, <1>3, <1>4, <1>5, <1>6 DEF Next, Step

\* What one more member does to the sequence of a handle.
LEMMA Appended ==
  ASSUME TypeOK, handle \in Handles, NEW m \in Members,
         given' = [given EXCEPT ![handle] = Append(@, m)],
         NEW h \in Handles, NEW i \in DOMAIN given'[h]
  PROVE  /\ given'[h] \in Seq(Members)
         /\ \/ i \in DOMAIN given[h] /\ given'[h][i] = given[h][i]
            \/ h = handle /\ i = Len(given[h]) + 1 /\ given'[h][i] = m
PROOF
<1>1. given[h] \in Seq(Members)
  BY DEF TypeOK
<1>2. CASE h = handle
  <2>1. given'[h] = Append(given[h], m)
    BY <1>2 DEF TypeOK
  <2>2. QED
    BY <1>1, <1>2, <2>1
<1>3. CASE h # handle
  <2>1. given'[h] = given[h]
    BY <1>3 DEF TypeOK
  <2>2. QED
    BY <1>1, <2>1
<1>4. QED
  BY <1>2, <1>3

\* The members of a handle have users and inodes the caches know.
LEMMA GivenTypes ==
  ASSUME TypeOK, NEW h \in Handles, NEW i \in DOMAIN given[h]
  PROVE  /\ given[h][i] \in Members
         /\ given[h][i].uid \in Uids
         /\ given[h][i].inode # None => given[h][i].inode \in Inodes
PROOF
<1>1. given[h] \in Seq(Members)
  BY DEF TypeOK
<1>2. given[h][i] \in Members
  BY <1>1
<1>3. QED
  BY <1>2 DEF Members, Inodes

LEMMA CacheInvs ==
  ASSUME IInv, [Next]_vars
  PROVE  UserInv' /\ LinkInv' /\ GivenOnce'
PROOF
<1> DEFINE f == Head(walk)
<1>1. TypeOK
  BY DEF IInv
<1>2. CASE UNCHANGED <<users, links, given>>
  BY <1>2, CacheSteps DEF IInv, UserInv, LinkInv, GivenOnce
<1>3. CASE walk # <<>> /\ LookUp(f) /\ UNCHANGED given
  <2>1. f \in Files
    BY <1>1, <1>3, NextEntry
  <2>2. /\ \A u \in Uids : users[u] # Unasked => users'[u] = users[u]
        /\ \A i \in Inodes : links[i] # None => links'[i] # None
    BY <1>1, <1>3, <2>1, Remembered
  <2>3. UserInv'
    BY <1>1, <1>3, <2>2, GivenTypes DEF IInv, UserInv
  <2>4. LinkInv'
    BY <1>1, <1>3, <2>2, GivenTypes, CacheSteps DEF IInv, LinkInv
  <2>5. GivenOnce'
    BY <1>3, CacheSteps DEF IInv, GivenOnce
  <2>6. QED
    BY <2>3, <2>4, <2>5
<1>4. ASSUME walk # <<>>, handle \in Handles, LookUp(f),
             NEW m \in {Member(f), Remains(f)},
             given' = [given EXCEPT ![handle] = Append(@, m)]
      PROVE  UserInv' /\ LinkInv' /\ GivenOnce'
  <2>0. f \in Files /\ f.uid \in Uids
    BY <1>1, <1>4, NextEntry
  <2>1. /\ m \in Members
        /\ m.inode = f.inode /\ m.uid = f.uid
        /\ m.user = user_lookup(f.uid) /\ m.link = hardlink_lookup(f)
    BY <1>1, <2>0, Answers, Told
  <2>2. /\ \A u \in Uids : users[u] # Unasked => users'[u] = users[u]
        /\ \A i \in Inodes : links[i] # None => links'[i] # None
        /\ users'[f.uid] = user_lookup(f.uid)
        /\ IsHardlink(f) => links'[f.inode] # None
    BY <1>1, <1>4, <2>0, Remembered
  <2>3. ASSUME NEW h \in Handles, NEW i \in DOMAIN given'[h]
        PROVE  \/ i \in DOMAIN given[h] /\ given'[h][i] = given[h][i]
               \/ /\ h = handle /\ i = Len(given[h]) + 1
                  /\ given'[h][i] = m
    BY <1>1, <1>4, <2>1, Appended
  <2>4. UserInv'
    <3>1. SUFFICES ASSUME NEW h \in Handles, NEW i \in DOMAIN given'[h]
                   PROVE  /\ users'[given'[h][i].uid] # Unasked
                          /\ given'[h][i].user = users'[given'[h][i].uid]
      BY DEF UserInv
    <3>2. CASE i \in DOMAIN given[h] /\ given'[h][i] = given[h][i]
      BY <1>1, <2>2, <3>2, GivenTypes DEF IInv, UserInv
    <3>3. CASE given'[h][i] = m
      BY <1>1, <2>0, <2>1, <2>2, <3>3, Answers
    <3>4. QED
      BY <2>3, <3>2, <3>3
  <2>5. LinkInv'
    <3>1. SUFFICES ASSUME "preserve_hardlinks" \in options, NEW h \in Handles,
                          NEW i \in DOMAIN given'[h], given'[h][i].inode # None
                   PROVE  links'[given'[h][i].inode] # None
      BY CacheSteps DEF LinkInv
    <3>2. CASE i \in DOMAIN given[h] /\ given'[h][i] = given[h][i]
      BY <1>1, <2>2, <3>1, <3>2, GivenTypes DEF IInv, LinkInv
    <3>3. CASE given'[h][i] = m
      BY <2>1, <2>2, <3>1, <3>3 DEF IsHardlink
    <3>4. QED
      BY <2>3, <3>2, <3>3
  <2>6. GivenOnce'
    <3>1. SUFFICES ASSUME "preserve_hardlinks" \in options, NEW h \in Handles,
                          NEW i \in DOMAIN given'[h], NEW j \in DOMAIN given'[h],
                          given'[h][i].inode # None,
                          given'[h][i].inode = given'[h][j].inode,
                          given'[h][i].link = None, given'[h][j].link = None
                   PROVE  i = j
      BY CacheSteps DEF GivenOnce
    <3>2. ASSUME NEW k \in DOMAIN given[h], given[h][k].inode = f.inode,
                 m.inode # None, m.link = None
          PROVE  FALSE
      BY <2>1, <3>1, <3>2 DEF IInv, LinkInv, IsHardlink, hardlink_lookup
    <3>3. CASE /\ i \in DOMAIN given[h] /\ given'[h][i] = given[h][i]
               /\ j \in DOMAIN given[h] /\ given'[h][j] = given[h][j]
      BY <3>1, <3>3 DEF IInv, GivenOnce
    <3>4. CASE /\ i \in DOMAIN given[h] /\ given'[h][i] = given[h][i]
               /\ given'[h][j] = m
      BY <2>1, <3>1, <3>2, <3>4
    <3>5. CASE /\ j \in DOMAIN given[h] /\ given'[h][j] = given[h][j]
               /\ given'[h][i] = m
      BY <2>1, <3>1, <3>2, <3>5
    <3>6. QED
      BY <2>3, <3>3, <3>4, <3>5
  <2>7. QED
    BY <2>4, <2>5, <2>6
<1>5. QED
  BY <1>2, <1>3, <1>4, CacheSteps

-----------------------------------------------------------------------------
\* A flush moves members from the record to the handle; one that fails sends some
\* of those the step leaves in the record.
LEMMA FlushTypes ==
  ASSUME TypeOK, handle \in Handles,
         Flushed \/ (FlushFailed /\ record' \in Seq(Members))
  PROVE  /\ record' \in Seq(Members) /\ sent' \in [Handles -> Seq(Members)]
PROOF
<1>1. record \in Seq(Members) /\ sent[handle] \in Seq(Members)
  BY DEF TypeOK
<1>2. CASE Flushed
  <2>1. sent[handle] \o record \in Seq(Members) /\ record' \in Seq(Members)
    BY <1>1, <1>2, ConcatProperties DEF Flushed
  <2>2. QED
    BY <1>2, <2>1 DEF Flushed, TypeOK
<1>3. CASE FlushFailed /\ record' \in Seq(Members)
  <2>1. PICK n \in 0..Len(record') :
          sent' = [sent EXCEPT ![handle] = @ \o SubSeq(record', 1, n)]
    BY <1>3 DEF FlushFailed
  <2>2. SubSeq(record', 1, n) \in Seq(Members)
    BY <1>3
  <2>3. sent[handle] \o SubSeq(record', 1, n) \in Seq(Members)
    BY <1>1, <2>2, ConcatProperties
  <2>4. QED
    BY <1>1, <1>3, <2>1, <2>3 DEF TypeOK
<1>4. QED
  BY <1>2, <1>3

\* A step of the walk but a flush: what it does to the walk and to the reply.
LEMMA WalkTypes ==
  ASSUME TypeOK, walk # <<>>, err' \in [type : {"ok", "warn", "fatal"},
                                      path : Named, archive : Nat],
         GoOn \/ GiveUp(Head(walk).path)
  PROVE  /\ walk' \in Seq(Files)
         /\ reply' \in {"none", "returned", "croaked", "delayed",
                       "destroyed"} \X Named
PROOF
<1>1. Tail(walk) \in Seq(Files) /\ << >> \in Seq(Files)
  BY NextEntry
<1>2. CASE GoOn
  BY <1>1, <1>2 DEF GoOn, TypeOK, Named
<1>3. CASE GiveUp(Head(walk).path)
  <2>1. \E p \in Named : reply' = <<"croaked", p>>
    BY <1>3, NextEntry DEF GiveUp, Croak, Named
  <2>2. QED
    BY <1>1, <1>3, <2>1 DEF GiveUp
<1>4. QED
  BY <1>2, <1>3

\* A member put out, whole or not.
LEMMA PutOutTypes ==
  ASSUME TypeOK, handle \in Handles, NEW m \in Members, PutOut(m)
  PROVE  record' \in Seq(Members) /\ given' \in [Handles -> Seq(Members)]
BY AppendProperties DEF PutOut, TypeOK

LEMMA ErrTypes ==
  ASSUME TypeOK
  PROVE  /\ b_error_clear(err) \in [type : {"ok", "warn", "fatal"},
                                   path : Named, archive : Nat]
         /\ b_error_reset(err) \in [type : {"ok", "warn", "fatal"},
                                   path : Named, archive : Nat]
         /\ b_error_clear(err).type = "ok" /\ b_error_clear(err).path = None
         /\ b_error_reset(err).type = err.type
         /\ b_error_reset(err).archive = err.archive
         /\ \A e, path, type :
              path \in Named /\ type \in {"warn", "fatal"} =>
                b_error_set(e, type, path) \in [type : {"ok", "warn", "fatal"},
                                       path : Named, archive : Nat]
BY DEF TypeOK, b_error_clear, b_error_reset, b_error_set, Named

\* What disturbs a stream is counted: it is not clean any more.
LEMMA DisturbedOnce ==
  ASSUME disturbed \in Nat, Disturb
  PROVE  disturbed' \in Nat /\ ~Clean'
BY DEF Disturb, Clean

\* The step preserves the types: the calls, the steps of a walk, the users.
LEMMA NextTypeOK ==
  ASSUME IInv, [Next]_vars
  PROVE  TypeOK'
PROOF
<1>0. TypeOK /\ (walk # <<>> => handle \in Handles)
  BY DEF IInv, WalkInv
<1>1. ASSUME NEW h \in Handles, SetHandle(h)
      PROVE  TypeOK'
  BY <1>0, <1>1 DEF SetHandle, Disturb, world, output, caches, TypeOK
<1>2. ASSUME NoHandle
      PROVE  TypeOK'
  BY <1>0, <1>2 DEF NoHandle, Croak, world, output, caches, history, TypeOK, Named
<1>3. CASE Flush \/ FlushFails
  <2>1. record' \in Seq(Members) /\ sent' \in [Handles -> Seq(Members)]
    <3>1. handle \in Handles /\ record \in Seq(Members)
      BY <1>0, <1>3 DEF Flush, FlushFails, TypeOK
    <3>2. Flushed \/ (FlushFailed /\ record' \in Seq(Members))
      BY <1>3, <3>1 DEF Flush, FlushFails
    <3>3. QED
      BY <1>0, <3>1, <3>2, FlushTypes
  <2>2. disturbed' \in Nat
    <3>1. disturbed \in Nat
      BY <1>0 DEF TypeOK
    <3>2. UNCHANGED disturbed \/ Disturb
      BY <1>3 DEF Flush, FlushFails, FlushFailed, history
    <3>3. QED
      BY <3>1, <3>2, DisturbedOnce
  <2>3. QED
    BY <1>0, <1>3, <2>1, <2>2
    DEF Flush, FlushFails, Croak, world, caches, history, TypeOK, Named
<1>4. ASSUME Finish
      PROVE  TypeOK'
  <2>1. record' \in Seq(Members) /\ sent' \in [Handles -> Seq(Members)]
    BY <1>0, <1>4, FlushTypes DEF Finish, TypeOK
  <2>2. QED
    BY <1>0, <1>4, <2>1, ErrTypes DEF Finish, Conclude, world, caches, TypeOK
<1>5. ASSUME Destroy
      PROVE  TypeOK'
  BY <1>0, <1>5 DEF Destroy, world, caches, history, TypeOK, Named
<1>6. ASSUME NEW n \in 1..MaxEntries, NEW f \in [1..n -> Files], ArchiveAs(f)
      PROVE  TypeOK'
  <2>1. f \in Seq(Files)
    <3>1. n \in Nat
      OBVIOUS
    <3>2. QED
      BY <1>6, <3>1
  <2>2. archive' \in Nat /\ begun' \in Nat
    BY <1>0, <1>6 DEF ArchiveAs, TypeOK
  <2>3. reply' \in {"none", "returned", "croaked", "delayed",
                   "destroyed"} \X Named
    BY <1>6 DEF ArchiveAs, Named
  <2>4. /\ UNCHANGED <<passwd, handle, record, sent, err, users, links, disturbed, given>>
        /\ walk' = f /\ finished' = FALSE
    BY <1>6 DEF ArchiveAs, world, output, caches
  <2>5. QED
    BY <1>0, <2>1, <2>2, <2>3, <2>4 DEF TypeOK
<1>7. CASE ArgumentFails \/ EntryFails
  <2>1. walk # <<>> /\ (GoOn \/ GiveUp(Head(walk).path))
    BY <1>7 DEF ArgumentFails, EntryFails
  <2>2. err' \in [type : {"ok", "warn", "fatal"}, path : Named,
                 archive : Nat]
    BY <1>0, <1>7, <2>1, NextEntry, ErrTypes
    DEF ArgumentFails, EntryFails, TypeOK, Named
  <2>3. QED
    BY <1>0, <1>7, <2>1, <2>2, WalkTypes
    DEF ArgumentFails, EntryFails, world, output, caches, history, TypeOK
<1>8. ASSUME FlushForRoom
      PROVE  TypeOK'
  <2>1. record' \in Seq(Members) /\ sent' \in [Handles -> Seq(Members)]
    BY <1>0, <1>8, FlushTypes DEF FlushForRoom
  <2>2. QED
    BY <1>0, <1>8, <2>1 DEF FlushForRoom, world, caches, history, TypeOK
<1>9. CASE Write \/ WriteUnopened
  <2>1. /\ walk # <<>> /\ Archived(Head(walk))
        /\ GoOn \/ GiveUp(Head(walk).path)
    BY <1>9 DEF Write, WriteUnopened, Archived, Begin
  <2>2. err' \in [type : {"ok", "warn", "fatal"}, path : Named,
                 archive : Nat]
    BY <1>0, <1>9, <2>1, NextEntry, ErrTypes DEF Write, WriteUnopened, Named
  <2>3. Head(walk) \in Files /\ Member(Head(walk)) \in Members
    BY <1>0, <2>1, NextEntry, Answers
  <2>4. /\ users' \in [Uids -> UserNames \cup {None, Unasked}]
        /\ links' \in [Inodes -> Paths \cup {None}]
    BY <1>0, <2>1, <2>3, Remembered DEF Archived
  <2>5. /\ record' \in Seq(Members) /\ given' \in [Handles -> Seq(Members)]
    BY <1>0, <2>1, <2>3, PutOutTypes DEF Archived
  <2>6. QED
    BY <1>0, <2>1, <2>2, <2>4, <2>5, WalkTypes
    DEF Archived, Begin, world, TypeOK
<1>10. CASE \/ WriteFlushFails \/ BodyFlushFails \/ LongNameFlushFails
            \/ WriteRefused \/ WriteBroken
  <2> DEFINE f == Head(walk)
  <2>1. /\ walk # <<>> /\ Begin /\ LookUp(f)
        /\ GoOn \/ GiveUp(f.path)
    BY <1>10 DEF WriteFlushFails, BodyFlushFails, LongNameFlushFails, WriteRefused,
      WriteBroken, LeaveOut, Begin
  <2>2. /\ f \in Files /\ Remains(f) \in Members
        /\ {f.path} \cup Linkdests(f) \subseteq Named
    BY <1>0, <2>1, NextEntry, Answers DEF Named, Linkdests
  <2>3. err' \in [type : {"ok", "warn", "fatal"}, path : Named,
                 archive : Nat]
    <3>1. \/ err' = b_error_clear(err)
          \/ \E type \in {"warn", "fatal"}, path \in {f.path} \cup Linkdests(f) :
               err' = b_error_set(b_error_clear(err), type, path)
      BY <1>10 DEF WriteFlushFails, BodyFlushFails, LongNameFlushFails, WriteRefused,
        WriteBroken
    <3>2. QED
      BY <1>0, <2>2, <3>1, ErrTypes
  <2>4. /\ users' \in [Uids -> UserNames \cup {None, Unasked}]
        /\ links' \in [Inodes -> Paths \cup {None}]
    BY <1>0, <2>1, <2>2, Remembered
  <2>5. record' \in Seq(Members) /\ given' \in [Handles -> Seq(Members)]
    <3>1. UNCHANGED <<record, given>> \/ PutOut(Remains(f))
      BY <1>10 DEF WriteFlushFails, BodyFlushFails, LongNameFlushFails, WriteRefused,
        WriteBroken, output
    <3>2. QED
      BY <1>0, <2>1, <2>2, <3>1, PutOutTypes DEF TypeOK
  <2>6. sent' \in [Handles -> Seq(Members)] /\ disturbed' \in Nat
    <3>1. FlushFailed \/ UNCHANGED <<sent, disturbed>>
      BY <1>10 DEF WriteFlushFails, BodyFlushFails, LongNameFlushFails, WriteRefused,
        WriteBroken, output
    <3>2. CASE FlushFailed
      <4>1. sent' \in [Handles -> Seq(Members)]
        BY <1>0, <2>1, <2>5, <3>2, FlushTypes DEF TypeOK
      <4>2. disturbed \in Nat /\ Disturb
        BY <1>0, <3>2 DEF FlushFailed, TypeOK
      <4>3. QED
        BY <4>1, <4>2, DisturbedOnce
    <3>3. QED
      BY <1>0, <3>1, <3>2 DEF TypeOK
  <2>7. QED
    BY <1>0, <2>1, <2>3, <2>4, <2>5, <2>6, WalkTypes DEF Begin, world, TypeOK
<1>11. ASSUME WriteFatal
       PROVE  TypeOK'
  <2>1. err' \in [type : {"ok", "warn", "fatal"}, path : Named,
                 archive : Nat]
    BY <1>0, <1>11, NextEntry, ErrTypes DEF WriteFatal, Begin, Named
  <2>2. QED
    BY <1>0, <1>11, <2>1, WalkTypes
    DEF WriteFatal, Begin, world, output, caches, TypeOK
<1>12. ASSUME NEW u \in Uids, Rename(u)
       PROVE  TypeOK'
  BY <1>0, <1>12 DEF Rename, output, caches, history, TypeOK
<1>13. CASE UNCHANGED vars
  BY <1>0, <1>13 DEF vars, TypeOK
<1>14. QED
  BY <1>1, <1>2, <1>3, <1>4, <1>5, <1>6, <1>7, <1>8, <1>9, <1>10, <1>11, <1>12,
     <1>13
  DEF Next, Call, Step, Fails

-----------------------------------------------------------------------------
\* What each step of a walk leaves alone, and how it ends.
LEMMA WalkSteps ==
  ASSUME Step
  PROVE  /\ walk # <<>>
         /\ UNCHANGED <<handle, archive, finished>>
         /\ \/ GoOn
            \/ GiveUp(Head(walk).path)
            \/ UNCHANGED <<walk, reply>>
PROOF
<1>1. CASE ArgumentFails \/ EntryFails \/ FlushForRoom
  BY <1>1 DEF ArgumentFails, EntryFails, FlushForRoom, world, output, caches, history
<1>2. CASE Write \/ WriteUnopened
  BY <1>2 DEF Write, WriteUnopened, Archived, Begin, world
<1>3. CASE Fails
  BY <1>3 DEF Fails, WriteFlushFails, BodyFlushFails, LongNameFlushFails, WriteRefused,
    WriteBroken, WriteFatal, LeaveOut, Begin, world
<1>4. QED
  BY <1>1, <1>2, <1>3 DEF Step

LEMMA NextWalkInv ==
  ASSUME IInv, [Next]_vars
  PROVE  WalkInv'
PROOF
<1>0. TypeOK /\ WalkInv
  BY DEF IInv
<1>1. CASE \E h \in Handles : SetHandle(h)
  BY <1>0, <1>1 DEF SetHandle, Idle, output, WalkInv
<1>2. CASE NoHandle \/ Destroy
  BY <1>0, <1>2 DEF NoHandle, Destroy, Idle, output, history, WalkInv
<1>3. CASE Flush \/ Finish
  BY <1>0, <1>3 DEF Flush, Finish, Flushed, Idle, history, WalkInv
<1>4. CASE FlushFails
  BY <1>0, <1>4 DEF FlushFails, Idle, WalkInv
<1>5. CASE \E f \in UNION {[1..n -> Files] : n \in 1..MaxEntries} : ArchiveAs(f)
  BY <1>0, <1>5 DEF ArchiveAs, TypeOK, WalkInv
<1>6. CASE Step
  <2>1. /\ walk # <<>> /\ ~finished' /\ reply[1] = "none" /\ handle' \in Handles
    BY <1>0, <1>6, WalkSteps DEF TypeOK, WalkInv
  <2>2. CASE GoOn
    BY <1>0, <2>1, <2>2, SMTT(30) DEF GoOn, TypeOK, WalkInv
  <2>3. CASE GiveUp(Head(walk).path)
    BY <2>1, <2>3 DEF GiveUp, WalkInv
  <2>4. CASE UNCHANGED <<walk, reply>>
    BY <2>1, <2>4 DEF WalkInv
  <2>5. QED
    BY <1>6, <2>2, <2>3, <2>4, WalkSteps
<1>7. CASE (\E u \in Uids : Rename(u)) \/ UNCHANGED vars
  BY <1>0, <1>7 DEF Rename, output, history, vars, WalkInv
<1>8. QED
  BY <1>1, <1>2, <1>3, <1>4, <1>5, <1>6, <1>7 DEF Next, Call

LEMMA NextBlameInv ==
  ASSUME IInv, [Next]_vars
  PROVE  BlameInv'
PROOF
<1>0. TypeOK /\ BlameInv
  BY DEF IInv
<1>1. CASE \/ \E h \in Handles : SetHandle(h)
           \/ NoHandle \/ Destroy \/ Flush \/ FlushFails
           \/ \E u \in Uids : Rename(u)
           \/ UNCHANGED vars
  BY <1>0, <1>1 DEF SetHandle, NoHandle, Destroy, Flush, FlushFails, Rename,
    history, vars, BlameInv
<1>2. CASE Finish
  BY <1>0, <1>2, ErrTypes DEF Finish, Conclude, BlameInv
<1>3. CASE \E f \in UNION {[1..n -> Files] : n \in 1..MaxEntries} : ArchiveAs(f)
  BY <1>0, <1>3 DEF ArchiveAs, BlameInv
<1>4. CASE ArgumentFails \/ EntryFails \/ FlushForRoom
  BY <1>0, <1>4 DEF ArgumentFails, EntryFails, FlushForRoom, b_error_set, history,
    BlameInv
<1>5. CASE Write \/ WriteUnopened \/ Fails
  <2>1. /\ archive' = archive
        /\ \/ err' = b_error_clear(err)
           \/ \E e, type, path : err' = b_error_set(e, type, path)
    BY <1>5 DEF Write, WriteUnopened, Archived, Fails, WriteFlushFails,
      BodyFlushFails, LongNameFlushFails, WriteRefused, WriteBroken, WriteFatal, Begin
  <2>2. QED
    BY <1>0, <2>1, ErrTypes DEF b_error_set, BlameInv
<1>6. QED
  BY <1>1, <1>2, <1>3, <1>4, <1>5 DEF Next, Call, Step

-----------------------------------------------------------------------------
\* A flush that succeeds leaves nothing owed, to any handle.
LEMMA FlushDelivers ==
  ASSUME IInv, handle \in Handles, Flushed, UNCHANGED <<handle, given>>,
         Clean, reply[1] # "destroyed", NEW h \in Handles
  PROVE  given'[h] = sent'[h] \o (IF h = handle' /\ ~finished' THEN record' ELSE <<>>)
PROOF
<1>1. /\ given[h] = sent[h] \o (IF h = handle /\ ~finished THEN record ELSE <<>>)
      /\ finished => record = <<>>
      /\ sent[h] \in Seq(Members) /\ record \in Seq(Members)
      /\ sent \in [Handles -> Seq(Members)]
  BY DEF IInv, TypeOK, WalkInv, Delivered
<1>2. record' = <<>> /\ sent' = [sent EXCEPT ![handle] = @ \o record]
  BY DEF Flushed
<1>3. CASE h = handle
  <2>1. sent'[h] = sent[h] \o record
    BY <1>1, <1>2, <1>3
  <2>2. given[h] = sent[h] \o record
    BY <1>1, <1>3
  <2>3. sent'[h] \in Seq(Members)
    BY <1>1, <2>1, ConcatProperties
  <2>4. QED
    BY <1>2, <2>1, <2>2, <2>3, ConcatEmptySeq
<1>4. CASE h # handle
  <2>1. sent'[h] = sent[h] /\ given[h] = sent[h] \o <<>>
    BY <1>1, <1>2, <1>4
  <2>2. QED
    BY <1>2, <1>4, <2>1
<1>5. QED
  BY <1>3, <1>4

\* Names the prover does not look into, to apply PutLast to any sequences.
Joined(s, r) == s \o r
Put(s, m)    == Append(s, m)

LEMMA PutLast ==
  ASSUME NEW S, NEW s \in Seq(S), NEW r \in Seq(S), NEW m \in S
  PROVE  Put(Joined(s, r), m) = Joined(s, Put(r, m))
BY DEF Joined, Put

\* What is put out is owed until it is sent.
LEMMA PutOutDelivers ==
  ASSUME IInv, walk # <<>>, NEW m \in Members, PutOut(m),
         UNCHANGED <<handle, sent, finished>>, Clean, NEW h \in Handles
  PROVE  given'[h] = sent'[h] \o (IF h = handle' /\ ~finished' THEN record' ELSE <<>>)
PROOF
<1>1. /\ given[h] = sent[h] \o (IF h = handle THEN record ELSE <<>>)
      /\ ~finished /\ handle \in Handles
      /\ sent[h] \in Seq(Members) /\ record \in Seq(Members)
      /\ given \in [Handles -> Seq(Members)]
  BY DEF IInv, TypeOK, WalkInv, Delivered
<1>2. /\ record' = Append(record, m) /\ sent' = sent
      /\ given' = [given EXCEPT ![handle] = Append(@, m)]
      /\ handle' = handle /\ finished' = finished
  BY DEF PutOut
<1>3. CASE h = handle
  <2>1. given'[h] = Append(sent[h] \o record, m)
    BY <1>1, <1>2, <1>3
  <2>2. Append(sent[h] \o record, m) = sent[h] \o Append(record, m)
    <3>1. Put(Joined(sent[h], record), m) = Joined(sent[h], Put(record, m))
      BY <1>1, PutLast
    <3>2. QED
      BY <3>1 DEF Put, Joined
  <2>3. sent'[h] \o (IF h = handle' /\ ~finished' THEN record' ELSE <<>>)
          = sent[h] \o Append(record, m)
    <3>1. (IF h = handle' /\ ~finished' THEN record' ELSE <<>>) = record'
      BY <1>1, <1>2, <1>3
    <3>2. QED
      BY <1>2, <3>1
  <2>4. QED
    BY <2>1, <2>2, <2>3
<1>4. CASE h # handle
  BY <1>1, <1>2, <1>4
<1>5. QED
  BY <1>3, <1>4

LEMMA NextDelivered ==
  ASSUME IInv, [Next]_vars
  PROVE  Delivered'
PROOF
<1>0. TypeOK /\ WalkInv /\ Delivered
  BY DEF IInv
<1>1. CASE \E h \in Handles : SetHandle(h)
  <2>1. /\ UNCHANGED <<record, sent, given, finished, reply>>
        /\ finished => record = <<>>
        /\ Clean' => Clean /\ finished
    BY <1>0, <1>1, DisturbedOnce DEF SetHandle, output, WalkInv, Clean, TypeOK
  <2>2. QED
    BY <1>0, <2>1 DEF Delivered
<1>2. CASE NoHandle
  BY <1>0, <1>2 DEF NoHandle, Idle, Croak, output, history, Delivered, Clean
<1>3. CASE Flush \/ Finish
  <2>1. /\ handle \in Handles /\ Flushed /\ reply[1] # "destroyed"
        /\ UNCHANGED <<handle, given, disturbed>>
    BY <1>0, <1>3 DEF Flush, Finish, Idle, history, TypeOK
  <2>2. QED
    BY <2>1, FlushDelivers DEF Delivered, Clean
<1>4. CASE FlushFails
  BY <1>0, <1>4, DisturbedOnce DEF FlushFails, FlushFailed, Delivered, TypeOK
<1>5. CASE Destroy
  <2>1. /\ reply[1] # "destroyed" /\ reply'[1] = "destroyed"
        /\ UNCHANGED <<handle, sent, finished, disturbed, given>>
    BY <1>5 DEF Destroy, Idle, history
  <2>2. QED
    BY <1>0, <2>1 DEF Delivered, Clean
<1>6. CASE \E f \in UNION {[1..n -> Files] : n \in 1..MaxEntries} : ArchiveAs(f)
  <2>1. /\ reply[1] # "destroyed" /\ ~finished'
        /\ UNCHANGED <<handle, record, sent, disturbed, given>>
    BY <1>6 DEF ArchiveAs, Idle, output
  <2>2. finished => record = <<>>
    BY <1>0 DEF WalkInv
  <2>3. QED
    BY <1>0, <2>1, <2>2 DEF Delivered, Clean
<1>7. CASE ArgumentFails \/ EntryFails \/ WriteRefused \/ WriteFatal
  <2>1. /\ walk # <<>> /\ UNCHANGED <<handle, record, sent, given, disturbed, finished>>
    BY <1>7 DEF ArgumentFails, EntryFails, WriteRefused, WriteFatal, Begin, output,
      history
  <2>2. QED
    BY <1>0, <2>1 DEF WalkInv, Delivered, Clean
<1>8. CASE FlushForRoom
  <2>1. /\ handle \in Handles /\ Flushed /\ reply[1] # "destroyed"
        /\ UNCHANGED <<handle, given, disturbed>>
    BY <1>0, <1>8 DEF FlushForRoom, history, WalkInv
  <2>2. QED
    BY <2>1, FlushDelivers DEF Delivered, Clean
<1>9. CASE Write \/ WriteUnopened \/ WriteBroken
  <2>1. /\ walk # <<>> /\ UNCHANGED <<handle, sent, finished, disturbed>>
        /\ \E m \in {Member(Head(walk)), Remains(Head(walk))} : PutOut(m)
    BY <1>9 DEF Write, WriteUnopened, WriteBroken, Archived, Begin
  <2>2. {Member(Head(walk)), Remains(Head(walk))} \subseteq Members
    BY <1>0, <2>1, NextEntry, Answers
  <2>3. QED
    BY <2>1, <2>2, PutOutDelivers DEF Delivered, Clean
<1>10. CASE WriteFlushFails \/ BodyFlushFails \/ LongNameFlushFails
  <2>1. FlushFailed
    BY <1>10 DEF WriteFlushFails, BodyFlushFails, LongNameFlushFails
  <2>2. disturbed \in Nat /\ Disturb
    BY <1>0, <2>1 DEF TypeOK, FlushFailed
  <2>3. QED
    BY <2>2, DisturbedOnce DEF Delivered
<1>11. CASE (\E u \in Uids : Rename(u)) \/ UNCHANGED vars
  <2>1. UNCHANGED <<handle, record, sent, reply, finished, disturbed, given>>
    BY <1>11 DEF Rename, output, history, vars
  <2>2. QED
    BY <1>0, <2>1 DEF Delivered, Clean
<1>12. QED
  BY <1>1, <1>2, <1>3, <1>4, <1>5, <1>6, <1>7, <1>8, <1>9, <1>10, <1>11
  DEF Next, Call, Step, Fails

\* Nothing but DESTROY ends a builder's life, and nothing is called after it.
LEMMA DestroyedBefore ==
  ASSUME TypeOK, WalkInv, [Next]_vars, ~Destroy, reply'[1] = "destroyed"
  PROVE  (\E u \in Uids : Rename(u)) \/ UNCHANGED vars
PROOF
<1>1. CASE Call
  BY <1>1 DEF Call, SetHandle, NoHandle, Flush, FlushFails, Finish, Conclude,
    ArchiveAs, Idle, Croak
<1>2. CASE Step
  <2>1. walk # <<>> /\ reply[1] = "none"
    BY <1>2, WalkSteps DEF WalkInv
  <2>2. CASE GoOn
    BY <2>1, <2>2 DEF GoOn
  <2>3. CASE GiveUp(Head(walk).path)
    BY <2>3 DEF GiveUp, Croak
  <2>4. CASE UNCHANGED <<walk, reply>>
    BY <2>1, <2>4
  <2>5. QED
    BY <1>2, <2>2, <2>3, <2>4, WalkSteps
<1>3. QED
  BY <1>1, <1>2 DEF Next

\* Until it is destroyed, a builder's streams are what was given; and afterwards
\* they are what was sent.
LEMMA NextContentsOnce ==
  ASSUME IInv, [Next]_vars, TypeOK', GivenOnce', Delivered'
  PROVE  ContentsOnce'
PROOF
<1>0. TypeOK /\ WalkInv /\ GivenOnce /\ Delivered /\ ContentsOnce
  BY DEF IInv
<1>1. CASE ~Clean'
  BY <1>1 DEF ContentsOnce
<1>2. CASE Clean' /\ (reply'[1] # "destroyed" \/ finished')
  <2>1. \A h \in Handles : Stream(h)' = given'[h]
    BY <1>2 DEF Delivered, Stream
  <2>2. QED
    BY <2>1 DEF GivenOnce, ContentsOnce
<1>3. CASE Clean' /\ reply'[1] = "destroyed" /\ ~finished'
  <2>1. CASE Destroy
    <3>1. /\ reply[1] # "destroyed" /\ Clean /\ record' = <<>>
          /\ UNCHANGED <<options, sent, given>>
      BY <1>3, <2>1 DEF Destroy, Idle, world, history, Clean
    <3>2. ASSUME NEW h \in Handles, NEW i \in DOMAIN Stream(h)'
          PROVE  i \in DOMAIN given[h] /\ given[h][i] = Stream(h)'[i]
      <4>1. PICK r \in Seq(Members) : given[h] = sent[h] \o r
        <5>1. <<>> \in Seq(Members) /\ record \in Seq(Members)
          BY <1>0 DEF TypeOK
        <5>2. QED
          BY <1>0, <3>1, <5>1 DEF Delivered
      <4>2. sent[h] \in Seq(Members)
        BY <1>0 DEF TypeOK
      <4>3. Stream(h)' = sent[h]
        <5>1. Stream(h)' = sent[h] \o <<>>
          BY <3>1 DEF Stream
        <5>2. QED
          BY <4>2, <5>1, ConcatEmptySeq
      <4>4. QED
        BY <3>2, <4>1, <4>2, <4>3
    <3>3. QED
      BY <1>0, <3>1, <3>2 DEF GivenOnce, ContentsOnce
  <2>2. CASE ~Destroy
    <3>1. (\E u \in Uids : Rename(u)) \/ UNCHANGED vars
      BY <1>0, <1>3, <2>2, DestroyedBefore
    <3>2. UNCHANGED <<options, handle, record, sent, finished, disturbed>>
      BY <3>1 DEF Rename, output, history, vars
    <3>3. \A h \in Handles : Stream(h)' = Stream(h)
      BY <3>2 DEF Stream
    <3>4. QED
      BY <1>0, <3>2, <3>3 DEF ContentsOnce, Clean
  <2>3. QED
    BY <2>1, <2>2
<1>4. QED
  BY <1>1, <1>2, <1>3

-----------------------------------------------------------------------------
LEMMA Invariant == Spec => []IInv
PROOF
<1>1. IInv /\ [Next]_vars => IInv'
  BY NextTypeOK, NextWalkInv, NextBlameInv, CacheInvs, NextDelivered,
     NextContentsOnce DEF IInv
<1>2. QED
  BY InitIInv, <1>1, PTL DEF Spec

\* Each handle receives what was put out while it was set, broken members' remains
\* included, each once and in order, as long as no flush fails and set_handle()
\* comes after finish().
THEOREM DeliveredHolds == Spec => []Delivered
PROOF
<1>1. IInv => Delivered
  BY DEF IInv
<1>2. QED
  BY Invariant, <1>1, PTL

\* UserCache: all members of a user have one name, whatever the system says.
THEOREM OneNamePerUserHolds == Spec => []OneNamePerUser
PROOF
<1>1. IInv => OneNamePerUser
  BY DEF IInv, UserInv, OneNamePerUser
<1>2. QED
  BY Invariant, <1>1, PTL

\* HardlinkCache: no stream has the contents of a file with several links twice, as
\* long as no flush fails, of which the record is sent again.
THEOREM ContentsOnceHolds == Spec => []ContentsOnce
PROOF
<1>1. IInv => ContentsOnce
  BY DEF IInv
<1>2. QED
  BY Invariant, <1>1, PTL

\* A member that archive_as() croaks for is named, or what it links to, and no other.
LEMMA NamesTheMember ==
  ASSUME IInv, [Next]_vars, begun' > begun, reply'[1] = "croaked"
  PROVE  reply'[2] \in {Head(walk).path} \cup Linkdests(Head(walk))
PROOF
<1>0. TypeOK /\ (walk # <<>> => reply[1] = "none")
  BY DEF IInv, WalkInv
<1>1. Write \/ WriteUnopened \/ Fails
  BY <1>0 DEF Next, Call, Step, SetHandle, NoHandle, ArchiveAs, Flush, FlushFails,
    Finish, Destroy, ArgumentFails, EntryFails, FlushForRoom, Rename, history, vars,
    TypeOK
<1>2. /\ walk # <<>>
      /\ GoOn \/ GiveUp(Head(walk).path)
      /\ \/ err' = b_error_clear(err)
         \/ \E e, type : \E path \in {Head(walk).path} \cup Linkdests(Head(walk)) :
              err' = b_error_set(e, type, path)
  BY <1>1 DEF Write, WriteUnopened, Archived, Fails, WriteFlushFails,
    BodyFlushFails, LongNameFlushFails, WriteRefused, WriteBroken, WriteFatal, LeaveOut,
    Begin
<1>3. err'.path \in {None, Head(walk).path} \cup Linkdests(Head(walk))
  BY <1>0, <1>2, ErrTypes DEF b_error_set
<1>4. CASE GoOn
  BY <1>0, <1>2, <1>4 DEF GoOn
<1>5. CASE GiveUp(Head(walk).path)
  BY <1>3, <1>5 DEF GiveUp, Croak
<1>6. QED
  BY <1>2, <1>4, <1>5

\* finish() and archive_as() blame the archive and the member at fault, or what it
\* links to.
THEOREM BlamesTheCulpritHolds == Spec => BlamesTheCulprit
PROOF
<1>1. ASSUME IInv, [Next]_vars
      PROVE  [ /\ Finish /\ reply'[1] = "delayed" /\ begun > 0
                    => err.archive = archive
               /\ begun' > begun /\ reply'[1] = "croaked"
                    => reply'[2] \in {Head(walk).path}
                                       \cup Linkdests(Head(walk)) ]_vars
  <2>1. Finish /\ reply'[1] = "delayed" /\ begun > 0 => err.archive = archive
    BY <1>1 DEF Finish, Conclude, Delayed, IInv, BlameInv
  <2>2. QED
    BY <1>1, <2>1, NamesTheMember
<1>2. QED
  BY Invariant, <1>1, PTL DEF Spec, BlamesTheCulprit
=============================================================================
