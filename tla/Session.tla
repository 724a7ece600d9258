-------------------------------- MODULE Session --------------------------------
(***************************************************************************)
(* The life of one Archive::Tar::Builder: the calls of the Perl interface, *)
(* in any order, and what outlives a call: the handle, the record, the     *)
(* error object and the caches of users and of hard links.                 *)
(*                                                                         *)
(* A member is one step here (MemberWriter has its inside), and so is each *)
(* entry of a walk (Traversal) and each flush (BlockBuffer).  archive_as() *)
(* with several pairs is several calls with one.                           *)
(***************************************************************************)
EXTENDS Integers, Sequences

CONSTANTS
  Handles,    \* file handles the caller has
  Files,      \* entries of the file system, as records of
              \*   path, uid, and inode: None if the file has a single link
  UserNames,  \* names the system may have for a user
  None,       \* no name, no link, no handle
  Options,    \* the sets there may be of "ignore_errors", "preserve_hardlinks"
  MaxEntries, \* entries walked in the life of the builder, at most
  MaxArchives,     \* archives begun, at most
  MaxDisturbances  \* flushes that fail, and handles set in the midst of an
                   \* archive, at most

VARIABLES
  options,
  passwd,   \* the system's users: the name of each uid, or None
  handle,   \* buf->fd; None before set_handle()
  record,   \* members, and what is left of broken ones, in the record buffer
  sent,     \* those each handle has received
  err,      \* type and path of builder->err, and the archive it was set in
  users,    \* UserCache; Unasked for a uid not looked up yet
  links,    \* HardlinkCache; None for an inode not seen yet
  walk,     \* entries archive_as() has still to deal with
  top,      \* the next of them is the argument itself
  reply,    \* how the last call ended, and the path it named
  \* what the caller did, for the properties
  archive,  \* number of archives begun
  begun,    \* members begun in this archive
  finished, \* all archived so far was flushed by a call of finish()
  disturbed,  \* flushes that failed, and handles set before a finish()
  given,    \* members, and what is left of broken ones, put out for each handle
  walked    \* entries walked so far

Unasked   == "unasked"
Elsewhere == "elsewhere"    \* what a symbolic link points to

ASSUME SessionAssumption ==
  /\ Unasked \notin UserNames \cup {None}
  /\ None \notin {f.path : f \in Files}

world   == <<options, passwd>>
output  == <<record, sent>>
caches  == <<users, links>>
history == <<archive, begun, finished, disturbed, given, walked>>
vars == <<options, passwd, handle, record, sent, err, users, links, walk, top,
          reply, archive, begun, finished, disturbed, given, walked>>

Uids    == {f.uid : f \in Files}
Inodes  == {f.inode : f \in Files} \ {None}

\* b_builder_new(), with the options of new().
Init ==
  /\ options \in Options
  /\ passwd \in [Uids -> UserNames \cup {None}]
  /\ handle = None /\ record = <<>> /\ sent = [h \in Handles |-> <<>>]
  /\ err = [type |-> "ok", path |-> None, archive |-> 0]
  /\ users = [u \in Uids |-> Unasked] /\ links = [i \in Inodes |-> None]
  /\ walk = <<>> /\ top = FALSE /\ reply = <<"none", None>>
  /\ archive = 0 /\ begun = 0 /\ finished = TRUE /\ disturbed = 0
  /\ given = [h \in Handles |-> <<>>] /\ walked = 0

-----------------------------------------------------------------------------
\* The error object.
b_error_set(e, type, path) == [type |-> type, path |-> path, archive |-> archive]
\* Mutant: nothing is cleared.
b_error_clear_not(e)  == e
b_error_clear(e) == [e EXCEPT !.type = "ok", !.path = None]
\* The type is left as it is.
b_error_reset(e) == [e EXCEPT !.path = None]

\* UserCache->lookup(): that a user is unknown is remembered, too.
\* Mutant: it is asked for again.
user_lookup_defined(u) ==
  IF users[u] \in {Unasked, None} THEN passwd[u] ELSE users[u]
user_lookup(u) == IF users[u] = Unasked THEN passwd[u] ELSE users[u]

\* HardlinkCache->lookup(), for files that have several links.
IsHardlink(f) == "preserve_hardlinks" \in options /\ f.inode # None
\* Mutant: a path is not made a link to itself.
hardlink_lookup_other(f) ==
  IF IsHardlink(f) /\ links[f.inode] # f.path THEN links[f.inode] ELSE None
hardlink_lookup(f) == IF IsHardlink(f) THEN links[f.inode] ELSE None

\* A member; and what the record has of one that fails after its first block: an
\* extension, or the header, and a part of what comes after it.
Member(f)  == [path |-> f.path, inode |-> f.inode, uid |-> f.uid, whole |-> TRUE,
               user |-> user_lookup(f.uid), link |-> hardlink_lookup(f)]
Remains(f) == [Member(f) EXCEPT !.whole = FALSE]

\* header->linkdest: of a hard link, or of what may be a symbolic link.
Linkdests(f) == ({hardlink_lookup(f)} \ {None})
                \cup (IF f.inode = None THEN {Elsewhere} ELSE {})

-----------------------------------------------------------------------------
\* What spoils a stream happens a bounded number of times.
Disturb == disturbed < MaxDisturbances /\ disturbed' = disturbed + 1

\* b_buffer_flush(): all of the record, or, when it fails, members of it that
\* stay in the record nevertheless.
Flushed == /\ sent' = [sent EXCEPT ![handle] = @ \o record]
           /\ record' = <<>>
FlushFailed == /\ Disturb
               /\ \E n \in 0..Len(record') :
                    sent' = [sent EXCEPT ![handle] = @ \o SubSeq(record', 1, n)]

Idle == walk = <<>> /\ reply[1] # "destroyed"
Croak(path) == reply' = <<"croaked", path>>

SetHandle(h) ==
  /\ Idle /\ handle' = h
  /\ IF finished THEN UNCHANGED disturbed ELSE Disturb
  /\ UNCHANGED <<world, output, err, caches, walk, top, reply,
                 archive, begun, finished, given, walked>>

\* flush(), finish() and archive_as() croak without a handle.
NoHandle ==
  /\ Idle /\ handle = None
  /\ Croak(None)
  /\ UNCHANGED <<world, handle, output, err, caches, walk, top, history>>

\* The argument f[1] and what b_find() finds in it.  The first archive_as() after
\* a finish() begins an archive.
ArchiveAs(f) ==
  /\ Idle /\ handle # None
  /\ walked + Len(f) <= MaxEntries /\ walked' = walked + Len(f)
  /\ finished => archive < MaxArchives
  /\ archive' = IF finished THEN archive + 1 ELSE archive
  /\ begun' = IF finished THEN 0 ELSE begun
  /\ finished' = FALSE
  /\ walk' = f /\ top' = TRUE /\ reply' = <<"none", None>>
  /\ UNCHANGED <<world, handle, output, err, caches, disturbed, given>>

\* The walk goes on with the next entry, or archive_as() returns.
GoOn == /\ walk' = Tail(walk) /\ top' = FALSE
        /\ reply' = IF Len(walk) = 1 THEN <<"returned", None>> ELSE reply
\* archive_as() croaks, naming err->path, or its argument if that is not set.
GiveUp(argument) ==
  /\ walk' = <<>> /\ top' = FALSE
  /\ Croak(IF err'.path = None THEN argument ELSE err'.path)

\* b_find() fails before the argument is handed over: no error is set.
ArgumentFails ==
  /\ walk # <<>> /\ top
  /\ UNCHANGED err /\ GiveUp(Head(walk).path)
  /\ UNCHANGED <<world, handle, output, caches, history>>

\* An entry cannot be opened or looked at.
EntryFails ==
  /\ walk # <<>> /\ ~top
  /\ err' = b_error_set(err, "warn", Head(walk).path)
  /\ GoOn
  /\ UNCHANGED <<world, handle, output, caches, history>>

\* write_file() is called: what it does before anything else.
Begin == /\ walk # <<>>
         /\ begun' = begun + 1
         /\ UNCHANGED <<world, handle, archive, finished, walked>>

\* header_for_file() and the lookup of the user.
LookUp(f) ==
  /\ users' = [users EXCEPT ![f.uid] = user_lookup(f.uid)]
  /\ links' = IF IsHardlink(f) /\ links[f.inode] = None
                THEN [links EXCEPT ![f.inode] = f.path] ELSE links

\* Blocks are written to the record.
PutOut(m) ==
  /\ record' = Append(record, m)
  /\ given' = [given EXCEPT ![handle] = Append(@, m)]

Archived(f) ==
  /\ Begin /\ LookUp(f)
  /\ PutOut(Member(f))
  /\ UNCHANGED <<sent, disturbed>>

Write ==
  /\ Archived(Head(walk))
  /\ err' = b_error_clear(err) /\ GoOn

\* A directory is archived, which has no hard links, but cannot be opened then:
\* unless that is for lack of permission within the walk, archive_as() croaks.
WriteUnopened ==
  LET f == Head(walk) IN
  /\ Archived(f) /\ f.inode = None
  /\ err' = b_error_set(b_error_clear(err), "warn", f.path)
  /\ \/ ~top /\ GoOn
     \/ GiveUp(f.path)

\* The flush before a block of a member, or of its body.
FlushForRoom ==
  /\ walk # <<>> /\ record # <<>>
  /\ Flushed
  /\ UNCHANGED <<world, handle, err, caches, walk, top, reply, history>>

\* The walk goes on without the entry, but for an argument archive_as() croaks.
LeaveOut(f) == IF top THEN GiveUp(f.path) ELSE GoOn

\* It fails before the header has its block: no error is set.  Of a long name
\* there may be something in the record.
WriteFlushFails ==
  LET f == Head(walk) IN
  /\ Begin
  /\ err' = b_error_clear(err) /\ LookUp(f)
  /\ UNCHANGED <<record, given>> \/ PutOut(Remains(f))
  /\ FlushFailed
  /\ LeaveOut(f)

\* It fails in the body of a member that has one.
BodyFlushFails ==
  LET f == Head(walk) IN
  /\ Begin /\ hardlink_lookup(f) = None
  /\ err' = b_error_set(b_error_clear(err), "warn", f.path) /\ LookUp(f)
  /\ PutOut(Remains(f)) /\ FlushFailed
  /\ LeaveOut(f)

\* It fails in an extension: the error has the name being written there, which in
\* a GNU long link is what the member links to.
LongNameFlushFails ==
  LET f == Head(walk) IN
  /\ Begin
  /\ \E path \in {f.path} \cup Linkdests(f) :
       err' = b_error_set(b_error_clear(err), "fatal", path)
  /\ LookUp(f)
  /\ PutOut(Remains(f)) /\ FlushFailed
  /\ GiveUp(f.path)

\* The name is too long, or the user cannot be looked up: nothing is written.
WriteRefused ==
  LET f == Head(walk) IN
  /\ Begin
  /\ err' = b_error_set(b_error_clear(err), "warn", f.path) /\ LookUp(f)
  /\ LeaveOut(f)
  /\ UNCHANGED <<output, disturbed, given>>

\* The body of a member that has one cannot be read, or not all of it: the header,
\* and what was read, are in the record and stay there.
WriteBroken ==
  LET f == Head(walk) IN
  /\ Begin /\ hardlink_lookup(f) = None
  /\ err' = b_error_set(b_error_clear(err), "warn", f.path) /\ LookUp(f)
  /\ PutOut(Remains(f))
  /\ LeaveOut(f)
  /\ UNCHANGED <<sent, disturbed>>

\* No header can be built; of a symbolic link only, which has no hard links.
WriteFatal ==
  LET f == Head(walk) IN
  /\ Begin /\ f.inode = None
  /\ err' = b_error_set(b_error_clear(err), "fatal", f.path)
  /\ GiveUp(f.path)
  /\ UNCHANGED <<output, caches, disturbed, given>>

Flush ==
  /\ Idle /\ handle # None
  /\ Flushed /\ reply' = <<"returned", None>>
  /\ UNCHANGED <<world, handle, err, caches, walk, top, history>>

FlushFails ==
  /\ Idle /\ handle # None /\ record # <<>>
  /\ UNCHANGED record /\ FlushFailed /\ Croak(None)
  /\ UNCHANGED <<world, handle, err, caches, walk, top, archive, begun,
                 finished, given, walked>>

\* What finish() does once the record is out: "Delayed nonzero exit status", or
\* the error object is reset.
Delayed == err.type = "warn" /\ "ignore_errors" \notin options
Conclude ==
  IF Delayed THEN reply' = <<"delayed", None>> /\ UNCHANGED err
             ELSE reply' = <<"returned", None>> /\ err' = b_error_reset(err)

\* Mutant: the error is looked at before the record is flushed.
FinishUnflushed ==
  /\ Idle /\ handle # None
  /\ IF Delayed THEN UNCHANGED output ELSE Flushed
  /\ Conclude /\ finished' = TRUE
  /\ UNCHANGED <<world, handle, caches, walk, top, archive, begun, disturbed,
                 given, walked>>

Finish ==
  /\ Idle /\ handle # None
  /\ Flushed
  /\ Conclude /\ finished' = TRUE
  /\ UNCHANGED <<world, handle, caches, walk, top, archive, begun, disturbed,
                 given, walked>>

\* DESTROY: what is in the record is dropped.
Destroy ==
  /\ Idle /\ record' = <<>> /\ reply' = <<"destroyed", None>>
  /\ UNCHANGED <<world, handle, sent, err, caches, walk, top, history>>

\* The administrator renames, adds or removes a user.
Rename(u) ==
  /\ \E n \in UserNames \cup {None} : passwd' = [passwd EXCEPT ![u] = n]
  /\ UNCHANGED <<options, handle, output, err, caches, walk, top, reply, history>>

-----------------------------------------------------------------------------
Call == \/ \E h \in Handles : SetHandle(h)
        \/ NoHandle \/ Flush \/ FlushFails \/ Finish \/ Destroy
        \/ \E f \in UNION {[1..n -> Files] : n \in 1..MaxEntries} : ArchiveAs(f)

Fails == \/ WriteFlushFails \/ BodyFlushFails \/ LongNameFlushFails
         \/ WriteRefused \/ WriteBroken \/ WriteFatal

Step == \/ ArgumentFails \/ EntryFails \/ FlushForRoom
        \/ Write \/ WriteUnopened \/ Fails

Next == Call \/ Step \/ \E u \in Uids : Rename(u)

Spec == Init /\ [][Next]_vars
-----------------------------------------------------------------------------
\* No flush failed, and set_handle() came first or after finish().
Clean == disturbed = 0

\* Each handle receives what was put out while it was set, each member once and in
\* its order, and nothing of another archive, as long as no flush fails and
\* set_handle() is called after finish(), even one that dies for an error: what
\* is not sent yet is in the record, and after finish() all is sent.  What is left
\* of a member whose body cannot be read is not taken back, but sent, too.
Delivered ==
  Clean /\ (reply[1] # "destroyed" \/ finished) =>
    \A h \in Handles :
      given[h] = sent[h] \o (IF h = handle /\ ~finished THEN record ELSE <<>>)

\* The right one is blamed.  finish() does not die for an error of an archive
\* finished before, once a member of a later one was begun; and archive_as(), when
\* it croaks for the member it was writing, names that member, or what it links to,
\* and not one for which there was an error earlier.
BlamesTheCulprit ==
  [][ /\ Finish /\ reply'[1] = "delayed" /\ begun > 0 => err.archive = archive
      /\ begun' > begun /\ reply'[1] = "croaked"
         => reply'[2] \in {Head(walk).path} \cup Linkdests(Head(walk)) ]_vars

\* All that the streams have of one user is under one name, or all without, even
\* if the system renames the user, or learns of it, meanwhile.
OneNamePerUser ==
  \A h, g \in Handles : \A i \in DOMAIN given[h] : \A j \in DOMAIN given[g] :
    given[h][i].uid = given[g][j].uid => given[h][i].user = given[g][j].user

\* What has reached a handle, or is in the record for it.
Stream(h) == sent[h] \o (IF h = handle /\ ~finished THEN record ELSE <<>>)

\* preserve_hardlinks: the contents of a file with several links are in a stream
\* once at most, whole or not, under whichever names and how often it is archived,
\* as long as no flush fails and set_handle() is called after finish().
ContentsOnce ==
  Clean /\ "preserve_hardlinks" \in options =>
    \A h \in Handles : \A i, j \in DOMAIN Stream(h) :
      /\ Stream(h)[i].inode # None /\ Stream(h)[i].inode = Stream(h)[j].inode
      /\ Stream(h)[i].link = None /\ Stream(h)[j].link = None
      => i = j
=============================================================================
