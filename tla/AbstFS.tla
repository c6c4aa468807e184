------------------------------- MODULE AbstFS -------------------------------
(***************************************************************************)
(* The abstract file system of driver/AbstFS.C: objects with reference     *)
(* counts, and directory entries that name them.                           *)
(*                                                                         *)
(* obj maps ids to objects, ent is the set of entries <<directory, name,   *)
(* child>> of all directories, next is _id.  Data is a sequence of words:  *)
(* 0, or 1 for the value that position_hash gives to that offset, the only *)
(* one the drivers write.  What walk_path makes of a path is the entry.    *)
(* Directories lie in the root, so that a deleted directory holds files.   *)
(***************************************************************************)
EXTENDS Integers, Sequences, FiniteSets

Root == 0

new_obj(type) == [type |-> type, ref |-> 0, data |-> << >>]

\* AbstFS::init
EmptyFS == [obj |-> [id \in {Root} |-> new_obj("dir")], ent |-> {}, next |-> 1]

Ids(fs) == DOMAIN fs.obj
Named(fs, d, n) == {e \in fs.ent : e[1] = d /\ e[2] = n}

\* objects[id] = o
Stored(obj, id, o) == [x \in DOMAIN obj \cup {id} |-> IF x = id THEN o ELSE obj[x]]

add_new_obj(fs, o, id) == [fs EXCEPT !.obj = Stored(@, id, o)]

\* The object with n references.
Counts(o, n) == [o EXCEPT !.ref = n]

\* An entry may name an object that does not exist (yet).
link_obj(fs, d, c, n) ==
    [fs EXCEPT !.ent = @ \cup {<<d, n, c>>},
               !.obj = IF c \in Ids(fs) THEN [@ EXCEPT ![c] = Counts(fs.obj[c], fs.obj[c].ref + 1)] ELSE @]

\* The ids that lose their last reference when the entries gone are removed.
Dead(fs, gone) ==
    {c \in Ids(fs) : /\ \E e \in gone : e[3] = c
                     /\ fs.obj[c].ref = Cardinality({e \in gone : e[3] = c})}

\* rm_entry for a set of entries, with the references they held.
Drop(fs, gone) ==
    [fs EXCEPT !.ent = @ \ gone,
               !.obj = [c \in Ids(fs) \ Dead(fs, gone) |->
                          Counts(fs.obj[c], fs.obj[c].ref - Cardinality({e \in gone : e[3] = c}))]]

\* unlink_obj, with the delete_obj that follows the last reference: what a
\* deleted directory still holds is unlinked too.
unlink_obj(fs, d, n) ==
    LET gone == Named(fs, d, n)
        inner == {e \in fs.ent : e[1] \in Dead(fs, gone)}
    IN  Drop(Drop(fs, gone), inner)

\* creat and mkdir
Make(fs, type, d, n) ==
    [link_obj(add_new_obj(fs, new_obj(type), fs.next), d, fs.next, n) EXCEPT !.next = @ + 1]

rename(fs, d1, n1, c, d2, n2) == unlink_obj(link_obj(fs, d2, c, n2), d1, n1)

\* file::truncate and file::pwrite; w is the first word and the word behind
\* the last one.
Cut(data, length) == [i \in 1 .. length |-> IF i <= Len(data) THEN data[i] ELSE 0]
Put(data, w) ==
    [i \in 1 .. (IF Len(data) < w[2] THEN w[2] ELSE Len(data)) |->
       IF w[1] < i /\ i <= w[2] THEN 1 ELSE IF i <= Len(data) THEN data[i] ELSE 0]

truncate(fs, id, length) == [fs EXCEPT !.obj[id].data = Cut(@, length)]
pwrite(fs, id, w) == [fs EXCEPT !.obj[id].data = Put(@, w)]

\* The number of entries for id.
Links(ents, id) == Cardinality({e \in ents : e[3] = id})

\* copy: marshal and unmarshal, which counts the references anew.
copy(fs) == [fs EXCEPT !.obj = [id \in Ids(fs) |-> Counts(@[id], Links(fs.ent, id))]]

\* Objects no entry names keep the count they have.
fix_refcnts(fs) ==
    [fs EXCEPT !.obj = [id \in Ids(fs) |->
       IF Links(fs.ent, id) = 0 THEN @[id] ELSE Counts(@[id], Links(fs.ent, id))]]

-----------------------------------------------------------------------------
(* What a walk from the root sees                                          *)

Top(fs) == {e \in fs.ent : e[1] = Root}

\* Every path from the root, with the id it leads to.
Walk(fs) == {<<<<e[2]>>, e[3]>> : e \in Top(fs)}
      \cup {<<<<p[1][2], p[2][2]>>, p[2][3]>> :
              p \in {q \in Top(fs) \X fs.ent : q[2][1] = q[1][3]}}

detect_dangling(fs) == \E w \in Walk(fs) : w[2] \notin Ids(fs)

\* canon_objects: what is reachable, up to the ids.  An image is a function
\* on the paths; same are the paths of one object.
Canon(fs) ==
    LET walk == Walk(fs)
    IN  [p \in {w[1] : w \in walk} |->
           LET id == (CHOOSE w \in walk : w[1] = p)[2]
           IN  [type |-> fs.obj[id].type, ref |-> fs.obj[id].ref, data |-> fs.obj[id].data,
                same |-> {w[1] : w \in {v \in walk : v[2] = id}}]]

\* canon_metadata leaves out the data of files.
Meta(image) == [p \in DOMAIN image |-> [image[p] EXCEPT !.data = << >>]]
=============================================================================
