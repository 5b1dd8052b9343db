----------------------------- MODULE Container -----------------------------
(***************************************************************************)
(* The two containers: dt_container, a bag that owns heap objects, and     *)
(* dt_pipe_container, the same for pipes, which it also drives.  Objects   *)
(* are created one by one and depend on ones created before; growing the   *)
(* array of entries may fail.  Destroying runs one destroyer at a time.    *)
(***************************************************************************)
EXTENDS SequencesExt

CONSTANTS Objects,     \* numbers, in the order the objects are created
          FirstCap     \* entries of the first allocation: 8, and 4 for pipes

VARIABLES pipes,       \* a dt_pipe_container rather than a dt_container
          entries,     \* the array, as <<object, owned>>
          cap,
          holder,      \* object -> "none", "client", "bag", "gone" or "lost"
          needs,       \* object -> the objects it depends on
          ending       \* inside the loop of destroy

bagvars == <<pipes, entries, cap, holder, needs, ending>>

BagInit ==
  /\ pipes \in BOOLEAN /\ entries = <<>> /\ cap = 0 /\ ending = FALSE
  /\ holder = [o \in Objects |-> "none"] /\ needs = [o \in Objects |-> {}]

Alive(o) == holder[o] \in {"client", "bag"}

\* The client makes an object, and may build it on one that is there.
Create(o) ==
  /\ ~ending /\ holder[o] = "none" /\ \A p \in Objects : p < o => holder[p] # "none"
  /\ holder' = [holder EXCEPT ![o] = "client"]
  /\ \E on \in SUBSET {p \in Objects : Alive(p)} :
       Cardinality(on) <= 1 /\ needs' = [needs EXCEPT ![o] = on]
  /\ UNCHANGED <<pipes, entries, cap, ending>>

Held(o) == \E i \in DOMAIN entries : entries[i][1] = o
NeededBy(o) == {p \in Objects : Alive(p) /\ o \in needs[p]}

\* What the client may hand over: its own object, which it did not build
\* anything on yet and all that this one depends on handed over before.
Mine(o) ==
  ~ending /\ holder[o] = "client" /\ NeededBy(o) = {} /\ \A p \in needs[o] : holder[p] = "bag"

Appended(o) == entries' = Append(entries, <<o, TRUE>>) /\ holder' = [holder EXCEPT ![o] = "bag"]

AddNoRoom == Len(entries) = cap

AddInPlace(o) == Mine(o) /\ ~AddNoRoom /\ Appended(o) /\ UNCHANGED <<pipes, cap, needs, ending>>

AddGrown(o) ==
  /\ Mine(o) /\ AddNoRoom /\ Appended(o)
  /\ cap' = (IF cap = 0 THEN FirstCap ELSE cap * 2)
  /\ UNCHANGED <<pipes, needs, ending>>

\* realloc fails: the bag destroys the object and answers NULL.
AddFailed(o) ==
  /\ Mine(o) /\ AddNoRoom /\ ~pipes
  /\ holder' = [holder EXCEPT ![o] = "gone"] /\ UNCHANGED <<pipes, entries, cap, needs, ending>>

\* A pipe container has no answer to give: the pipe is left to nobody.
AddDropped(o) ==
  /\ Mine(o) /\ AddNoRoom /\ pipes
  /\ holder' = [holder EXCEPT ![o] = "lost"] /\ UNCHANGED <<pipes, entries, cap, needs, ending>>

\* An entry that owns nothing, to drive the pipe or to group lifetimes.
Lend(o) ==
  /\ ~ending /\ holder[o] = "client" /\ ~Held(o) /\ ~AddNoRoom
  /\ entries' = Append(entries, <<o, FALSE>>)
  /\ UNCHANGED <<pipes, cap, holder, needs, ending>>

\* The first entry of the object goes, later ones move up.
TakeBack(o) ==
  /\ ~ending /\ Held(o)
  /\ LET i == SelectInSeq(entries, LAMBDA e : e[1] = o)
     IN  /\ entries' = RemoveAt(entries, i)
         /\ holder' = IF entries[i][2] THEN [holder EXCEPT ![o] = "client"] ELSE holder
  /\ UNCHANGED <<pipes, cap, needs, ending>>

\* The client destroys what is its own and no longer in use.
Discard(o) ==
  /\ ~ending /\ holder[o] = "client" /\ NeededBy(o) = {} /\ ~Held(o)
  /\ holder' = [holder EXCEPT ![o] = "gone"]
  /\ UNCHANGED <<pipes, entries, cap, needs, ending>>

EntryForward == 1    \* slip: the loop runs upwards
EntryNext == Len(entries)

\* One round of destroy's loop.
Destroyed(i) ==
  /\ entries # <<>>
  /\ holder' = IF entries[i][2] THEN [holder EXCEPT ![entries[i][1]] = "gone"] ELSE holder
  /\ entries' = RemoveAt(entries, i)
  /\ UNCHANGED <<pipes, cap, needs>>

\* Destroy begins once what was taken out of the bag is back or built on
\* nothing that the bag still owns and on which nothing in it was built.
EndBag ==
  /\ \A o \in Objects :
       holder[o] = "client" => NeededBy(o) = {} /\ \A p \in needs[o] : holder[p] # "bag"
  /\ ending' = TRUE /\ Destroyed(EntryNext)

GoOnEnding == ending /\ ending' = TRUE /\ Destroyed(EntryNext)

BagNext ==
  \/ \E o \in Objects :
       \/ Create(o) \/ AddInPlace(o) \/ AddGrown(o) \/ AddFailed(o) \/ AddDropped(o)
       \/ Lend(o) \/ TakeBack(o) \/ Discard(o)
  \/ EndBag \/ GoOnEnding

BagSpec == BagInit /\ [][BagNext]_bagvars

-----------------------------------------------------------------------------
Dies(o) == Alive(o) /\ holder'[o] = "gone"

\* An object dies before everything it was built on: objects are freed in
\* the reverse of the order they were added, so one may depend on another
\* added before it (container.h), through failures to grow, objects taken
\* out and added again, and the end of the bag.  What the bag took over is
\* in an entry that will free it, until it did.
DependentsFirst ==
  [][ /\ \A o \in Objects : Dies(o) => NeededBy(o) = {}
      /\ \A o \in Objects :
           holder'[o] = "bag" => \E i \in DOMAIN entries' : entries'[i] = <<o, TRUE>> ]_bagvars
=============================================================================
