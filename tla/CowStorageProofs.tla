--------------------------- MODULE CowStorageProofs ---------------------------
(***************************************************************************)
(* Proofs about CowStorage, for every set of workspaces, snapshots, paths  *)
(* and contents: sharing with copy-on-write implements ValueStorage, where *)
(* every workspace and every snapshot has values of its own.               *)
(***************************************************************************)
EXTENDS CowStorage, TLAPS

\* Classes of owners: one that is alive is in its own, and the members agree on it.
Class(c) ==
    /\ c \in [Owner -> SUBSET Owner]
    /\ \A o \in Owner : c[o] # {} => o \in c[o]
    /\ \A o \in Owner : \A p \in c[o] : c[p] = c[o]

Heap ==
    [gen : [Owner -> SUBSET Owner], share : [Field -> [Owner -> SUBSET Owner]],
     files : [Field -> [Owner -> Contents \cup {Dropped}]]]

\* Generations and layers are shared by classes, and an owner has all or nothing.
Sound(hp) ==
    /\ hp \in Heap
    /\ Class(hp.gen) /\ \A f \in Field : Class(hp.share[f])
    /\ \A f \in Field, o \in Owner : hp.share[f][o] = {} <=> hp.gen[o] = {}
    /\ \A f \in Field, o \in Owner : hp.gen[o] # {} => hp.files[f][o] \in LayerOf(f)

\* The same owners are alive.
SameOwners(c, d) == \A o \in Owner : d[o] = {} <=> c[o] = {}

\* An owner taken out of its class has one of its own.
LEMMA ApartFacts ==
    ASSUME NEW c, Class(c), NEW h \in Owner, c[h] # {}
    PROVE  /\ Class(Apart(c, {h})) /\ Apart(c, {h})[h] = {h} /\ SameOwners(c, Apart(c, {h}))
           /\ c[h] = {h} => Apart(c, {h}) = c
<1> DEFINE d == Apart(c, {h})
<1>0. c \in [Owner -> SUBSET Owner] /\ h \in c[h]
  BY DEF Class
<1>1. /\ d \in [Owner -> SUBSET Owner] /\ d[h] = {h}
      /\ \A o \in Owner : o # h => d[o] = c[o] \ {h}
  BY <1>0 DEF Apart
<1> HIDE DEF d
<1>2. \A o \in Owner : c[o] # {} => o \in d[o]
  BY <1>1 DEF Class
<1>3. SameOwners(c, d)
  BY <1>0, <1>1, <1>2 DEF SameOwners
<1>4. ASSUME NEW o \in Owner, NEW p \in d[o] PROVE d[p] = d[o]
  <2>1. CASE o = h
    BY <1>1, <1>4, <2>1
  <2>2. CASE o # h
    <3>1. p \in c[o] /\ p # h /\ p \in Owner
      BY <1>0, <1>1, <1>4, <2>2
    <3>2. c[p] = c[o]
      BY <3>1 DEF Class
    <3> QED
      BY <1>1, <2>2, <3>1, <3>2
  <2> QED
    BY <2>1, <2>2
<1>5. Class(d)
  BY <1>1, <1>2, <1>3, <1>4 DEF Class, SameOwners
<1>6. ASSUME c[h] = {h} PROVE d = c
  <2>1. ASSUME NEW o \in Owner, o # h PROVE h \notin c[o]
    BY <1>0, <1>6, <2>1 DEF Class
  <2>2. \A o \in Owner : d[o] = c[o]
    <3> SUFFICES ASSUME NEW o \in Owner PROVE d[o] = c[o]
      OBVIOUS
    <3>1. CASE o = h
      BY <1>1, <1>6, <3>1, Zenon
    <3>2. CASE o # h
      <4>1. h \notin c[o]
        BY <2>1, <3>2
      <4>2. d[o] = c[o] \ {h}
        BY <1>1, <3>2
      <4> QED
        BY <4>1, <4>2
    <3> QED
      BY <3>1, <3>2
  <2> QED
    BY <1>0, <1>1, <2>2
<1> QED
  BY <1>1, <1>3, <1>5, <1>6, Zenon DEF d

\* An owner enters the class of another.
Enters(c, d, h) ==
    Class(d) /\ d[h] # {} /\ \A o \in Owner : o # h => (d[o] = {} <=> c[o] = {})

LEMMA TogetherFacts ==
    ASSUME NEW c, Class(c), NEW h \in Owner, NEW from \in Owner, c[from] # {}
    PROVE  Enters(c, Together(c, {h}, from), h)
<1> DEFINE d == Together(c, {h}, from)
           joined == c[from] \cup {h}
<1>0. c \in [Owner -> SUBSET Owner] /\ joined \in SUBSET Owner /\ from \in c[from]
  BY DEF Class
<1>1. /\ d \in [Owner -> SUBSET Owner]
      /\ \A p \in Owner : d[p] = IF p \in joined THEN joined ELSE c[p] \ {h}
  BY <1>0 DEF Together
<1> HIDE DEF d
<1>2. \A p \in Owner : p \notin joined => p \notin c[from] /\ p # h
  OBVIOUS
<1>3. h \in joined
  OBVIOUS
<1> HIDE DEF joined
<1>4. d[h] # {}
  BY <1>1, <1>3
<1>5. ASSUME NEW o \in Owner, d[o] # {} PROVE o \in d[o]
  BY <1>1, <1>2, <1>5 DEF Class
<1>6. ASSUME NEW o \in Owner, o # h PROVE d[o] = {} <=> c[o] = {}
  <2>1. CASE o \in joined
    <3>1. o \in c[from]
      BY <1>6, <2>1 DEF joined
    <3>2. c[o] = c[from]
      BY <3>1 DEF Class
    <3> QED
      BY <1>1, <2>1, <3>2
  <2>2. CASE o \notin joined
    BY <1>1, <1>6, <2>2 DEF Class
  <2> QED
    BY <2>1, <2>2
<1>7. ASSUME NEW o \in Owner, NEW p \in d[o] PROVE d[p] = d[o]
  <2>1. CASE o \in joined
    BY <1>0, <1>1, <1>7, <2>1
  <2>2. CASE o \notin joined
    <3>1. p \in c[o] /\ p # h /\ p \in Owner
      BY <1>0, <1>1, <1>7, <2>2
    <3>2. c[p] = c[o]
      BY <3>1 DEF Class
    <3>3. p \notin joined
      <4>1. p \notin c[from]
        <5> SUFFICES ASSUME p \in c[from] PROVE FALSE
          OBVIOUS
        <5>1. c[o] = c[from]
          BY <3>2 DEF Class
        <5>2. o \in c[o]
          BY <3>1 DEF Class
        <5> QED
          BY <1>2, <2>2, <5>1, <5>2
      <4> QED
        BY <3>1, <4>1 DEF joined
    <3> QED
      BY <1>1, <2>2, <3>1, <3>2, <3>3, Zenon
  <2> QED
    BY <2>1, <2>2
<1>8. Class(d)
  BY <1>1, <1>5, <1>7 DEF Class
<1> QED
  BY <1>4, <1>6, <1>8, Zenon DEF d, Enters

\* An owner goes.
LEMMA GoneFacts ==
    ASSUME NEW c, Class(c), NEW h \in Owner
    PROVE  LET d == [p \in Owner |-> IF p = h THEN {} ELSE c[p] \ {h}]
           IN  Class(d) /\ d[h] = {} /\ \A o \in Owner : o # h => (d[o] = {} <=> c[o] = {})
<1> DEFINE d == [p \in Owner |-> IF p = h THEN {} ELSE c[p] \ {h}]
<1>0. c \in [Owner -> SUBSET Owner]
  BY DEF Class
<1>1. /\ d \in [Owner -> SUBSET Owner] /\ d[h] = {}
      /\ \A o \in Owner : o # h => d[o] = c[o] \ {h}
  BY <1>0
<1> HIDE DEF d
<1>2. \A o \in Owner : o # h => (d[o] = {} <=> c[o] = {})
  BY <1>1 DEF Class
<1>3. \A o \in Owner : d[o] # {} => o \in d[o]
  BY <1>1 DEF Class
<1>4. ASSUME NEW o \in Owner, NEW p \in d[o] PROVE d[p] = d[o]
  <2>1. o # h
    BY <1>1, <1>4
  <2>2. p \in c[o] /\ p # h /\ p \in Owner
    BY <1>0, <1>1, <1>4, <2>1
  <2>3. c[p] = c[o]
    BY <2>2 DEF Class
  <2> QED
    BY <1>1, <2>1, <2>2, <2>3
<1> QED
  BY <1>1, <1>2, <1>3, <1>4, Zenon DEF Class, d

\* Arc::make_mut of a generation, whether it copies or not.
LEMMA MadeFacts ==
    ASSUME NEW hp, Sound(hp), NEW h \in Owner, hp.gen[h] # {}
    PROVE  LET made == MakeMutGeneration(hp, h)
           IN  /\ made \in Heap /\ made.gen = Apart(hp.gen, {h})
               /\ made.share = hp.share /\ made.files = hp.files
<1>1. Class(hp.gen) /\ hp \in Heap
  BY DEF Sound
<1>2. Class(Apart(hp.gen, {h})) /\ (hp.gen[h] = {h} => Apart(hp.gen, {h}) = hp.gen)
  BY <1>1, ApartFacts, Zenon
<1>3. Apart(hp.gen, {h}) \in [Owner -> SUBSET Owner]
  BY <1>2, Zenon DEF Class
<1>4. CASE hp.gen[h] = {h}
  BY <1>1, <1>2, <1>4 DEF MakeMutGeneration
<1>5. CASE hp.gen[h] # {h}
  <2>1. MakeMutGeneration(hp, h) = [hp EXCEPT !.gen = Apart(hp.gen, {h})]
    BY <1>5 DEF MakeMutGeneration
  <2> QED
    BY <1>1, <1>3, <2>1, Zenon DEF Heap
<1> QED
  BY <1>4, <1>5

\* What a change of layer f of owner h leaves: the other layers, and those of others.
Changed(hp, r, h, f, files) ==
    /\ r \in Heap
    /\ r.gen = Apart(hp.gen, {h})
    /\ \A g \in Field : g # f => r.share[g] = hp.share[g] /\ r.files[g] = hp.files[g]
    /\ \A o \in Owner : o # h => r.files[f][o] = hp.files[f][o]
    /\ r.files[f][h] = files
    /\ Class(r.share[f]) /\ SameOwners(hp.share[f], r.share[f])

\* Such a heap is sound.
LEMMA ChangedSound ==
    ASSUME NEW hp, Sound(hp), NEW h \in Owner, hp.gen[h] # {}, NEW f \in Field, NEW files \in LayerOf(f),
           NEW r, Changed(hp, r, h, f, files)
    PROVE  Sound(r) /\ SameOwners(hp.gen, r.gen)
<1>1. Class(r.gen) /\ SameOwners(hp.gen, r.gen)
  <2>1. Class(hp.gen) /\ r.gen = Apart(hp.gen, {h})
    BY Zenon DEF Sound, Changed
  <2>2. Class(Apart(hp.gen, {h})) /\ SameOwners(hp.gen, Apart(hp.gen, {h}))
    BY <2>1, ApartFacts, Zenon
  <2> QED
    BY <2>1, <2>2
<1>2. \A g \in Field : Class(r.share[g])
  BY Zenon DEF Sound, Changed
<1>3. \A g \in Field, o \in Owner : r.share[g][o] = {} <=> r.gen[o] = {}
  <2> SUFFICES ASSUME NEW g \in Field, NEW o \in Owner PROVE r.share[g][o] = {} <=> r.gen[o] = {}
    OBVIOUS
  <2>1. (hp.share[g][o] = {} <=> hp.gen[o] = {}) /\ (r.gen[o] = {} <=> hp.gen[o] = {})
    BY <1>1, Zenon DEF Sound, SameOwners
  <2>2. r.share[g][o] = {} <=> hp.share[g][o] = {}
    <3>1. CASE g = f
      BY <3>1 DEF Changed, SameOwners
    <3>2. CASE g # f
      BY <3>2 DEF Changed
    <3> QED
      BY <3>1, <3>2
  <2> QED
    BY <2>1, <2>2
<1>4. \A g \in Field, o \in Owner : r.gen[o] # {} => r.files[g][o] \in LayerOf(g)
  <2> SUFFICES ASSUME NEW g \in Field, NEW o \in Owner, r.gen[o] # {}
               PROVE  r.files[g][o] \in LayerOf(g)
    OBVIOUS
  <2>1. hp.gen[o] # {}
    BY <1>1, Zenon DEF SameOwners
  <2>2. hp.files[g][o] \in LayerOf(g)
    BY <2>1, Zenon DEF Sound
  <2>3. r.files[g][o] = hp.files[g][o] \/ (g = f /\ o = h /\ r.files[g][o] = files)
    BY Zenon DEF Changed
  <2> QED
    BY <2>2, <2>3
<1> QED
  BY <1>1, <1>2, <1>3, <1>4, Zenon DEF Sound, Changed

\* Only what h holds in layer f is new.
Replaced(hp, r, h, f, files) ==
    /\ r \in Heap /\ r.gen = hp.gen /\ r.share = hp.share
    /\ \A g \in Field : g # f => r.files[g] = hp.files[g]
    /\ \A o \in Owner : o # h => r.files[f][o] = hp.files[f][o]
    /\ r.files[f][h] = files

\* A file written into the layer that only h shares.
LEMMA StoreFacts ==
    ASSUME NEW hp \in Heap, NEW h \in Owner, NEW f \in Field, hp.share[f][h] = {h},
           NEW files \in Contents
    PROVE  Replaced(hp, Store(hp, h, f, files), h, f, files)
<1> DEFINE new == [o \in Owner |-> IF o \in {h} THEN files ELSE hp.files[f][o]]
           all == [hp.files EXCEPT ![f] = new]
           r == Store(hp, h, f, files)
<1>1. /\ new \in [Owner -> Contents \cup {Dropped}] /\ new[h] = files
      /\ \A o \in Owner : o # h => new[o] = hp.files[f][o]
  BY DEF Heap
<1> HIDE DEF new
<1>2. all \in [Field -> [Owner -> Contents \cup {Dropped}]] /\ all[f] = new
      /\ \A g \in Field : g # f => all[g] = hp.files[g]
  BY <1>1, Zenon DEF Heap
<1>3. r = [hp EXCEPT !.files = all]
  BY DEF Store, Heap, new
<1> HIDE DEF all, r
<1>4. r \in Heap /\ r.gen = hp.gen /\ r.share = hp.share /\ r.files = all
  BY <1>2, <1>3, Zenon DEF Heap
<1> QED
  BY <1>1, <1>2, <1>4 DEF r, Replaced

\* A layer of h's own in a heap whose generation is h's own.
OwnLayer(hp, h, f) == [hp EXCEPT !.share[f] = Apart(@, {h})]

LEMMA OwnLayerFacts ==
    ASSUME NEW hp \in Heap, NEW h \in Owner, NEW f \in Field, Class(hp.share[f]), hp.share[f][h] # {}
    PROVE  LET r == OwnLayer(hp, h, f)
           IN  /\ r \in Heap /\ r.gen = hp.gen /\ r.files = hp.files
               /\ r.share[f] = Apart(hp.share[f], {h})
               /\ \A g \in Field : g # f => r.share[g] = hp.share[g]
<1> DEFINE new == Apart(hp.share[f], {h})
           all == [hp.share EXCEPT ![f] = new]
           r == OwnLayer(hp, h, f)
<1>1. new \in [Owner -> SUBSET Owner]
  BY ApartFacts, Zenon DEF Class
<1> HIDE DEF new
<1>2. all \in [Field -> [Owner -> SUBSET Owner]] /\ all[f] = new
      /\ \A g \in Field : g # f => all[g] = hp.share[g]
  BY <1>1, Zenon DEF Heap
<1>3. r = [hp EXCEPT !.share = all]
  BY DEF OwnLayer, Heap, new
<1> HIDE DEF all, r
<1>4. r \in Heap /\ r.gen = hp.gen /\ r.files = hp.files /\ r.share = all
  BY <1>2, <1>3, Zenon DEF Heap
<1> QED
  BY <1>2, <1>4 DEF r, new

\* Arc::make_mut of a layer copies exactly when another generation has it.
LEMMA MutFacts ==
    ASSUME NEW hp, Sound(hp), NEW h \in Owner, hp.gen[h] # {}, NEW f \in Field
    PROVE  LET made == MakeMutGeneration(hp, h)
               mut == MakeMutLayer(made, h, f)
           IN  /\ mut \in Heap /\ mut.gen = Apart(hp.gen, {h}) /\ mut.files = hp.files
               /\ mut.share[f] = Apart(hp.share[f], {h})
               /\ \A g \in Field : g # f => mut.share[g] = hp.share[g]
<1> DEFINE made == MakeMutGeneration(hp, h)
           mut == MakeMutLayer(made, h, f)
           class == hp.share[f][h]
           owners == LayerOwners(made, f, h)
<1>0. /\ made \in Heap /\ made.gen = Apart(hp.gen, {h})
      /\ made.share = hp.share /\ made.files = hp.files
  BY MadeFacts
<1>1. Class(made.gen) /\ made.gen[h] = {h} /\ SameOwners(hp.gen, made.gen)
  <2>1. Class(hp.gen)
    BY DEF Sound
  <2>2. /\ Class(Apart(hp.gen, {h})) /\ Apart(hp.gen, {h})[h] = {h}
        /\ SameOwners(hp.gen, Apart(hp.gen, {h}))
    BY <2>1, ApartFacts, Zenon
  <2> QED
    BY <1>0, <2>2
<1>2. /\ Class(hp.share[f]) /\ class # {} /\ h \in class /\ class \in SUBSET Owner
  BY DEF Sound, Class
<1>3. /\ Class(Apart(hp.share[f], {h})) /\ (class = {h} => Apart(hp.share[f], {h}) = hp.share[f])
  BY <1>2, ApartFacts, Zenon
<1> HIDE DEF made
<1>4. owners = {made.gen[o] : o \in class}
  BY <1>0 DEF LayerOwners
<1>5. ASSUME NEW o \in class PROVE o \in made.gen[o]
  <2>1. o \in Owner /\ hp.share[f][o] = class
    BY <1>2, <1>5 DEF Class
  <2>2. hp.gen[o] # {}
    BY <1>2, <2>1 DEF Sound
  <2> QED
    BY <1>1, <2>1, <2>2 DEF SameOwners, Class
<1> HIDE DEF class, owners
<1>6. owners = {{h}} <=> class = {h}
  <2>1. ASSUME owners = {{h}}, NEW o \in class PROVE o = h
    BY <1>4, <1>5, <2>1
  <2>2. ASSUME class = {h} PROVE owners = {{h}}
    BY <1>1, <1>4, <2>2
  <2> QED
    BY <1>2, <2>1, <2>2
<1>7. mut = IF class = {h} THEN made ELSE OwnLayer(made, h, f)
  BY <1>1, <1>6, Zenon DEF MakeMutLayer, OwnLayer, owners
<1>8. LET r == OwnLayer(made, h, f)
       IN  /\ r \in Heap /\ r.gen = made.gen /\ r.files = made.files
           /\ r.share[f] = Apart(made.share[f], {h})
           /\ \A g \in Field : g # f => r.share[g] = made.share[g]
  BY <1>0, <1>2, OwnLayerFacts, Zenon DEF class
<1> HIDE DEF mut
<1>9. CASE class = {h}
  BY <1>0, <1>3, <1>7, <1>9 DEF mut, made
<1>10. CASE class # {h}
  BY <1>0, <1>7, <1>8, <1>10 DEF mut, made
<1> QED
  BY <1>9, <1>10

\* The layer written, cleared or replaced is h's own by then, so it is all that changes.
LEMMA WriteFacts ==
    ASSUME NEW hp, Sound(hp), NEW h \in Owner, hp.gen[h] # {}, NEW f \in Field, NEW path, NEW content,
           [hp.files[f][h] EXCEPT ![path] = content] \in LayerOf(f)
    PROVE  Changed(hp, WriteLayer(hp, h, f, path, content), h, f,
                   [hp.files[f][h] EXCEPT ![path] = content])
<1> DEFINE files == [hp.files[f][h] EXCEPT ![path] = content]
           mut == MakeMutLayer(MakeMutGeneration(hp, h), h, f)
           r == Store(mut, h, f, files)
<1>1. /\ mut \in Heap /\ mut.gen = Apart(hp.gen, {h}) /\ mut.files = hp.files
      /\ mut.share[f] = Apart(hp.share[f], {h})
      /\ \A g \in Field : g # f => mut.share[g] = hp.share[g]
  BY MutFacts, Zenon
<1>2. files \in Contents
  BY DEF LayerOf, Contents
<1>3. Class(hp.share[f]) /\ hp.share[f][h] # {}
  BY DEF Sound
<1>4. /\ Class(Apart(hp.share[f], {h})) /\ Apart(hp.share[f], {h})[h] = {h}
      /\ SameOwners(hp.share[f], Apart(hp.share[f], {h}))
  BY <1>3, ApartFacts, Zenon
<1>5. WriteLayer(hp, h, f, path, content) = r
  BY <1>1, Zenon DEF WriteLayer
<1> HIDE DEF files, mut
<1>6. Replaced(mut, r, h, f, files)
  <2>1. mut.share[f][h] = {h}
    BY <1>1, <1>4
  <2> QED
    BY <1>1, <1>2, <2>1, StoreFacts, Zenon
<1> HIDE DEF r
<1>7. Changed(hp, r, h, f, files)
  BY <1>1, <1>4, <1>6 DEF Changed, Replaced
<1> QED
  BY <1>5, <1>7 DEF files

LEMMA NewFacts ==
    ASSUME NEW hp, Sound(hp), NEW h \in Owner, hp.gen[h] # {}, NEW f \in Field, NEW files \in LayerOf(f)
    PROVE  Changed(hp, NewLayer(hp, h, f, files), h, f, files)
<1> DEFINE made == MakeMutGeneration(hp, h)
           own == OwnLayer(made, h, f)
           r == Store(own, h, f, files)
<1>1. /\ made \in Heap /\ made.gen = Apart(hp.gen, {h})
      /\ made.share = hp.share /\ made.files = hp.files
  BY MadeFacts, Zenon
<1>2. files \in Contents
  BY DEF LayerOf, Contents
<1>3. Class(hp.gen) /\ Class(hp.share[f]) /\ hp.share[f][h] # {}
  BY DEF Sound
<1>4. /\ Class(Apart(hp.share[f], {h})) /\ Apart(hp.share[f], {h})[h] = {h}
      /\ SameOwners(hp.share[f], Apart(hp.share[f], {h}))
  BY <1>3, ApartFacts, Zenon
<1>5. made.gen[h] = {h}
  <2>1. Apart(hp.gen, {h})[h] = {h}
    BY <1>3, ApartFacts, Zenon
  <2> QED
    BY <1>1, <2>1
<1> HIDE DEF made
<1>6. NewLayer(hp, h, f, files) = r
  BY <1>5, Zenon DEF NewLayer, OwnLayer, made
<1>7. /\ own \in Heap /\ own.gen = made.gen /\ own.files = made.files
      /\ own.share[f] = Apart(made.share[f], {h})
      /\ \A g \in Field : g # f => own.share[g] = made.share[g]
  BY <1>1, <1>3, OwnLayerFacts, Zenon
<1> HIDE DEF own
<1>8. Replaced(own, r, h, f, files)
  <2>1. own.share[f][h] = {h}
    BY <1>1, <1>4, <1>7
  <2> QED
    BY <1>2, <1>7, <2>1, StoreFacts, Zenon
<1> HIDE DEF r
<1>9. Changed(hp, r, h, f, files)
  BY <1>1, <1>4, <1>7, <1>8 DEF Changed, Replaced
<1> QED
  BY <1>6, <1>9

LEMMA ShareFacts ==
    ASSUME NEW hp, Sound(hp), NEW h \in Owner, hp.gen[h] # {}, NEW f \in Field,
           NEW source \in Owner, hp.gen[source] # {}, h # source
    PROVE  Changed(hp, ShareLayer(hp, h, f, source), h, f, hp.files[f][source])
<1> DEFINE made == MakeMutGeneration(hp, h)
           class == Together(hp.share[f], {h}, source)
           held == [o \in Owner |-> IF o \in {h} THEN hp.files[f][source] ELSE hp.files[f][o]]
           r == ShareLayer(hp, h, f, source)
<1>1. /\ made \in Heap /\ made.gen = Apart(hp.gen, {h})
      /\ made.share = hp.share /\ made.files = hp.files
  BY MadeFacts, Zenon
<1>3. Class(hp.gen) /\ Class(hp.share[f]) /\ hp.share[f][h] # {} /\ hp.share[f][source] # {} /\ hp \in Heap
  BY DEF Sound
<1>4. Enters(hp.share[f], class, h)
  BY <1>3, TogetherFacts, Zenon
<1>5. made.gen[h] = {h}
  <2>1. Apart(hp.gen, {h})[h] = {h}
    BY <1>3, ApartFacts, Zenon
  <2> QED
    BY <1>1, <2>1
<1>6. SameOwners(hp.share[f], class)
  BY <1>3, <1>4, Zenon DEF SameOwners, Enters
<1>7. held \in [Owner -> Contents \cup {Dropped}] /\ held[h] = hp.files[f][source]
      /\ \A o \in Owner : o # h => held[o] = hp.files[f][o]
  BY <1>3 DEF Heap
<1> HIDE DEF made
<1>8. r = [made EXCEPT !.share = [hp.share EXCEPT ![f] = class], !.files = [hp.files EXCEPT ![f] = held]]
  BY <1>1, <1>5, Zenon DEF ShareLayer, made, Heap
<1> HIDE DEF class, held, r
<1>9. /\ r \in Heap /\ r.gen = made.gen
      /\ r.share = [hp.share EXCEPT ![f] = class] /\ r.files = [hp.files EXCEPT ![f] = held]
  BY <1>1, <1>3, <1>4, <1>7, <1>8, Zenon DEF Heap, Class, Enters
<1>10. /\ r.share[f] = class /\ r.files[f] = held
       /\ \A g \in Field : g # f => r.share[g] = hp.share[g] /\ r.files[g] = hp.files[g]
  BY <1>3, <1>9 DEF Heap
<1> QED
  BY <1>1, <1>4, <1>6, <1>7, <1>9, <1>10 DEF Changed, Enters, r

\* Nothing is seen of a step on owner o through the others.
Touched(hp, r, o) ==
    \A p \in Owner : p # o => /\ r.gen[p] = {} <=> hp.gen[p] = {}
                              /\ \A f \in Field : r.files[f][p] = hp.files[f][p]

LEMMA ChangedTouched ==
    ASSUME NEW hp, Sound(hp), NEW h \in Owner, hp.gen[h] # {}, NEW f \in Field, NEW files \in LayerOf(f),
           NEW r, Changed(hp, r, h, f, files)
    PROVE  Sound(r) /\ Touched(hp, r, h) /\ r.gen[h] # {}
<1>1. Sound(r) /\ SameOwners(hp.gen, r.gen)
  BY ChangedSound, Zenon
<1>2. ASSUME NEW p \in Owner, p # h, NEW g \in Field PROVE r.files[g][p] = hp.files[g][p]
  BY <1>2 DEF Changed
<1> QED
  BY <1>1, <1>2, Zenon DEF Touched, SameOwners

\* Arc::clone: a new owner holds what the old one holds.
Cloned(hp, r, o, from) ==
    /\ Sound(r) /\ Touched(hp, r, o) /\ r.gen[o] # {}
    /\ \A f \in Field : r.files[f][o] = hp.files[f][from]

LEMMA CloneFacts ==
    ASSUME NEW hp, Sound(hp), NEW o \in Owner, hp.gen[o] = {}, NEW from \in Owner, hp.gen[from] # {}
    PROVE  Cloned(hp, CloneArc(hp, o, from), o, from)
<1> DEFINE r == CloneArc(hp, o, from)
<1>1. Class(hp.gen) /\ hp \in Heap
      /\ \A f \in Field : Class(hp.share[f]) /\ hp.share[f][from] # {}
  BY DEF Sound
<1>2. Enters(hp.gen, Together(hp.gen, {o}, from), o)
  BY <1>1, TogetherFacts, Zenon
<1>3. ASSUME NEW f \in Field PROVE Enters(hp.share[f], Together(hp.share[f], {o}, from), o)
  BY <1>1, TogetherFacts, Zenon
<1>4. /\ r.gen = Together(hp.gen, {o}, from)
      /\ \A f \in Field : r.share[f] = Together(hp.share[f], {o}, from)
      /\ \A f \in Field : r.files[f] = [hp.files[f] EXCEPT ![o] = hp.files[f][from]]
  BY DEF CloneArc
<1>5. r \in Heap
  <2>1. [f \in Field |-> Together(hp.share[f], {o}, from)] \in [Field -> [Owner -> SUBSET Owner]]
    BY <1>3, Zenon DEF Class, Enters
  <2>2. [f \in Field |-> [hp.files[f] EXCEPT ![o] = hp.files[f][from]]]
            \in [Field -> [Owner -> Contents \cup {Dropped}]]
    BY <1>1 DEF Heap
  <2> QED
    BY <1>2, <2>1, <2>2, Zenon DEF CloneArc, Heap, Class, Enters
<1> HIDE DEF r
<1>6. \A f \in Field : /\ r.files[f][o] = hp.files[f][from]
                       /\ \A p \in Owner : p # o => r.files[f][p] = hp.files[f][p]
  <2>1. \A f \in Field : hp.files[f] \in [Owner -> Contents \cup {Dropped}]
    BY <1>1 DEF Heap
  <2> QED
    BY <1>4, <2>1, Zenon
<1>7. Enters(hp.gen, r.gen, o) /\ \A f \in Field : Enters(hp.share[f], r.share[f], o)
  BY <1>2, <1>3, <1>4
<1>8. Touched(hp, r, o)
  BY <1>6, <1>7 DEF Touched, Enters
<1>9. ASSUME NEW f \in Field, NEW p \in Owner PROVE r.share[f][p] = {} <=> r.gen[p] = {}
  <2>1. hp.share[f][p] = {} <=> hp.gen[p] = {}
    BY DEF Sound
  <2>2. CASE p = o
    BY <1>7, <2>2 DEF Enters
  <2>3. CASE p # o
    <3>1. (r.share[f][p] = {} <=> hp.share[f][p] = {}) /\ (r.gen[p] = {} <=> hp.gen[p] = {})
      BY <1>7, <2>3 DEF Enters
    <3> QED
      BY <2>1, <3>1
  <2> QED
    BY <2>2, <2>3
<1>10. ASSUME NEW f \in Field, NEW p \in Owner, r.gen[p] # {} PROVE r.files[f][p] \in LayerOf(f)
  <2>1. \A q \in Owner : hp.gen[q] # {} => hp.files[f][q] \in LayerOf(f)
    BY DEF Sound
  <2>2. CASE p = o
    BY <1>6, <2>1, <2>2
  <2>3. CASE p # o
    <3>1. hp.gen[p] # {}
      BY <1>7, <1>10, <2>3 DEF Enters
    <3> QED
      BY <1>6, <2>1, <2>3, <3>1
  <2> QED
    BY <2>2, <2>3
<1>11. Class(r.gen) /\ r.gen[o] # {} /\ \A f \in Field : Class(r.share[f])
  BY <1>7 DEF Enters
<1>12. Sound(r)
  BY <1>5, <1>9, <1>10, <1>11 DEF Sound
<1> QED
  BY <1>6, <1>8, <1>11, <1>12 DEF r, Cloned

LEMMA DropFacts ==
    ASSUME NEW hp, Sound(hp), NEW o \in Owner
    PROVE  LET r == DropArc(hp, o) IN Sound(r) /\ Touched(hp, r, o) /\ r.gen[o] = {}
<1> DEFINE r == DropArc(hp, o)
           Less(c) == [p \in Owner |-> IF p = o THEN {} ELSE c[p] \ {o}]
<1>1. Class(hp.gen) /\ hp \in Heap /\ \A f \in Field : Class(hp.share[f])
  BY DEF Sound
<1>2. /\ Class(Less(hp.gen)) /\ Less(hp.gen)[o] = {}
      /\ \A p \in Owner : p # o => (Less(hp.gen)[p] = {} <=> hp.gen[p] = {})
  BY <1>1, GoneFacts, Zenon
<1>3. ASSUME NEW f \in Field
      PROVE  /\ Class(Less(hp.share[f])) /\ Less(hp.share[f])[o] = {}
             /\ \A p \in Owner : p # o => (Less(hp.share[f])[p] = {} <=> hp.share[f][p] = {})
  BY <1>1, GoneFacts, Zenon
<1>4. /\ r.gen = Less(hp.gen)
      /\ \A f \in Field : r.share[f] = Less(hp.share[f])
      /\ \A f \in Field : r.files[f] = [hp.files[f] EXCEPT ![o] = Dropped]
  BY DEF DropArc
<1>5. r \in Heap
  <2>1. [f \in Field |-> Less(hp.share[f])] \in [Field -> [Owner -> SUBSET Owner]]
    BY <1>3 DEF Class
  <2>2. [f \in Field |-> [hp.files[f] EXCEPT ![o] = Dropped]] \in [Field -> [Owner -> Contents \cup {Dropped}]]
    BY <1>1 DEF Heap
  <2> QED
    BY <1>2, <2>1, <2>2 DEF DropArc, Heap, Class
<1> HIDE DEF r, Less
<1>6. \A f \in Field : \A p \in Owner : p # o => r.files[f][p] = hp.files[f][p]
  <2>1. \A f \in Field : hp.files[f] \in [Owner -> Contents \cup {Dropped}]
    BY <1>1 DEF Heap
  <2> QED
    BY <1>4, <2>1, Zenon
<1>7. Touched(hp, r, o)
  BY <1>2, <1>4, <1>6 DEF Touched
<1>8. \A f \in Field, p \in Owner : r.share[f][p] = {} <=> r.gen[p] = {}
  BY <1>2, <1>3, <1>4, Zenon DEF Sound
<1>9. \A f \in Field, p \in Owner : r.gen[p] # {} => r.files[f][p] \in LayerOf(f)
  BY <1>2, <1>4, <1>6 DEF Sound
<1>10. Sound(r)
  BY <1>2, <1>3, <1>4, <1>5, <1>8, <1>9 DEF Sound
<1> QED
  BY <1>2, <1>4, <1>7, <1>10 DEF r

(***************************************************************************)
(* The inductive invariant.                                                *)
(***************************************************************************)
SnapState == [pending : Pending, valid : BOOLEAN]
TxState == [target : Handle, pending : JobLayer, logical_bytes : Int, issued : SUBSET Snap]

\* A readable view of uncommitted files is one the open transaction issued.
Candidates(ss, t) ==
    \A s \in Snap : (ss[s] # NoSnap /\ ss[s].valid /\ ss[s].pending # NoPending)
                        => t # NoTx /\ s \in t.issued

Typed(ss, t) == ss \in [Snap -> SnapState \cup {NoSnap}] /\ t \in TxState \cup {NoTx}

\* Snapshots and the transaction hold what they show, and the workspace a
\* transaction borrows stays alive.
Owned(hp, ss, t) ==
    /\ \A s \in Snap : ss[s] = NoSnap <=> hp.gen[s] = {}
    /\ t = NoTx <=> hp.gen[Base] = {}
    /\ t # NoTx => hp.gen[t.target] # {}
    /\ t # NoTx => \A s \in t.issued : ss[s] # NoSnap

Good(hp, ss, t) == Sound(hp) /\ Typed(ss, t) /\ Owned(hp, ss, t) /\ Candidates(ss, t)

IInv == Good(heap, snaps, tx)

(***************************************************************************)
(* What can be seen of a heap: the values of ValueStorage.                 *)
(***************************************************************************)
Held(hp, o) == [f \in Field |-> hp.files[f][o]]

LayersOf(hp) == [h \in Handle |-> IF hp.gen[h] # {} THEN Held(hp, h) ELSE Dropped]

ViewOf(hp, ss, s) ==
    IF ss[s] = NoSnap THEN NoSnap
    ELSE [layers |-> Held(hp, s), pending |-> ss[s].pending, valid |-> ss[s].valid]

ViewsOf(hp, ss) == [s \in Snap |-> ViewOf(hp, ss, s)]

BuildOf(hp, t) ==
    IF t = NoTx THEN NoTx
    ELSE [target |-> t.target, base |-> Held(hp, Base), pending |-> t.pending, issued |-> t.issued]

LEMMA Owners ==
    /\ \A h \in Handle : h \in Owner /\ h \notin Snap /\ h # Base
    /\ \A s \in Snap : s \in Owner /\ s \notin Handle /\ s # Base
    /\ Base \in Owner /\ Base \notin Handle /\ Base \notin Snap
BY StorageAssumption DEF Owner

LEMMA HeldFacts ==
    ASSUME NEW hp, NEW r, NEW o \in Owner, Touched(hp, r, o), NEW p \in Owner, p # o
    PROVE  Held(r, p) = Held(hp, p)
BY DEF Held, Touched

\* What an owner holds is a value for each layer.
LEMMA HeldType ==
    ASSUME NEW hp, Sound(hp), NEW o \in Owner, hp.gen[o] # {}
    PROVE  Held(hp, o) \in [Field -> Contents] /\ Held(hp, o) # Dropped
<1>1. \A f \in Field : hp.files[f][o] \in Contents
  BY DEF Sound, LayerOf, Contents
<1>2. Held(hp, o) \in [Field -> Contents]
  BY <1>1 DEF Held
<1> QED
  BY <1>2, StorageAssumption

LEMMA ViewsSame ==
    ASSUME NEW hp, NEW r, NEW o \in Owner, Touched(hp, r, o), o \notin Snap, NEW ss
    PROVE  ViewsOf(r, ss) = ViewsOf(hp, ss)
<1>1. ASSUME NEW s \in Snap PROVE ViewOf(r, ss, s) = ViewOf(hp, ss, s)
  <2>1. Held(r, s) = Held(hp, s)
    BY HeldFacts, Owners
  <2> QED
    BY <2>1 DEF ViewOf
<1> QED
  BY <1>1 DEF ViewsOf

LEMMA BuildSame ==
    ASSUME NEW hp, NEW r, NEW o \in Owner, Touched(hp, r, o), o # Base, NEW t
    PROVE  BuildOf(r, t) = BuildOf(hp, t)
<1>1. Held(r, Base) = Held(hp, Base)
  BY HeldFacts, Owners
<1> QED
  BY <1>1 DEF BuildOf

LEMMA LayersSame ==
    ASSUME NEW hp, NEW r, NEW o \in Owner, Touched(hp, r, o), o \notin Handle
    PROVE  LayersOf(r) = LayersOf(hp)
<1>1. ASSUME NEW h \in Handle PROVE Held(r, h) = Held(hp, h) /\ (r.gen[h] = {} <=> hp.gen[h] = {})
  <2>1. h \in Owner /\ h # o
    BY Owners
  <2>2. Held(r, h) = Held(hp, h)
    BY <2>1, HeldFacts, Zenon
  <2>3. r.gen[h] = {} <=> hp.gen[h] = {}
    BY <2>1, Zenon DEF Touched
  <2> QED
    BY <2>2, <2>3
<1> QED
  BY <1>1 DEF LayersOf

LEMMA LayersTouched ==
    ASSUME NEW hp, NEW r, NEW h \in Handle, Touched(hp, r, h)
    PROVE  LayersOf(r) = [LayersOf(hp) EXCEPT ![h] = IF r.gen[h] # {} THEN Held(r, h) ELSE Dropped]
<1>1. ASSUME NEW g \in Handle, g # h PROVE Held(r, g) = Held(hp, g) /\ (r.gen[g] = {} <=> hp.gen[g] = {})
  <2>1. g \in Owner /\ h \in Owner
    BY Owners
  <2>2. Held(r, g) = Held(hp, g)
    BY <1>1, <2>1, HeldFacts, Zenon
  <2>3. r.gen[g] = {} <=> hp.gen[g] = {}
    BY <1>1, <2>1, Zenon DEF Touched
  <2> QED
    BY <2>2, <2>3
<1> QED
  BY <1>1, Zenon DEF LayersOf

\* A live owner's values, seen.
LEMMA LiveLayers ==
    ASSUME NEW hp, Sound(hp), NEW h \in Handle
    PROVE  /\ hp.gen[h] # {} => LayersOf(hp)[h] = Held(hp, h) /\ LayersOf(hp)[h] # Dropped
           /\ hp.gen[h] = {} => LayersOf(hp)[h] = Dropped
<1>1. hp.gen[h] # {} => Held(hp, h) # Dropped
  BY HeldType, Owners
<1> QED
  BY <1>1 DEF LayersOf

LEMMA OpenBuild ==
    ASSUME NEW hp, NEW ss, NEW t, Good(hp, ss, t)
    PROVE  /\ BuildOf(hp, t) = NoTx <=> t = NoTx
           /\ t # NoTx => /\ t \in TxState
                          /\ BuildOf(hp, t) = [target |-> t.target, base |-> Held(hp, Base),
                                               pending |-> t.pending, issued |-> t.issued]
<1>1. CASE t = NoTx
  BY <1>1 DEF BuildOf
<1>2. CASE t # NoTx
  <2>1. t \in TxState
    BY <1>2 DEF Good, Typed
  <2>2. Held(hp, Base) \in [Field -> Contents]
    BY <1>2, Owners, HeldType DEF Good, Owned
  <2>3. BuildOf(hp, t) = [target |-> t.target, base |-> Held(hp, Base),
                          pending |-> t.pending, issued |-> t.issued]
    BY <1>2 DEF BuildOf
  <2>4. BuildOf(hp, t) \in [target : Handle, base : [Field -> Contents], pending : JobLayer,
                            issued : SUBSET Snap]
    BY <2>1, <2>2, <2>3 DEF TxState
  <2> QED
    BY <1>2, <2>1, <2>3, <2>4, StorageAssumption, Zenon
<1> QED
  BY <1>1, <1>2

LEMMA LiveViews ==
    ASSUME NEW hp, NEW ss, NEW t, Good(hp, ss, t), NEW s \in Snap
    PROVE  ViewsOf(hp, ss)[s] = NoSnap <=> ss[s] = NoSnap
<1>0. ViewsOf(hp, ss)[s] = ViewOf(hp, ss, s)
  BY DEF ViewsOf
<1>1. CASE ss[s] = NoSnap
  BY <1>0, <1>1 DEF ViewOf
<1>2. CASE ss[s] # NoSnap
  <2>1. ss[s] \in SnapState
    BY <1>2 DEF Good, Typed
  <2>2. Held(hp, s) \in [Field -> Contents]
    BY <1>2, Owners, HeldType, Zenon DEF Good, Owned
  <2>3. ViewOf(hp, ss, s) = [layers |-> Held(hp, s), pending |-> ss[s].pending, valid |-> ss[s].valid]
    BY <1>2 DEF ViewOf
  <2>4. ViewOf(hp, ss, s) \in [layers : [Field -> Contents], pending : Pending, valid : BOOLEAN]
    BY <2>1, <2>2, <2>3 DEF SnapState
  <2> QED
    BY <1>0, <1>2, <2>1, <2>3, <2>4, StorageAssumption, Zenon
<1> QED
  BY <1>1, <1>2

(***************************************************************************)
(* Every step keeps the invariant and is a step of ValueStorage.           *)
(***************************************************************************)
\* A workspace may change while no transaction borrows it.
LEMMA UsableFree ==
    ASSUME IInv, NEW h \in Handle, Usable(h)
    PROVE  Values!Free(h)
<1>1. LayersOf(heap)[h] # Dropped
  BY LiveLayers, Zenon DEF IInv, Good, Usable, Live
<1>2. BuildOf(heap, tx) # NoTx => BuildOf(heap, tx).target # h
  BY OpenBuild DEF IInv, Usable
<1> QED
  BY <1>1, <1>2 DEF Values!Free, LayersOf, BuildOf, Held, Live, Deref

\* Steps on a workspace that is not borrowed leave the snapshots and the transaction.
LEMMA HandleStep ==
    ASSUME IInv, NEW h \in Handle, tx # NoTx => tx.target # h,
           Sound(heap'), Touched(heap, heap', h), UNCHANGED <<snaps, tx>>
    PROVE  IInv' /\ ViewsOf(heap', snaps') = ViewsOf(heap, snaps) /\ BuildOf(heap', tx') = BuildOf(heap, tx)
<1>1. h \in Owner /\ h \notin Snap /\ h # Base
  BY Owners
<1>2. Owned(heap, snaps, tx) /\ Typed(snaps, tx) /\ Candidates(snaps, tx)
  BY DEF IInv, Good
<1>3. \A s \in Snap : heap'.gen[s] = {} <=> heap.gen[s] = {}
  BY <1>1, Owners DEF Touched
<1>4. heap'.gen[Base] = {} <=> heap.gen[Base] = {}
  BY <1>1, Owners DEF Touched
<1>5. tx # NoTx => heap'.gen[tx.target] # {}
  <2> SUFFICES ASSUME tx # NoTx PROVE heap'.gen[tx.target] # {}
    OBVIOUS
  <2>1. tx.target \in Handle
    BY <1>2 DEF Typed, TxState
  <2>2. tx.target \in Owner /\ tx.target # h /\ heap.gen[tx.target] # {}
    BY <1>2, <2>1, Owners DEF Owned
  <2> QED
    BY <2>2 DEF Touched
<1>6. Owned(heap', snaps, tx)
  BY <1>2, <1>3, <1>4, <1>5, Zenon DEF Owned
<1>7. IInv'
  BY <1>2, <1>6 DEF IInv, Good
<1>8. ViewsOf(heap', snaps) = ViewsOf(heap, snaps) /\ BuildOf(heap', tx) = BuildOf(heap, tx)
  BY <1>1, ViewsSame, BuildSame, Zenon
<1> QED
  BY <1>7, <1>8

\* One layer of a workspace.
LEMMA ChangeStep ==
    ASSUME IInv, NEW h \in Handle, Usable(h), NEW f \in Field, NEW files \in LayerOf(f),
           f = "generated" => files = EmptyJob,
           Changed(heap, heap', h, f, files), UNCHANGED <<snaps, tx>>
    PROVE  IInv' /\ Values!ChangeLayer(h)
<1>1. Sound(heap) /\ heap.gen[h] # {} /\ h \in Owner
  BY Owners DEF IInv, Good, Usable, Live
<1>2. Sound(heap') /\ Touched(heap, heap', h) /\ heap'.gen[h] # {}
  BY <1>1, ChangedTouched, Zenon
<1>3. IInv' /\ ViewsOf(heap', snaps') = ViewsOf(heap, snaps) /\ BuildOf(heap', tx') = BuildOf(heap, tx)
  BY <1>2, HandleStep, Zenon DEF Usable
<1>4. Held(heap', h) = [Held(heap, h) EXCEPT ![f] = files]
  <2>1. \A g \in Field : g # f => heap'.files[g][h] = heap.files[g][h]
    BY DEF Changed
  <2>2. heap'.files[f][h] = files
    BY DEF Changed
  <2> QED
    BY <2>1, <2>2, Zenon DEF Held
<1>5. LayersOf(heap)[h] = Held(heap, h)
  BY <1>1, LiveLayers
<1>6. LayersOf(heap') = [LayersOf(heap) EXCEPT ![h] = [LayersOf(heap)[h] EXCEPT ![f] = files]]
  <2>1. LayersOf(heap') = [LayersOf(heap) EXCEPT ![h] = IF heap'.gen[h] # {} THEN Held(heap', h) ELSE Dropped]
    BY <1>2, LayersTouched, Zenon
  <2> QED
    BY <1>2, <1>4, <1>5, <2>1
<1>7. \/ \E user \in JobLayer : LayersOf(heap') = [LayersOf(heap) EXCEPT ![h].user = user]
      \/ \E new \in DistributionLayer : LayersOf(heap') = [LayersOf(heap) EXCEPT ![h].resolved = new]
      \/ LayersOf(heap') = [LayersOf(heap) EXCEPT ![h].generated = EmptyJob]
  <2>1. CASE f = "user"
    BY <1>6, <2>1, Zenon DEF LayerOf
  <2>2. CASE f = "resolved"
    BY <1>6, <2>2, Zenon DEF LayerOf
  <2>3. CASE f = "generated"
    BY <1>6, <2>3, Zenon
  <2> QED
    BY <2>1, <2>2, <2>3 DEF Field
<1>8. Values!Free(h)
  BY UsableFree
<1>9. Values!ChangeLayer(h)
  BY <1>3, <1>7, <1>8, Zenon DEF Values!ChangeLayer, LayersOf, ViewsOf, ViewOf, BuildOf, Held, Live, Deref
<1> QED
  BY <1>3, <1>9

\* A file written to a layer is a layer.
LEMMA FileWritten ==
    ASSUME NEW hp, Sound(hp), NEW h \in Owner, hp.gen[h] # {}, NEW content \in Content
    PROVE  /\ \A path \in JobPath : [hp.files["user"][h] EXCEPT ![path] = content] \in JobLayer
           /\ \A path \in DistributionPath :
                 [hp.files["resolved"][h] EXCEPT ![path] = content] \in DistributionLayer
<1>1. hp.files["user"][h] \in LayerOf("user") /\ hp.files["resolved"][h] \in LayerOf("resolved")
  BY DEF Sound, Field
<1>2. hp.files["user"][h] \in JobLayer /\ hp.files["resolved"][h] \in DistributionLayer
  BY <1>1 DEF LayerOf
<1> QED
  BY <1>2 DEF JobLayer, DistributionLayer

LEMMA LayerStep ==
    ASSUME IInv, NEW h \in Handle,
           \/ \E path \in JobPath, content \in Content : ReplaceUser(h, path, content)
           \/ \E path \in DistributionPath, content \in Content : InsertResolved(h, path, content)
           \/ ClearResolved(h)
           \/ ClearGenerated(h)
           \/ \E source \in Handle : h # source /\ CopyResolvedFrom(h, source)
    PROVE  IInv' /\ Values!ChangeLayer(h)
<1>1. Usable(h) /\ UNCHANGED <<snaps, tx>>
  BY DEF ReplaceUser, InsertResolved, ClearResolved, ClearGenerated, CopyResolvedFrom
<1>2. Sound(heap) /\ heap.gen[h] # {} /\ h \in Owner
  BY <1>1, Owners, Zenon DEF IInv, Good, Usable, Live
<1>3. "user" \in Field /\ "resolved" \in Field /\ "generated" \in Field
  BY DEF Field
<1>4. ASSUME NEW path \in JobPath, NEW content \in Content, ReplaceUser(h, path, content)
      PROVE  IInv' /\ Values!ChangeLayer(h)
  <2> DEFINE files == [heap.files["user"][h] EXCEPT ![path] = content]
  <2>1. files \in LayerOf("user")
    BY <1>2, FileWritten, Zenon DEF LayerOf
  <2>2. Changed(heap, WriteLayer(heap, h, "user", path, content), h, "user", files)
    BY <1>2, <1>3, <2>1, WriteFacts, Zenon
  <2>3. Changed(heap, heap', h, "user", files)
    BY <1>4, <2>2, Zenon DEF ReplaceUser
  <2> HIDE DEF files
  <2> QED
    BY <1>1, <1>3, <2>1, <2>3, ChangeStep
<1>5. ASSUME NEW path \in DistributionPath, NEW content \in Content, InsertResolved(h, path, content)
      PROVE  IInv' /\ Values!ChangeLayer(h)
  <2> DEFINE files == [heap.files["resolved"][h] EXCEPT ![path] = content]
  <2>1. files \in LayerOf("resolved")
    BY <1>2, FileWritten, Zenon DEF LayerOf
  <2>2. Changed(heap, WriteLayer(heap, h, "resolved", path, content), h, "resolved", files)
    BY <1>2, <1>3, <2>1, WriteFacts, Zenon
  <2>3. Changed(heap, heap', h, "resolved", files)
    BY <1>5, <2>2, Zenon DEF InsertResolved
  <2> HIDE DEF files
  <2> QED
    BY <1>1, <1>3, <2>1, <2>3, ChangeStep
<1>6. CASE ClearResolved(h)
  <2>1. EmptyDistribution \in LayerOf("resolved")
    BY DEF LayerOf, DistributionLayer, EmptyDistribution
  <2>2. Changed(heap, NewLayer(heap, h, "resolved", EmptyDistribution), h, "resolved", EmptyDistribution)
    BY <1>2, <1>3, <2>1, NewFacts
  <2>3. Changed(heap, heap', h, "resolved", EmptyDistribution)
    BY <1>6, <2>2 DEF ClearResolved
  <2> QED
    BY <1>1, <1>3, <2>1, <2>3, ChangeStep
<1>7. CASE ClearGenerated(h)
  <2>1. EmptyJob \in LayerOf("generated")
    BY DEF LayerOf, JobLayer, EmptyJob
  <2>2. Changed(heap, NewLayer(heap, h, "generated", EmptyJob), h, "generated", EmptyJob)
    BY <1>2, <1>3, <2>1, NewFacts, Zenon
  <2>3. Changed(heap, heap', h, "generated", EmptyJob)
    BY <1>7, <2>2 DEF ClearGenerated
  <2> QED
    BY <1>1, <1>3, <2>1, <2>3, ChangeStep
<1>8. ASSUME NEW source \in Handle, h # source, CopyResolvedFrom(h, source)
      PROVE  IInv' /\ Values!ChangeLayer(h)
  <2>1. heap.gen[source] # {} /\ source \in Owner
    BY <1>8, Owners, Zenon DEF CopyResolvedFrom, Usable, Live
  <2>2. heap.files["resolved"][source] \in LayerOf("resolved")
    BY <1>2, <1>3, <2>1, Zenon DEF Sound
  <2>3. Changed(heap, ShareLayer(heap, h, "resolved", source), h, "resolved", heap.files["resolved"][source])
    BY <1>2, <1>3, <1>8, <2>1, ShareFacts, Zenon
  <2>4. Changed(heap, heap', h, "resolved", heap.files["resolved"][source])
    BY <1>8, <2>3, Zenon DEF CopyResolvedFrom
  <2> QED
    BY <1>1, <1>3, <2>2, <2>4, ChangeStep, Zenon
<1> QED
  BY <1>4, <1>5, <1>6, <1>7, <1>8

LEMMA CloneStep ==
    ASSUME IInv, NEW h \in Handle, NEW g \in Handle, h # g, Clone(h, g)
    PROVE  IInv' /\ Values!Clone(h, g)
<1>1. Usable(h) /\ heap.gen[g] = {} /\ heap' = CloneArc(heap, g, h) /\ UNCHANGED <<snaps, tx>>
  BY DEF Clone, Live
<1>2. Sound(heap) /\ heap.gen[h] # {} /\ h \in Owner /\ g \in Owner
  BY <1>1, Owners, Zenon DEF IInv, Good, Usable, Live
<1>3. /\ Sound(heap') /\ Touched(heap, heap', g) /\ heap'.gen[g] # {}
      /\ \A f \in Field : heap'.files[f][g] = heap.files[f][h]
  <2>1. Cloned(heap, CloneArc(heap, g, h), g, h)
    BY <1>1, <1>2, CloneFacts, Zenon
  <2> QED
    BY <1>1, <2>1, Zenon DEF Cloned
<1>4. IInv' /\ ViewsOf(heap', snaps') = ViewsOf(heap, snaps) /\ BuildOf(heap', tx') = BuildOf(heap, tx)
  <2>1. tx # NoTx => tx.target # g
    BY <1>1 DEF IInv, Good, Owned
  <2> QED
    BY <1>1, <1>3, <2>1, HandleStep, Zenon
<1>5. Held(heap', g) = Held(heap, h)
  BY <1>3 DEF Held
<1>6. LayersOf(heap)[h] = Held(heap, h) /\ LayersOf(heap)[g] = Dropped
  BY <1>1, <1>2, LiveLayers
<1>7. LayersOf(heap') = [LayersOf(heap) EXCEPT ![g] = LayersOf(heap)[h]]
  <2>1. LayersOf(heap') = [LayersOf(heap) EXCEPT ![g] = IF heap'.gen[g] # {} THEN Held(heap', g) ELSE Dropped]
    BY <1>3, LayersTouched, Zenon
  <2> QED
    BY <1>3, <1>5, <1>6, <2>1
<1>8. Values!Free(h)
  BY <1>1, UsableFree
<1>9. Values!Clone(h, g)
  BY <1>4, <1>6, <1>7, <1>8, Zenon DEF Values!Clone, LayersOf, ViewsOf, ViewOf, BuildOf, Held, Live, Deref
<1> QED
  BY <1>4, <1>9

LEMMA DropStep ==
    ASSUME IInv, NEW h \in Handle, Drop(h)
    PROVE  IInv' /\ Values!Drop(h)
<1>1. Usable(h) /\ heap' = DropArc(heap, h) /\ UNCHANGED <<snaps, tx>>
  BY DEF Drop
<1>2. Sound(heap) /\ h \in Owner
  BY Owners DEF IInv, Good
<1>3. Sound(heap') /\ Touched(heap, heap', h) /\ heap'.gen[h] = {}
  BY <1>1, <1>2, DropFacts
<1>4. IInv' /\ ViewsOf(heap', snaps') = ViewsOf(heap, snaps) /\ BuildOf(heap', tx') = BuildOf(heap, tx)
  BY <1>1, <1>3, HandleStep, Zenon DEF Usable
<1>5. LayersOf(heap') = [LayersOf(heap) EXCEPT ![h] = Dropped]
  <2>1. LayersOf(heap') = [LayersOf(heap) EXCEPT ![h] = IF heap'.gen[h] # {} THEN Held(heap', h) ELSE Dropped]
    BY <1>3, LayersTouched, Zenon
  <2> QED
    BY <1>3, <2>1
<1>6. Values!Free(h)
  BY <1>1, UsableFree
<1>7. Values!Drop(h)
  BY <1>4, <1>5, <1>6, Zenon DEF Values!Drop, LayersOf, ViewsOf, ViewOf, BuildOf, Held, Live, Deref
<1> QED
  BY <1>4, <1>7

\* A snapshot comes, changes or goes.
LEMMA SnapStep ==
    ASSUME IInv, NEW s \in Snap, Sound(heap'), Touched(heap, heap', s),
           NEW x \in SnapState \cup {NoSnap}, x = NoSnap <=> heap'.gen[s] = {},
           snaps' = [snaps EXCEPT ![s] = x],
           tx' \in TxState \cup {NoTx}, tx' = NoTx <=> tx = NoTx,
           tx # NoTx => tx'.target = tx.target /\ tx'.issued \ {s} = tx.issued \ {s},
           tx # NoTx /\ s \in tx'.issued => x # NoSnap,
           x # NoSnap /\ x.valid /\ x.pending # NoPending => tx # NoTx /\ s \in tx'.issued
    PROVE  /\ IInv' /\ LayersOf(heap') = LayersOf(heap) /\ Held(heap', Base) = Held(heap, Base)
           /\ ViewsOf(heap', snaps') = [ViewsOf(heap, snaps) EXCEPT ![s] = ViewOf(heap', snaps', s)]
<1>1. s \in Owner /\ s \notin Handle /\ s # Base
  BY Owners
<1>2. Owned(heap, snaps, tx) /\ Typed(snaps, tx) /\ Candidates(snaps, tx)
  BY DEF IInv, Good
<1>3. snaps'[s] = x /\ \A p \in Snap : p # s => snaps'[p] = snaps[p]
  BY <1>2, Zenon DEF Typed
<1>4. Typed(snaps', tx')
  BY <1>2, Zenon DEF Typed
<1>5. Owned(heap', snaps', tx')
  <2>1. ASSUME NEW p \in Snap PROVE snaps'[p] = NoSnap <=> heap'.gen[p] = {}
    <3>1. CASE p = s
      BY <1>3, <3>1
    <3>2. CASE p # s
      BY <1>2, <1>3, <3>2, Owners, Zenon DEF Owned, Touched
    <3> QED
      BY <3>1, <3>2
  <2>2. tx' = NoTx <=> heap'.gen[Base] = {}
    BY <1>1, <1>2, Owners, Zenon DEF Owned, Touched
  <2>3. ASSUME tx' # NoTx PROVE heap'.gen[tx'.target] # {} /\ \A p \in tx'.issued : snaps'[p] # NoSnap
    <3>1. tx.target \in Handle /\ heap.gen[tx.target] # {} /\ \A p \in tx.issued : snaps[p] # NoSnap
      BY <1>2, <2>3, Zenon DEF Owned, Typed, TxState
    <3>2. tx.target \in Owner /\ tx.target # s
      BY <1>1, <3>1, Owners
    <3>3. heap'.gen[tx.target] # {}
      BY <3>1, <3>2 DEF Touched
    <3>4. ASSUME NEW p \in tx'.issued PROVE snaps'[p] # NoSnap
      <4>1. p \in Snap
        BY <2>3 DEF TxState
      <4>2. CASE p = s
        BY <1>3, <2>3, <4>2
      <4>3. CASE p # s
        BY <1>3, <2>3, <3>1, <4>1, <4>3
      <4> QED
        BY <4>2, <4>3, Zenon
    <3> QED
      BY <2>3, <3>3, <3>4
  <2> QED
    BY <2>1, <2>2, <2>3 DEF Owned
<1>6. Candidates(snaps', tx')
  <2> SUFFICES ASSUME NEW p \in Snap, snaps'[p] # NoSnap, snaps'[p].valid, snaps'[p].pending # NoPending
               PROVE  tx' # NoTx /\ p \in tx'.issued
    BY DEF Candidates
  <2>1. CASE p = s
    BY <1>3, <2>1
  <2>2. CASE p # s
    <3>1. tx # NoTx /\ p \in tx.issued
      BY <1>2, <1>3, <2>2, Zenon DEF Candidates
    <3> QED
      BY <2>2, <3>1
  <2> QED
    BY <2>1, <2>2
<1>7. IInv'
  BY <1>4, <1>5, <1>6, Zenon DEF IInv, Good
<1>8. LayersOf(heap') = LayersOf(heap)
  BY <1>1, LayersSame, Zenon
<1>9. Held(heap', Base) = Held(heap, Base)
  <2>1. Base \in Owner /\ Base # s
    BY <1>1, Owners
  <2> QED
    BY <1>1, <2>1, HeldFacts
<1>10. ViewsOf(heap', snaps') = [ViewsOf(heap, snaps) EXCEPT ![s] = ViewOf(heap', snaps', s)]
  <2>1. ASSUME NEW p \in Snap, p # s PROVE ViewOf(heap', snaps', p) = ViewOf(heap, snaps, p)
    <3>1. p \in Owner
      BY Owners
    <3>2. Held(heap', p) = Held(heap, p)
      BY <1>1, <2>1, <3>1, HeldFacts
    <3> QED
      BY <1>3, <2>1, <3>2, Zenon DEF ViewOf
  <2> QED
    BY <2>1, Zenon DEF ViewsOf
<1> QED
  BY <1>7, <1>8, <1>9, <1>10, Zenon

LEMMA NewSnap ==
    ASSUME NEW pending \in Pending
    PROVE  NewSnapshot(pending) \in SnapState /\ NewSnapshot(pending) # NoSnap
<1>1. NewSnapshot(pending) \in SnapState
  BY DEF NewSnapshot, SnapState
<1> QED
  BY <1>1, StorageAssumption DEF SnapState

\* A new snapshot s of what owner o holds.
Takes(s, o, pending) ==
    /\ snaps[s] = NoSnap /\ heap.gen[o] # {} /\ heap' = CloneArc(heap, s, o)
    /\ snaps' = [snaps EXCEPT ![s] = NewSnapshot(pending)]
    /\ tx' \in TxState \cup {NoTx} /\ (tx' = NoTx <=> tx = NoTx)
    /\ tx # NoTx => tx'.target = tx.target /\ tx'.issued \ {s} = tx.issued \ {s}
    /\ pending # NoPending => tx # NoTx /\ s \in tx'.issued

Shows(s, o, pending) ==
    /\ LayersOf(heap') = LayersOf(heap) /\ Held(heap', Base) = Held(heap, Base)
    /\ ViewsOf(heap, snaps)[s] = NoSnap
    /\ ViewsOf(heap', snaps') = [ViewsOf(heap, snaps) EXCEPT ![s] =
           [layers |-> Held(heap, o), pending |-> pending, valid |-> TRUE]]

LEMMA Captured ==
    ASSUME IInv, NEW s \in Snap, NEW o \in Owner, NEW pending \in Pending, Takes(s, o, pending)
    PROVE  IInv' /\ Shows(s, o, pending)
<1>1. heap.gen[s] = {} /\ s \in Owner /\ Sound(heap) /\ Typed(snaps, tx)
  BY Owners DEF IInv, Good, Owned, Takes
<1>2. /\ Sound(heap') /\ Touched(heap, heap', s) /\ heap'.gen[s] # {}
      /\ \A f \in Field : heap'.files[f][s] = heap.files[f][o]
  <2>1. heap.gen[o] # {} /\ heap' = CloneArc(heap, s, o)
    BY DEF Takes
  <2>2. Cloned(heap, CloneArc(heap, s, o), s, o)
    BY <1>1, <2>1, CloneFacts, Zenon
  <2> QED
    BY <2>1, <2>2, Zenon DEF Cloned
<1>3. NewSnapshot(pending) \in SnapState \cup {NoSnap} /\ NewSnapshot(pending) # NoSnap
  BY NewSnap
<1>4. NewSnapshot(pending).pending = pending /\ NewSnapshot(pending).valid = TRUE
  BY DEF NewSnapshot
<1>5. /\ IInv' /\ LayersOf(heap') = LayersOf(heap) /\ Held(heap', Base) = Held(heap, Base)
      /\ ViewsOf(heap', snaps') = [ViewsOf(heap, snaps) EXCEPT ![s] = ViewOf(heap', snaps', s)]
  BY <1>2, <1>3, <1>4, SnapStep, Zenon DEF Takes
<1>6. snaps'[s] = NewSnapshot(pending)
  BY <1>1, Zenon DEF Typed, Takes
<1>7. Held(heap', s) = Held(heap, o)
  BY <1>2 DEF Held
<1>8. ViewOf(heap', snaps', s) = [layers |-> Held(heap, o), pending |-> pending, valid |-> TRUE]
  BY <1>3, <1>4, <1>6, <1>7, Zenon DEF ViewOf
<1>9. ViewsOf(heap, snaps)[s] = NoSnap
  BY DEF ViewsOf, ViewOf, Takes
<1> QED
  BY <1>5, <1>8, <1>9 DEF Shows

LEMMA SnapshotStep ==
    ASSUME IInv, NEW h \in Handle, NEW s \in Snap, Snapshot(h, s)
    PROVE  IInv' /\ Values!CaptureWorkspace(h, s)
<1>1. /\ Usable(h) /\ snaps[s] = NoSnap /\ heap' = CloneArc(heap, s, h)
      /\ snaps' = [snaps EXCEPT ![s] = NewSnapshot(NoPending)] /\ tx' = tx
  BY DEF Snapshot
<1>2. heap.gen[h] # {} /\ h \in Owner /\ Sound(heap) /\ tx \in TxState \cup {NoTx}
  BY <1>1, Owners, Zenon DEF IInv, Good, Typed, Usable, Live
<1>3. NoPending \in Pending
  BY DEF Pending
<1>4. IInv' /\ Shows(s, h, NoPending)
  <2>1. Takes(s, h, NoPending)
    BY <1>1, <1>2, Zenon DEF Takes
  <2> QED
    BY <1>2, <1>3, <2>1, Captured, Zenon
<1>5. LayersOf(heap)[h] = Held(heap, h)
  BY <1>2, LiveLayers, Zenon
<1>6. BuildOf(heap', tx') = BuildOf(heap, tx)
  BY <1>1, <1>4, Zenon DEF BuildOf, Shows
<1>7. Values!Free(h)
  BY <1>1, UsableFree
<1>8. ViewsOf(heap', snaps') = [ViewsOf(heap, snaps) EXCEPT ![s] =
          [layers |-> LayersOf(heap)[h], pending |-> NoPending, valid |-> TRUE]]
  BY <1>4, <1>5, Zenon DEF Shows
<1>9. Values!CaptureWorkspace(h, s)
  BY Zenon, <1>4, <1>6, <1>7, <1>8
  DEF Shows, Values!CaptureWorkspace, Values!Capture, LayersOf, ViewsOf, ViewOf, BuildOf, Held, Live, Deref
<1> QED
  BY <1>4, <1>9

LEMMA TxSnapshotStep ==
    ASSUME IInv, NEW s \in Snap, TxSnapshot(s)
    PROVE  IInv' /\ Values!CaptureCandidate(s)
<1>1. /\ tx # NoTx /\ snaps[s] = NoSnap /\ heap' = CloneArc(heap, s, Base)
      /\ snaps' = [snaps EXCEPT ![s] = NewSnapshot(tx.pending)]
      /\ tx' = [tx EXCEPT !.issued = tx.issued \cup {s}]
  BY DEF TxSnapshot
<1>2. heap.gen[Base] # {} /\ Base \in Owner /\ tx \in TxState
  BY <1>1, Owners DEF IInv, Good, Typed, Owned
<1>3. tx.pending \in Pending
  BY <1>2 DEF Pending, TxState
<1>4. /\ tx' \in TxState /\ tx'.target = tx.target /\ tx'.pending = tx.pending
      /\ tx'.issued = tx.issued \cup {s}
  BY <1>1, <1>2 DEF TxState
<1>5. tx' # NoTx
  BY <1>4, StorageAssumption, Zenon DEF TxState
<1>6. IInv' /\ Shows(s, Base, tx.pending)
  <2>1. Takes(s, Base, tx.pending)
    BY <1>1, <1>2, <1>4, <1>5 DEF Takes
  <2> QED
    BY <1>2, <1>3, <2>1, Captured, Zenon
<1>7. /\ BuildOf(heap, tx) # NoTx /\ BuildOf(heap, tx).base = Held(heap, Base)
      /\ BuildOf(heap, tx).pending = tx.pending
      /\ BuildOf(heap, tx) = [target |-> tx.target, base |-> Held(heap, Base),
                              pending |-> tx.pending, issued |-> tx.issued]
  BY <1>1, OpenBuild DEF IInv
<1>8. BuildOf(heap', tx') = [BuildOf(heap, tx) EXCEPT !.issued = BuildOf(heap, tx).issued \cup {s}]
  BY <1>4, <1>5, <1>6, <1>7 DEF BuildOf, Shows
<1>9. ViewsOf(heap', snaps') = [ViewsOf(heap, snaps) EXCEPT ![s] =
          [layers |-> BuildOf(heap, tx).base, pending |-> BuildOf(heap, tx).pending, valid |-> TRUE]]
  BY <1>6, <1>7, Zenon DEF Shows
<1>10. Values!CaptureCandidate(s)
  BY Zenon, <1>6, <1>7, <1>8, <1>9
  DEF Shows, Values!CaptureCandidate, Values!Capture, LayersOf, ViewsOf, ViewOf, BuildOf, Held, Live, Deref
<1> QED
  BY <1>6, <1>10

LEMMA Blanked ==
    ASSUME NEW layers, NEW pending, NEW valid
    PROVE  [[layers |-> layers, pending |-> pending, valid |-> valid] EXCEPT !.valid = FALSE]
               = [layers |-> layers, pending |-> pending, valid |-> FALSE]
<1> DEFINE no == FALSE
<1> HIDE DEF no
<1>1. [[layers |-> layers, pending |-> pending, valid |-> valid] EXCEPT !.valid = no]
          = [layers |-> layers, pending |-> pending, valid |-> no]
  OBVIOUS
<1> QED
  BY <1>1 DEF no

LEMMA InvalidateStep ==
    ASSUME IInv, NEW s \in Snap, Invalidate(s)
    PROVE  IInv' /\ Values!Invalidate(s)
<1> DEFINE x == [snaps[s] EXCEPT !.valid = FALSE]
<1>1. snaps[s] # NoSnap /\ heap' = heap /\ tx' = tx /\ snaps' = [snaps EXCEPT ![s] = x]
  BY DEF Invalidate
<1>2. Sound(heap) /\ Typed(snaps, tx) /\ Owned(heap, snaps, tx)
  BY DEF IInv, Good
<1>3. snaps[s] \in SnapState
  BY <1>1, <1>2 DEF Typed
<1>4. x \in SnapState /\ x.valid = FALSE /\ x.pending = snaps[s].pending
  BY <1>3, Zenon DEF SnapState
<1>5. x # NoSnap
  BY <1>4, StorageAssumption, Zenon DEF SnapState
<1> HIDE DEF x
<1>6. /\ IInv' /\ LayersOf(heap') = LayersOf(heap)
      /\ ViewsOf(heap', snaps') = [ViewsOf(heap, snaps) EXCEPT ![s] = ViewOf(heap', snaps', s)]
  <2>1. Sound(heap') /\ Touched(heap, heap', s) /\ (x = NoSnap <=> heap'.gen[s] = {})
    BY <1>1, <1>2, <1>5, Zenon DEF Touched, Owned
  <2>2. tx' \in TxState \cup {NoTx} /\ x \in SnapState \cup {NoSnap}
    BY <1>1, <1>2, <1>4 DEF Typed
  <2> QED
    <3>1. /\ tx' = NoTx <=> tx = NoTx
          /\ tx # NoTx => tx'.target = tx.target /\ tx'.issued \ {s} = tx.issued \ {s}
          /\ tx # NoTx /\ s \in tx'.issued => x # NoSnap
          /\ x # NoSnap /\ x.valid /\ x.pending # NoPending => tx # NoTx /\ s \in tx'.issued
      BY <1>1, <1>4, <1>5
    <3> QED
      BY <1>1, <2>1, <2>2, <3>1, SnapStep, Zenon
<1>7. /\ ViewsOf(heap, snaps)[s] # NoSnap
      /\ ViewsOf(heap, snaps)[s] = [layers |-> Held(heap, s), pending |-> snaps[s].pending,
                                    valid |-> snaps[s].valid]
  <2>1. ViewsOf(heap, snaps)[s] # NoSnap
    BY <1>1, LiveViews, Zenon DEF IInv
  <2>2. ViewsOf(heap, snaps)[s] = [layers |-> Held(heap, s), pending |-> snaps[s].pending,
                                   valid |-> snaps[s].valid]
    BY <1>1 DEF ViewsOf, ViewOf
  <2> QED
    BY <2>1, <2>2, Zenon
<1>8. ViewOf(heap', snaps', s) = [ViewsOf(heap, snaps)[s] EXCEPT !.valid = FALSE]
  <2>1. snaps'[s] = x
    BY <1>1, <1>2 DEF Typed
  <2>2. ViewOf(heap', snaps', s) = [layers |-> Held(heap, s), pending |-> snaps[s].pending, valid |-> FALSE]
    BY <1>1, <1>4, <1>5, <2>1, Zenon DEF ViewOf
  <2>3. [[layers |-> Held(heap, s), pending |-> snaps[s].pending, valid |-> snaps[s].valid]
            EXCEPT !.valid = FALSE] = [layers |-> Held(heap, s), pending |-> snaps[s].pending, valid |-> FALSE]
    BY Blanked, Zenon
  <2> QED
    BY <1>7, <2>2, <2>3, Zenon
<1>9. ViewsOf(heap', snaps') = [ViewsOf(heap, snaps) EXCEPT ![s].valid = FALSE]
  BY <1>6, <1>8
<1>10. BuildOf(heap', tx') = BuildOf(heap, tx)
  BY <1>1
<1>11. Values!Invalidate(s)
  BY Zenon, <1>6, <1>7, <1>9, <1>10
  DEF Values!Invalidate, LayersOf, ViewsOf, ViewOf, BuildOf, Held, Live, Deref
<1> QED
  BY <1>6, <1>11

LEMMA ReleaseStep ==
    ASSUME IInv, NEW s \in Snap, ReleaseSnapshot(s)
    PROVE  IInv' /\ Values!Release(s)
<1>1. /\ snaps[s] # NoSnap /\ heap' = DropArc(heap, s) /\ snaps' = [snaps EXCEPT ![s] = NoSnap]
      /\ tx' = IF tx = NoTx THEN NoTx ELSE [tx EXCEPT !.issued = tx.issued \ {s}]
  BY DEF ReleaseSnapshot
<1>2. Sound(heap) /\ Typed(snaps, tx) /\ s \in Owner
  BY Owners DEF IInv, Good
<1>3. Sound(heap') /\ Touched(heap, heap', s) /\ heap'.gen[s] = {}
  BY <1>1, <1>2, DropFacts
<1>4. tx # NoTx => /\ tx' \in TxState /\ tx'.target = tx.target /\ tx'.pending = tx.pending
                   /\ tx'.issued = tx.issued \ {s}
  BY <1>1, <1>2 DEF Typed, TxState
<1>5. tx' \in TxState \cup {NoTx} /\ (tx' = NoTx <=> tx = NoTx)
  <2>1. CASE tx = NoTx
    BY <1>1, <2>1
  <2>2. CASE tx # NoTx
    <3>1. tx' # NoTx
      BY <1>4, <2>2, StorageAssumption DEF TxState
    <3> QED
      BY <1>4, <2>2, <3>1
  <2> QED
    BY <2>1, <2>2
<1>6. /\ IInv' /\ LayersOf(heap') = LayersOf(heap) /\ Held(heap', Base) = Held(heap, Base)
      /\ ViewsOf(heap', snaps') = [ViewsOf(heap, snaps) EXCEPT ![s] = ViewOf(heap', snaps', s)]
  <2>1. tx # NoTx => tx'.target = tx.target /\ tx'.issued \ {s} = tx.issued \ {s}
    BY <1>4
  <2>2. ~(tx # NoTx /\ s \in tx'.issued)
    BY <1>4
  <2> QED
    BY <1>1, <1>3, <1>5, <2>1, <2>2, SnapStep, Zenon
<1>7. ViewOf(heap', snaps', s) = NoSnap
  BY <1>1, <1>2 DEF ViewOf, Typed
<1>8. ViewsOf(heap, snaps)[s] # NoSnap /\ ViewsOf(heap', snaps') = [ViewsOf(heap, snaps) EXCEPT ![s] = NoSnap]
  <2>1. ViewsOf(heap, snaps)[s] # NoSnap
    BY <1>1, LiveViews, Zenon DEF IInv
  <2> QED
    BY <1>6, <1>7, <2>1
<1>9. BuildOf(heap', tx') = IF BuildOf(heap, tx) = NoTx THEN NoTx
                            ELSE [BuildOf(heap, tx) EXCEPT !.issued = BuildOf(heap, tx).issued \ {s}]
  <2>0. BuildOf(heap, tx) = NoTx <=> tx = NoTx
    BY OpenBuild DEF IInv
  <2>1. CASE tx = NoTx
    BY <1>5, <2>0, <2>1 DEF BuildOf
  <2>2. CASE tx # NoTx
    <3>1. BuildOf(heap, tx) = [target |-> tx.target, base |-> Held(heap, Base),
                               pending |-> tx.pending, issued |-> tx.issued]
      BY <2>2, Zenon DEF BuildOf
    <3>2. BuildOf(heap', tx') = [target |-> tx.target, base |-> Held(heap, Base),
                                 pending |-> tx.pending, issued |-> tx.issued \ {s}]
      BY <1>4, <1>5, <1>6, <2>2, Zenon DEF BuildOf
    <3> QED
      BY <2>0, <2>2, <3>1, <3>2
  <2> QED
    BY <2>1, <2>2
<1>10. Values!Release(s)
  BY <1>6, <1>8, <1>9, Zenon DEF Values!Release, LayersOf, ViewsOf, ViewOf, BuildOf, Held, Live, Deref
<1> QED
  BY <1>6, <1>10

LEMMA BeginStep ==
    ASSUME IInv, NEW h \in Handle, BeginGenerated(h)
    PROVE  IInv' /\ Values!Begin(h)
<1>1. /\ Usable(h) /\ tx = NoTx /\ heap' = CloneArc(heap, Base, h) /\ snaps' = snaps
      /\ tx' = [target |-> h, pending |-> EmptyJob, logical_bytes |-> 0, issued |-> {}]
  BY Zenon DEF BeginGenerated
<1>2. /\ Sound(heap) /\ Typed(snaps, tx) /\ Owned(heap, snaps, tx) /\ Candidates(snaps, tx)
      /\ heap.gen[h] # {} /\ h \in Owner /\ h # Base /\ Base \in Owner
  BY <1>1, Owners, Zenon DEF IInv, Good, Usable, Live
<1>3. heap.gen[Base] = {}
  BY <1>1, <1>2, Zenon DEF Owned
<1>4. /\ Sound(heap') /\ Touched(heap, heap', Base) /\ heap'.gen[Base] # {}
      /\ \A f \in Field : heap'.files[f][Base] = heap.files[f][h]
  <2>1. Cloned(heap, CloneArc(heap, Base, h), Base, h)
    BY <1>1, <1>2, <1>3, CloneFacts, Zenon
  <2> QED
    BY <1>1, <2>1, Zenon DEF Cloned
<1>5. tx' \in TxState
  <2>1. EmptyJob \in JobLayer
    BY DEF JobLayer, EmptyJob
  <2>2. [target |-> h, pending |-> EmptyJob, logical_bytes |-> 0, issued |-> {}] \in TxState
    BY <2>1 DEF TxState
  <2> QED
    BY <1>1, <2>2, Zenon
<1>6. tx' # NoTx
  BY <1>5, StorageAssumption, Zenon DEF TxState
<1>7. Owned(heap', snaps', tx')
  <2>1. \A s \in Snap : snaps[s] = NoSnap <=> heap'.gen[s] = {}
    BY <1>2, <1>4, Owners, Zenon DEF Owned, Touched
  <2>2. heap'.gen[h] # {}
    BY <1>2, <1>4, Zenon DEF Touched
  <2> QED
    BY <1>1, <1>4, <1>6, <2>1, <2>2, Zenon DEF Owned
<1>8. IInv'
  BY <1>1, <1>2, <1>4, <1>5, <1>6, <1>7, Zenon DEF IInv, Good, Typed, Candidates
<1>9. LayersOf(heap') = LayersOf(heap) /\ ViewsOf(heap', snaps') = ViewsOf(heap, snaps)
  <2>1. LayersOf(heap') = LayersOf(heap) /\ ViewsOf(heap', snaps) = ViewsOf(heap, snaps)
    BY <1>4, Owners, LayersSame, ViewsSame, Zenon
  <2> QED
    BY <1>1, <2>1, Zenon
<1>10. LayersOf(heap)[h] = Held(heap, h) /\ Held(heap', Base) = Held(heap, h)
  BY <1>2, <1>4, LiveLayers, Zenon DEF Held
<1>11. BuildOf(heap, tx) = NoTx /\ BuildOf(heap', tx') = [target |-> h, base |-> LayersOf(heap)[h],
                                                         pending |-> EmptyJob, issued |-> {}]
  BY <1>1, <1>6, <1>10, Zenon DEF BuildOf
<1>12. Values!Free(h)
  BY <1>1, UsableFree, Zenon
<1>13. Values!Begin(h)
  BY <1>9, <1>11, <1>12, Zenon DEF Values!Begin, LayersOf, ViewsOf, ViewOf, BuildOf, Held, Live, Deref
<1> QED
  BY <1>8, <1>13

LEMMA WriteStep ==
    ASSUME IInv, NEW path \in JobPath, NEW content \in Content, Write(path, content)
    PROVE  IInv' /\ Values!Write
<1> DEFINE pending == [tx.pending EXCEPT ![path] = content]
           bytes == Replacement(tx.logical_bytes, SizeOf(tx.pending[path]), Size[content])
<1>1. /\ tx # NoTx /\ heap' = heap /\ snaps' = snaps
      /\ tx' = [tx EXCEPT !.pending = pending, !.logical_bytes = bytes]
  BY DEF Write
<1>2. /\ Sound(heap) /\ Typed(snaps, tx) /\ Owned(heap, snaps, tx) /\ Candidates(snaps, tx)
      /\ tx \in TxState
  BY <1>1 DEF IInv, Good, Typed
<1>3. pending \in JobLayer /\ tx.pending[path] \in Content \cup {NoFile}
  BY <1>2, Zenon DEF TxState, JobLayer
<1>4. bytes \in Int
  <2>1. Size[content] \in Nat /\ SizeOf(tx.pending[path]) \in Nat /\ tx.logical_bytes \in Int
    BY <1>2, <1>3, StorageAssumption, Zenon DEF SizeOf, TxState
  <2> QED
    BY <2>1 DEF Replacement
<1> HIDE DEF pending, bytes
<1>5. /\ tx' \in TxState /\ tx'.target = tx.target /\ tx'.pending = pending /\ tx'.issued = tx.issued
  BY <1>1, <1>2, <1>3, <1>4, Zenon DEF TxState
<1>6. tx' # NoTx
  BY <1>5, StorageAssumption, Zenon DEF TxState
<1>7. IInv'
  BY <1>1, <1>2, <1>5, <1>6 DEF IInv, Good, Typed, Owned, Candidates
<1>8. BuildOf(heap, tx) # NoTx /\ BuildOf(heap', tx') = [BuildOf(heap, tx) EXCEPT !.pending = pending]
  <2>1. BuildOf(heap, tx) # NoTx
    BY <1>1, OpenBuild DEF IInv
  <2>2. BuildOf(heap, tx) = [target |-> tx.target, base |-> Held(heap, Base),
                             pending |-> tx.pending, issued |-> tx.issued]
    BY <1>1 DEF BuildOf
  <2>3. BuildOf(heap', tx') = [target |-> tx.target, base |-> Held(heap, Base),
                               pending |-> pending, issued |-> tx.issued]
    BY <1>1, <1>5, <1>6 DEF BuildOf
  <2> QED
    BY <2>1, <2>2, <2>3
<1>9. LayersOf(heap') = LayersOf(heap) /\ ViewsOf(heap', snaps') = ViewsOf(heap, snaps)
  BY <1>1
<1>10. Values!Write
  BY <1>3, <1>8, <1>9, Zenon DEF Values!Write, LayersOf, ViewsOf, ViewOf, BuildOf, Held, Live, Deref
<1> QED
  BY <1>7, <1>10

\* A transaction ends: its base goes, and its snapshots can no longer be read.
LEMMA EndStep ==
    ASSUME IInv, tx # NoTx, NEW mid, Sound(mid), Touched(heap, mid, tx.target), mid.gen[tx.target] # {},
           heap' = DropArc(mid, Base), snaps' = Invalidated(snaps, tx.issued), tx' = NoTx
    PROVE  /\ IInv' /\ LayersOf(heap') = LayersOf(mid)
           /\ ViewsOf(heap', snaps') =
                  [s \in Snap |-> IF s \in tx.issued
                                  THEN [ViewsOf(heap, snaps)[s] EXCEPT !.valid = FALSE]
                                  ELSE ViewsOf(heap, snaps)[s]]
<1>1. /\ Sound(heap) /\ Typed(snaps, tx) /\ Owned(heap, snaps, tx) /\ Candidates(snaps, tx)
      /\ tx \in TxState /\ tx.target \in Handle /\ Base \in Owner
  BY Owners, Zenon DEF IInv, Good, Typed, TxState
<1>2. Sound(heap') /\ Touched(mid, heap', Base) /\ heap'.gen[Base] = {}
  BY <1>1, DropFacts, Zenon
<1>3. ASSUME NEW s \in Snap, s \in tx.issued
      PROVE  /\ snaps[s] \in SnapState /\ snaps'[s] = [snaps[s] EXCEPT !.valid = FALSE]
             /\ snaps'[s] \in SnapState /\ snaps'[s] # NoSnap
             /\ snaps'[s].valid = FALSE /\ snaps'[s].pending = snaps[s].pending
  <2>1. snaps[s] # NoSnap
    BY <1>1, <1>3, Zenon DEF Owned
  <2>2. snaps[s] \in SnapState
    BY <1>1, <2>1, Zenon DEF Typed
  <2>3. snaps'[s] = [snaps[s] EXCEPT !.valid = FALSE]
    BY <1>3 DEF Invalidated
  <2>4. snaps'[s] \in SnapState /\ snaps'[s].valid = FALSE /\ snaps'[s].pending = snaps[s].pending
    BY <2>2, <2>3, Zenon DEF SnapState
  <2> QED
    BY <2>2, <2>3, <2>4, StorageAssumption, Zenon DEF SnapState
<1>4. ASSUME NEW s \in Snap, s \notin tx.issued PROVE snaps'[s] = snaps[s]
  BY <1>4 DEF Invalidated
<1>5. Typed(snaps', tx')
  <2>1. \A s \in Snap : snaps'[s] \in SnapState \cup {NoSnap}
    BY <1>1, <1>3, <1>4, Zenon DEF Typed
  <2> QED
    BY <2>1 DEF Typed, Invalidated
<1>6. Candidates(snaps', tx')
  <2> SUFFICES ASSUME NEW s \in Snap, snaps'[s] # NoSnap, snaps'[s].valid, snaps'[s].pending # NoPending
               PROVE  FALSE
    BY Zenon DEF Candidates
  <2>1. s \notin tx.issued
    BY <1>3, Zenon
  <2>2. snaps[s] # NoSnap /\ snaps[s].valid /\ snaps[s].pending # NoPending
    BY <1>4, <2>1, Zenon
  <2> QED
    BY <1>1, <2>1, <2>2, Zenon DEF Candidates
<1>7. ASSUME NEW s \in Snap
      PROVE  Held(heap', s) = Held(heap, s) /\ (heap'.gen[s] = {} <=> heap.gen[s] = {})
  <2>1. s \in Owner /\ s # Base /\ s # tx.target /\ tx.target \in Owner
    BY <1>1, Owners, Zenon
  <2>2. Held(mid, s) = Held(heap, s)
    BY <2>1, HeldFacts, Zenon
  <2>3. Held(heap', s) = Held(mid, s)
    <3>1. \A f \in Field : heap'.files[f][s] = mid.files[f][s]
      BY <1>2, <2>1, Zenon DEF Touched
    <3> QED
      BY <3>1 DEF Held
  <2>4. (mid.gen[s] = {} <=> heap.gen[s] = {}) /\ (heap'.gen[s] = {} <=> mid.gen[s] = {})
    BY <1>2, <2>1, Zenon DEF Touched
  <2> QED
    BY <2>2, <2>3, <2>4, Zenon
<1>8. Owned(heap', snaps', tx')
  <2>1. ASSUME NEW s \in Snap PROVE snaps'[s] = NoSnap <=> snaps[s] = NoSnap
    <3>1. CASE s \in tx.issued
      BY <1>1, <1>3, <3>1, Zenon DEF Owned
    <3>2. CASE s \notin tx.issued
      BY <1>4, <3>2, Zenon
    <3> QED
      BY <3>1, <3>2, Zenon
  <2>2. \A s \in Snap : snaps'[s] = NoSnap <=> heap'.gen[s] = {}
    BY <1>1, <1>7, <2>1, Zenon DEF Owned
  <2> QED
    BY <1>2, <2>2, Zenon DEF Owned
<1>9. IInv'
  BY <1>2, <1>5, <1>6, <1>8, Zenon DEF IInv, Good
<1>10. LayersOf(heap') = LayersOf(mid)
  BY <1>1, <1>2, Owners, LayersSame, Zenon
<1>11. ASSUME NEW s \in Snap
       PROVE  ViewOf(heap', snaps', s) = IF s \in tx.issued
                                         THEN [ViewsOf(heap, snaps)[s] EXCEPT !.valid = FALSE]
                                         ELSE ViewsOf(heap, snaps)[s]
  <2>1. CASE s \in tx.issued
    <3>1. snaps[s] # NoSnap
      BY <1>1, <2>1, Zenon DEF Owned
    <3>2. ViewsOf(heap, snaps)[s] = [layers |-> Held(heap, s), pending |-> snaps[s].pending,
                                     valid |-> snaps[s].valid]
      BY <3>1 DEF ViewsOf, ViewOf
    <3>3. ViewOf(heap', snaps', s) = [layers |-> Held(heap, s), pending |-> snaps[s].pending, valid |-> FALSE]
      BY <1>3, <1>7, <2>1, Zenon DEF ViewOf
    <3>4. [[layers |-> Held(heap, s), pending |-> snaps[s].pending, valid |-> snaps[s].valid]
              EXCEPT !.valid = FALSE] = [layers |-> Held(heap, s), pending |-> snaps[s].pending, valid |-> FALSE]
      BY Blanked, Zenon
    <3> QED
      BY <2>1, <3>2, <3>3, <3>4, Zenon
  <2>2. CASE s \notin tx.issued
    BY <1>4, <1>7, <2>2 DEF ViewOf, ViewsOf
  <2> QED
    BY <2>1, <2>2
<1>12. ViewsOf(heap', snaps') = [s \in Snap |-> IF s \in tx.issued
                                                THEN [ViewsOf(heap, snaps)[s] EXCEPT !.valid = FALSE]
                                                ELSE ViewsOf(heap, snaps)[s]]
  BY <1>11 DEF ViewsOf
<1> QED
  BY <1>9, <1>10, <1>12

LEMMA FinishStep ==
    ASSUME IInv, Accept \/ Discard
    PROVE  IInv' /\ Values!End
<1>1. tx # NoTx /\ snaps' = Invalidated(snaps, tx.issued) /\ tx' = NoTx
  BY Zenon DEF Accept, Discard
<1>2. /\ Sound(heap) /\ tx \in TxState /\ tx.target \in Handle /\ tx.target \in Owner
      /\ heap.gen[tx.target] # {} /\ tx.pending \in JobLayer
  BY <1>1, Owners, Zenon DEF IInv, Good, Typed, Owned, TxState
<1>3. /\ BuildOf(heap, tx) # NoTx /\ BuildOf(heap', tx') = NoTx /\ BuildOf(heap, tx).issued = tx.issued
      /\ BuildOf(heap, tx).target = tx.target /\ BuildOf(heap, tx).pending = tx.pending
  <2>1. BuildOf(heap, tx) # NoTx
    BY <1>1, OpenBuild, Zenon DEF IInv
  <2> QED
    BY <1>1, <2>1, Zenon DEF BuildOf
<1>4. /\ IInv'
      /\ ViewsOf(heap', snaps') = [s \in Snap |-> IF s \in tx.issued
                                                  THEN [ViewsOf(heap, snaps)[s] EXCEPT !.valid = FALSE]
                                                  ELSE ViewsOf(heap, snaps)[s]]
      /\ \/ LayersOf(heap') = [LayersOf(heap) EXCEPT ![tx.target].generated = tx.pending]
         \/ LayersOf(heap') = LayersOf(heap)
  <2>1. CASE Accept
    <3> DEFINE mid == NewLayer(heap, tx.target, "generated", tx.pending)
    <3>0. "generated" \in Field /\ tx.pending \in LayerOf("generated")
      BY <1>2 DEF Field, LayerOf
    <3>1. Changed(heap, mid, tx.target, "generated", tx.pending) /\ heap' = DropArc(mid, Base)
      BY <1>2, <2>1, <3>0, NewFacts, Zenon DEF Accept
    <3> HIDE DEF mid
    <3>2. Sound(mid) /\ Touched(heap, mid, tx.target) /\ mid.gen[tx.target] # {}
      BY <1>2, <3>0, <3>1, ChangedTouched, Zenon
    <3>3. /\ IInv' /\ LayersOf(heap') = LayersOf(mid)
          /\ ViewsOf(heap', snaps') =
                 [s \in Snap |-> IF s \in tx.issued
                                 THEN [ViewsOf(heap, snaps)[s] EXCEPT !.valid = FALSE]
                                 ELSE ViewsOf(heap, snaps)[s]]
      BY <1>1, <3>1, <3>2, EndStep
    <3>4. Held(mid, tx.target) = [Held(heap, tx.target) EXCEPT !["generated"] = tx.pending]
      <4>1. \A g \in Field : g # "generated" => mid.files[g][tx.target] = heap.files[g][tx.target]
        BY <3>1, Zenon DEF Changed
      <4>2. mid.files["generated"][tx.target] = tx.pending
        BY <3>1, Zenon DEF Changed
      <4> QED
        BY <4>1, <4>2, Zenon DEF Held
    <3>5. LayersOf(heap)[tx.target] = Held(heap, tx.target)
      BY <1>2, LiveLayers, Zenon
    <3>6. LayersOf(mid) = [LayersOf(heap) EXCEPT ![tx.target] =
                              IF mid.gen[tx.target] # {} THEN Held(mid, tx.target) ELSE Dropped]
      BY <1>2, <3>2, LayersTouched, Zenon
    <3>7. LayersOf(heap') = [LayersOf(heap) EXCEPT ![tx.target].generated = tx.pending]
      BY <3>2, <3>3, <3>4, <3>5, <3>6, Zenon
    <3> QED
      BY <3>3, <3>7
  <2>2. CASE Discard
    <3>1. heap' = DropArc(heap, Base) /\ Touched(heap, heap, tx.target)
      BY <2>2, Zenon DEF Discard, Touched
    <3> QED
      BY <1>1, <1>2, <3>1, EndStep
  <2> QED
    BY <2>1, <2>2
<1>5. Values!End
  <2>1. ViewsOf(heap', snaps') = [s \in Snap |-> IF s \in BuildOf(heap, tx).issued
                                                 THEN [ViewsOf(heap, snaps)[s] EXCEPT !.valid = FALSE]
                                                 ELSE ViewsOf(heap, snaps)[s]]
    BY <1>3, <1>4
  <2>2. \/ LayersOf(heap') = [LayersOf(heap) EXCEPT ![BuildOf(heap, tx).target].generated =
                                 BuildOf(heap, tx).pending]
        \/ LayersOf(heap') = LayersOf(heap)
    BY <1>3, <1>4
  <2> QED
    BY <1>3, <2>1, <2>2, Zenon DEF Values!End, LayersOf, ViewsOf, ViewOf, BuildOf, Held, Live, Deref
<1> QED
  BY <1>4, <1>5

\* One workspace, nothing shared.
LEMMA InitIInv == Init => IInv /\ Values!Init
<1> SUFFICES ASSUME Init PROVE IInv /\ Values!Init
  OBVIOUS
<1> DEFINE Only(h) == [o \in Owner |-> IF o = h THEN {o} ELSE {}]
           Files(h) == [f \in Field |-> [o \in Owner |-> IF o = h THEN Empty(f) ELSE Dropped]]
<1>1. PICK first \in Handle :
          heap = [gen |-> Only(first), share |-> [f \in Field |-> Only(first)], files |-> Files(first)]
  BY Zenon DEF Init
<1>2. snaps = [s \in Snap |-> NoSnap] /\ tx = NoTx
  BY Zenon DEF Init
<1>3. first \in Owner /\ first \notin Snap /\ first # Base
  BY Owners
<1>4. \A f \in Field : Empty(f) \in LayerOf(f) /\ Empty(f) \in Contents
  BY Zenon DEF Empty, LayerOf, Contents, JobLayer, DistributionLayer, EmptyJob, EmptyDistribution
<1>5. Class(Only(first))
  BY Zenon DEF Class
<1>6. /\ heap.gen = Only(first) /\ \A f \in Field : heap.share[f] = Only(first)
      /\ \A f \in Field, o \in Owner : heap.files[f][o] = IF o = first THEN Empty(f) ELSE Dropped
  BY <1>1, Zenon
<1>7. heap \in Heap
  <2>1. Files(first) \in [Field -> [Owner -> Contents \cup {Dropped}]]
    BY <1>4
  <2>2. [f \in Field |-> Only(first)] \in [Field -> [Owner -> SUBSET Owner]]
    BY <1>5, Zenon DEF Class
  <2> HIDE DEF Files, Only
  <2> QED
    BY <1>1, <1>5, <2>1, <2>2, Zenon DEF Heap, Class
<1>8. \A o \in Owner : heap.gen[o] # {} <=> o = first
  BY <1>6, Zenon
<1> HIDE DEF Only, Files
<1>9. Sound(heap)
  <2>1. Class(heap.gen) /\ \A f \in Field : Class(heap.share[f])
    BY <1>5, <1>6, Zenon
  <2>2. \A f \in Field, o \in Owner : heap.share[f][o] = {} <=> heap.gen[o] = {}
    BY <1>6, Zenon
  <2>3. \A f \in Field, o \in Owner : heap.gen[o] # {} => heap.files[f][o] \in LayerOf(f)
    BY <1>4, <1>6, <1>8, Zenon
  <2> QED
    BY <1>7, <2>1, <2>2, <2>3, Zenon DEF Sound
<1>10. Typed(snaps, tx) /\ Candidates(snaps, tx)
  BY <1>2, Zenon DEF Typed, Candidates
<1>11. Owned(heap, snaps, tx)
  BY <1>2, <1>3, <1>8, Owners, Zenon DEF Owned
<1>12. IInv
  BY <1>9, <1>10, <1>11 DEF IInv, Good
<1>13. LayersOf(heap) = [h \in Handle |-> IF h = first THEN Values!Empty ELSE Dropped]
  <2>1. Held(heap, first) = Values!Empty
    <3>1. Held(heap, first) = [f \in Field |-> Empty(f)]
      BY <1>3, <1>6, Zenon DEF Held
    <3> QED
      BY <3>1, Zenon DEF Values!Empty, Empty, Field
  <2>2. \A h \in Handle : heap.gen[h] # {} <=> h = first
    BY <1>8, Owners
  <2> QED
    BY <2>1, <2>2 DEF LayersOf
<1>14. ViewsOf(heap, snaps) = [s \in Snap |-> NoSnap] /\ BuildOf(heap, tx) = NoTx
  BY <1>2, Zenon DEF ViewsOf, ViewOf, BuildOf
<1>15. Values!Init
  BY <1>13, <1>14, Zenon DEF Values!Init, LayersOf, ViewsOf, ViewOf, BuildOf, Held, Live, Deref
<1> QED
  BY <1>12, <1>15

LEMMA NextIInv ==
    ASSUME IInv, Next
    PROVE  IInv' /\ Values!Next
<1>1. ASSUME NEW h \in Handle, IInv' /\ Values!ChangeLayer(h) PROVE IInv' /\ Values!Next
  BY <1>1 DEF Values!Next
<1>2. CASE \E h \in Handle, path \in JobPath, content \in Content : ReplaceUser(h, path, content)
  BY <1>1, <1>2, LayerStep
<1>3. CASE \E h \in Handle, path \in DistributionPath, content \in Content :
               InsertResolved(h, path, content)
  BY <1>1, <1>3, LayerStep, Zenon
<1>4. CASE \E h \in Handle : ClearResolved(h) \/ ClearGenerated(h)
  BY <1>1, <1>4, LayerStep
<1>5. CASE \E h \in Handle : Drop(h) \/ BeginGenerated(h)
  BY <1>5, DropStep, BeginStep DEF Values!Next
<1>6. CASE \E h, g \in Handle : h # g /\ Clone(h, g)
  BY <1>6, CloneStep DEF Values!Next
<1>7. CASE \E h, g \in Handle : h # g /\ CopyResolvedFrom(h, g)
  BY <1>1, <1>7, LayerStep
<1>8. CASE \E h \in Handle, s \in Snap : Snapshot(h, s)
  BY <1>8, SnapshotStep DEF Values!Next
<1>9. CASE \E s \in Snap : Invalidate(s) \/ ReleaseSnapshot(s) \/ TxSnapshot(s)
  BY <1>9, InvalidateStep, ReleaseStep, TxSnapshotStep, Zenon DEF Values!Next
<1>10. CASE \E path \in JobPath, content \in Content : Write(path, content)
  BY <1>10, WriteStep DEF Values!Next
<1>11. CASE Accept \/ Discard
  BY <1>11, FinishStep DEF Values!Next
<1> QED
  BY <1>2, <1>3, <1>4, <1>5, <1>6, <1>7, <1>8, <1>9, <1>10, <1>11, Zenon DEF Next

LEMMA Invariance == Spec => []IInv
<1>1. Init => IInv
  BY InitIInv
<1>2. IInv /\ [Next]_vars => IInv'
  <2>1. ASSUME IInv, Next PROVE IInv'
    BY <2>1, NextIInv
  <2>2. ASSUME IInv, UNCHANGED vars PROVE IInv'
    BY <2>2 DEF vars, IInv
  <2> QED
    BY <2>1, <2>2
<1> QED
  BY <1>1, <1>2, PTL DEF Spec

\* A view of uncommitted generated files can be read only while the transaction
\* that issued it is open, for every set of workspaces and snapshots.
THEOREM CandidatesEnd == Spec => []CandidateViewsEndWithTransaction
<1>1. IInv => CandidateViewsEndWithTransaction
  BY Zenon DEF IInv, Good, Candidates, CandidateViewsEndWithTransaction
<1> QED
  BY <1>1, Invariance, PTL

\* Copy-on-write storage implements storage without sharing: Arc::make_mut
\* copies a generation and a layer whenever another owner could see the write.
THEOREM SharingIsUnseen == Spec => SharingIsInvisible
<1>1. Init => Values!Init
  BY InitIInv
<1>2. IInv /\ [Next]_vars => [Values!Next]_(Values!avars)
  <2>1. ASSUME IInv, Next PROVE Values!Next
    BY <2>1, NextIInv
  <2>2. ASSUME UNCHANGED vars PROVE UNCHANGED Values!avars
    BY <2>2, Zenon DEF vars, Values!avars, Live, Deref
  <2> QED
    BY <2>1, <2>2
<1> QED
  BY <1>1, <1>2, Invariance, PTL DEF Spec, SharingIsInvisible, Values!Spec
=============================================================================
