-------------------------- MODULE NftMetadataProofs --------------------------
(* Theorems about NftMetadata, for any number of clients, creators,        *)
(* collections and transactions in flight.                                 *)
EXTENDS NftMetadata, FiniteSetTheorems, SequenceTheorems, TLAPS

-----------------------------------------------------------------------------
(* Transactions, one instruction after the other.                          *)

Run(l, i) == IF l # Refused THEN Execute(l, i) ELSE l

RunIf(l, condition, i) == IF condition THEN Run(l, i) ELSE l

LEMMA AfterNothing == ASSUME NEW l PROVE After(l, <<>>) = l
BY DEF After, Step, MaxInstructions

LEMMA AfterOne == ASSUME NEW l, NEW i PROVE After(l, <<i>>) = Run(l, i)
BY DEF After, Step, Run, MaxInstructions

LEMMA AfterAppend ==
  ASSUME NEW T, NEW s \in Seq(T), Len(s) < 4, NEW i \in T, NEW l
  PROVE  /\ After(l, s \o <<i>>) = Run(After(l, s), i)
         /\ s \o <<i>> \in Seq(T)
         /\ Len(s \o <<i>>) = Len(s) + 1
<1> DEFINE t == s \o <<i>>
<1>1. /\ t \in Seq(T) /\ Len(t) = Len(s) + 1 /\ t[Len(s) + 1] = i
      /\ \A n \in 1 .. Len(s) : t[n] = s[n]
  OBVIOUS
<1>2. Len(s) \in {0, 1, 2, 3}
  <2> DEFINE n == Len(s)
  <2>1. n \in Nat /\ n < 4
    BY LenProperties
  <2> HIDE DEF n
  <2>2. n \in {0, 1, 2, 3}
    BY <2>1
  <2>3. QED
    BY <2>2 DEF n
<1> HIDE DEF t
<1>3. \A k, n : n \in 1 .. Len(s) => Step(k, t, n) = Step(k, s, n)
  BY <1>1 DEF Step
<1>4. \A k : Step(k, t, Len(s) + 1) = Run(k, i)
  BY <1>1, <1>2 DEF Step, Run
<1>5. \A k, n : n \in Nat /\ n > Len(s) => Step(k, s, n) = k
  BY DEF Step
<1>6. \A k, n : n \in Nat /\ n > Len(s) + 1 => Step(k, t, n) = k
  BY <1>1 DEF Step
<1>7. After(l, t) = Run(After(l, s), i)
  <2>1. CASE Len(s) = 0
    BY <2>1, <1>4, <1>5, <1>6 DEF After, MaxInstructions
  <2>2. CASE Len(s) = 1
    BY <2>2, <1>3, <1>4, <1>5, <1>6 DEF After, MaxInstructions
  <2>3. CASE Len(s) = 2
    BY <2>3, <1>3, <1>4, <1>5, <1>6 DEF After, MaxInstructions
  <2>4. CASE Len(s) = 3
    BY <2>4, <1>3, <1>4, <1>5, <1>6 DEF After, MaxInstructions
  <2>5. QED
    BY <1>2, <2>1, <2>2, <2>3, <2>4
<1>8. QED
  BY <1>1, <1>7 DEF t

\* An instruction that a builder adds on a condition.
LEMMA AfterWhen ==
  ASSUME NEW T, NEW s \in Seq(T), NEW n \in 0 .. 3, Len(s) <= n,
         NEW c \in BOOLEAN, NEW i, c => i \in T, NEW l
  PROVE  /\ After(l, s \o When(c, i)) = RunIf(After(l, s), c, i)
         /\ s \o When(c, i) \in Seq(T)
         /\ Len(s) <= Len(s \o When(c, i))
         /\ Len(s \o When(c, i)) <= n + 1
<1>1. Len(s) \in Nat /\ Len(s) < 4
  BY LenProperties
<1>2. CASE c
  <2>1. When(c, i) = <<i>>
    BY <1>2 DEF When
  <2>2. RunIf(After(l, s), c, i) = Run(After(l, s), i)
    BY <1>2 DEF RunIf
  <2>3. /\ After(l, s \o <<i>>) = Run(After(l, s), i)
        /\ s \o <<i>> \in Seq(T) /\ Len(s \o <<i>>) = Len(s) + 1
    BY <1>1, <1>2, AfterAppend
  <2>4. Len(s \o <<i>>) <= n + 1 /\ Len(s) <= Len(s \o <<i>>)
    BY <1>1, <2>3
  <2>5. QED
    BY <2>1, <2>2, <2>3, <2>4
<1>3. CASE ~c
  <2>1. s \o When(c, i) = s
    BY <1>3 DEF When
  <2>2. RunIf(After(l, s), c, i) = After(l, s)
    BY <1>3 DEF RunIf
  <2>3. Len(s) <= n + 1 /\ Len(s) <= Len(s)
    BY <1>1
  <2>4. QED
    BY <2>1, <2>2, <2>3
<1>4. QED
  BY <1>2, <1>3

-----------------------------------------------------------------------------
(* The accounts, and what the instructions of the builders do to them.     *)

\* An account that is not there is not verified, one that is has its fields.
Sound(l) ==
  /\ l \in Ledgers
  /\ l.exists => l.text \in Texts /\ l.authority \in Keys
  /\ l.verified => l.exists /\ l.collection \in Collections

AnyCollection == Collections \cup {NoCollection}

Sendable ==
  [type : {"createMetadata"}, signer : Keys, text : Texts,
   collection : AnyCollection, creators : [Creators -> CreatorStates]]
  \cup [type : {"updateMetadata"}, signer : Keys, text : Texts,
        creators : [Creators -> CreatorStates], collection : AnyCollection,
        verified : BOOLEAN, authority : Keys]
  \cup [type : {"verifyCreators"}, creators : SUBSET Creators]
  \cup [type : {"unverifyCreator"}, creator : Creators]
  \cup [type : {"verifyCollection"}, signer : Keys, collection : Collections,
        sized : BOOLEAN, delegated : BOOLEAN]
  \cup [type : {"unverifyCollection"}, signer : Keys, collection : AnyCollection,
        sized : BOOLEAN, delegated : BOOLEAN]
  \cup [type : {"setCollectionSize"}, signer : Keys, collection : Collections,
        size : 0 .. MaxSize, delegated : BOOLEAN]
  \cup [type : {"approveCollectionAuthority", "revokeCollectionAuthority"},
        signer : Keys, collection : Collections, key : Keys]
  \cup [type : {"burnNft"}, signer : Keys, collection : AnyCollection]

LEMMA SoundIsNotRefused == ASSUME NEW l, Sound(l) PROVE l # Refused
BY RefusedAssumption DEF Sound

\* The count of a sized collection, without the NFT itself.
Others(l, c) == l.size[c] - Members(l, c)

\* From l to k, the sizes follow the NFT.
Follows(l, k) ==
  \A c \in Collections :
    l.size[c] # Legacy => k.size[c] # Legacy /\ Others(k, c) = Others(l, c)

LEMMA FollowsOn ==
  ASSUME NEW l, NEW k, NEW m, Follows(l, k), Follows(k, m)
  PROVE  Follows(l, m)
BY DEF Follows

LEMMA SizeTypes ==
  ASSUME NEW l, Sound(l), NEW c \in Collections
  PROVE  /\ l.size[c] = Legacy \/ l.size[c] \in 0 .. MaxSize
         /\ Members(l, c) \in 0 .. 1
BY DEF Sound, Ledgers, Members

\* Nothing changes of the accounts but the metadata account itself.
LEMMA CreateSound ==
  ASSUME NEW l, Sound(l), NEW i \in Sendable, i.type = "createMetadata",
         NEW k, k = CreateMetadata(l, i), k # Refused
  PROVE  /\ Sound(k) /\ ~l.exists /\ ~k.verified /\ k.size = l.size
         /\ k.delegates = l.delegates /\ k.text = i.text /\ k.authority = i.signer
         /\ k.creators = i.creators /\ k.collection = i.collection
         /\ k.exists /\ Follows(l, k)
<1>1. /\ i.text \in Texts /\ i.signer \in Keys /\ i.creators \in [Creators -> CreatorStates]
      /\ i.collection \in Collections \cup {NoCollection}
  BY DEF Sendable, AnyCollection
<1>2. /\ ~l.exists
      /\ k = [l EXCEPT !.exists = TRUE, !.text = i.text, !.authority = i.signer,
                       !.creators = i.creators, !.collection = i.collection,
                       !.verified = FALSE]
  BY DEF CreateMetadata
<1>3. ~l.verified
  BY <1>2 DEF Sound
<1>4. /\ k \in Ledgers /\ k.exists /\ ~k.verified /\ k.size = l.size
      /\ k.delegates = l.delegates /\ k.text = i.text /\ k.authority = i.signer
      /\ k.creators = i.creators /\ k.collection = i.collection
  BY <1>1, <1>2 DEF Sound, Ledgers
<1>5. Follows(l, k)
  BY <1>3, <1>4 DEF Follows, Others, Members
<1>6. QED
  BY <1>1, <1>2, <1>4, <1>5 DEF Sound

LEMMA UpdateSound ==
  ASSUME NEW l, Sound(l), NEW i \in Sendable, i.type = "updateMetadata",
         NEW k, k = UpdateMetadata(l, i), k # Refused
  PROVE  /\ Sound(k) /\ l.exists /\ k.exists /\ k.size = l.size
         /\ k.delegates = l.delegates /\ k.text = i.text /\ k.authority = i.authority
         /\ k.creators = i.creators /\ k.collection = i.collection
         /\ k.verified = i.verified
         /\ k.verified => l.verified
         /\ ~l.verified => Follows(l, k)
<1>1. /\ i.text \in Texts /\ i.authority \in Keys
      /\ i.creators \in [Creators -> CreatorStates]
      /\ i.collection \in Collections \cup {NoCollection} /\ i.verified \in BOOLEAN
  BY DEF Sendable, AnyCollection
<1>2. /\ l.exists /\ CollectionMayBecome(l, i.collection, i.verified)
      /\ k = [l EXCEPT !.text = i.text, !.authority = i.authority, !.creators = i.creators,
                       !.collection = i.collection, !.verified = i.verified]
  BY DEF UpdateMetadata
<1>3. /\ k \in Ledgers /\ k.exists = l.exists /\ k.verified = i.verified
      /\ k.size = l.size
      /\ k.delegates = l.delegates /\ k.text = i.text /\ k.authority = i.authority
      /\ k.creators = i.creators /\ k.collection = i.collection
  BY <1>1, <1>2 DEF Sound, Ledgers
<1>4. k.verified => l.verified /\ k.collection = l.collection
  BY <1>2, <1>3 DEF CollectionMayBecome
<1>5. ~l.verified => Follows(l, k)
  BY <1>3, <1>4 DEF Follows, Others, Members
<1>6. QED
  BY <1>1, <1>2, <1>3, <1>4, <1>5 DEF Sound

LEMMA VerifyCreatorsSound ==
  ASSUME NEW l, Sound(l), NEW i \in Sendable, i.type = "verifyCreators",
         NEW k, k = VerifyCreators(l, i), k # Refused
  PROVE  /\ Sound(k) /\ l.exists /\ k.exists /\ k.size = l.size
         /\ k.delegates = l.delegates
         /\ k.text = l.text /\ k.authority = l.authority
         /\ k.collection = l.collection /\ k.verified = l.verified
         /\ k.creators = [x \in Creators |->
                             IF x \in i.creators THEN "verified" ELSE l.creators[x]]
         /\ Follows(l, k)
<1> DEFINE creators == [x \in Creators |->
                          IF x \in i.creators THEN "verified" ELSE l.creators[x]]
<1>1. l.exists /\ k = [l EXCEPT !.creators = creators]
  BY DEF VerifyCreators
<1>2. creators \in [Creators -> CreatorStates]
  BY DEF Sound, Ledgers, CreatorStates
<1> HIDE DEF creators
<1>3. /\ k \in Ledgers /\ k.exists = l.exists /\ k.size = l.size
      /\ k.delegates = l.delegates /\ k.text = l.text /\ k.authority = l.authority
      /\ k.collection = l.collection /\ k.verified = l.verified /\ k.creators = creators
  BY <1>1, <1>2 DEF Sound, Ledgers
<1>4. Follows(l, k)
  BY <1>3 DEF Follows, Others, Members
<1>5. QED
  BY <1>1, <1>3, <1>4 DEF Sound, creators

LEMMA UnverifyCreatorSound ==
  ASSUME NEW l, Sound(l), NEW i \in Sendable, i.type = "unverifyCreator",
         NEW k, k = UnverifyCreator(l, i), k # Refused
  PROVE  Sound(k) /\ Follows(l, k)
<1> DEFINE creators == [l.creators EXCEPT ![i.creator] = "unverified"]
<1>1. l.exists /\ k = [l EXCEPT !.creators = creators]
  BY DEF UnverifyCreator
<1>2. creators \in [Creators -> CreatorStates]
  BY DEF Sound, Ledgers, CreatorStates
<1> HIDE DEF creators
<1>3. /\ k \in Ledgers /\ k.exists = l.exists /\ k.size = l.size
      /\ k.text = l.text /\ k.authority = l.authority
      /\ k.collection = l.collection /\ k.verified = l.verified
  BY <1>1, <1>2 DEF Sound, Ledgers
<1>4. Follows(l, k)
  BY <1>3 DEF Follows, Others, Members
<1>5. QED
  BY <1>1, <1>3, <1>4 DEF Sound

LEMMA VerifySound ==
  ASSUME NEW l, Sound(l), NEW i \in Sendable, i.type = "verifyCollection",
         NEW k, k = VerifyCollection(l, i), k # Refused
  PROVE  /\ Sound(k) /\ l.exists /\ k.exists /\ k.verified
         /\ k.delegates = l.delegates
         /\ k.text = l.text /\ k.authority = l.authority /\ k.creators = l.creators
         /\ k.collection = l.collection /\ k.collection = i.collection
         /\ Follows(l, k)
<1> DEFINE c == i.collection
           n == IF l.size[c] = Legacy THEN Legacy ELSE l.size[c] + 1
           size == [l.size EXCEPT ![c] = n]
<1>1. c \in Collections /\ i.sized \in BOOLEAN
  BY DEF Sendable
<1>2. /\ l.exists /\ l.collection = c /\ (i.sized <=> l.size[c] # Legacy)
      /\ i.sized => ~l.verified /\ l.size[c] < MaxSize
      /\ k = [l EXCEPT !.verified = TRUE, !.size = size]
  BY <1>1 DEF VerifyCollection, RightKind, Resized
<1>3. l.size \in [Collections -> (0 .. MaxSize) \cup {Legacy}]
  BY DEF Sound, Ledgers
<1>4. n \in (0 .. MaxSize) \cup {Legacy}
  BY <1>1, <1>2, <1>3, CollectionsAssumption
<1> HIDE DEF n, c
<1>5. size \in [Collections -> (0 .. MaxSize) \cup {Legacy}]
  BY <1>1, <1>3, <1>4
<1>6. size[c] = n /\ \A x \in Collections : x # c => size[x] = l.size[x]
  BY <1>1, <1>3
<1> HIDE DEF size
<1>7. /\ k \in Ledgers /\ k.exists = l.exists /\ k.verified /\ k.size = size
      /\ k.delegates = l.delegates /\ k.text = l.text /\ k.authority = l.authority
      /\ k.creators = l.creators /\ k.collection = l.collection
  BY <1>2, <1>5 DEF Sound, Ledgers
<1>8. Follows(l, k)
  <2> SUFFICES ASSUME NEW x \in Collections, l.size[x] # Legacy
               PROVE  k.size[x] # Legacy /\ Others(k, x) = Others(l, x)
    BY DEF Follows
  <2>1. CASE x # c
    BY <1>2, <1>6, <1>7, <2>1 DEF Others, Members
  <2>2. CASE x = c
    <3>1. l.size[c] \in Nat /\ n = l.size[c] + 1 /\ n # Legacy
      BY <1>1, <1>3, <2>2, CollectionsAssumption DEF n
    <3>2. Members(l, c) = 0 /\ Members(k, c) = 1
      BY <1>2, <1>7, <2>2 DEF Members
    <3>3. QED
      BY <1>6, <1>7, <2>2, <3>1, <3>2 DEF Others
  <2>3. QED
    BY <2>1, <2>2
<1>9. QED
  BY <1>1, <1>2, <1>7, <1>8 DEF Sound, c

LEMMA UnverifySound ==
  ASSUME NEW l, Sound(l), NEW i \in Sendable, i.type = "unverifyCollection",
         NEW k, k = UnverifyCollection(l, i), k # Refused
  PROVE  /\ Sound(k) /\ l.exists /\ k.exists /\ ~k.verified
         /\ k.delegates = l.delegates
         /\ k.text = l.text /\ k.authority = l.authority /\ k.creators = l.creators
         /\ k.collection = l.collection
         /\ \A c \in Collections : c # i.collection => k.size[c] = l.size[c]
         /\ Follows(l, k)
<1> DEFINE c == i.collection
           n == IF l.size[c] = Legacy THEN Legacy ELSE l.size[c] + (-1)
           size == [l.size EXCEPT ![c] = n]
<1>1. c \in Collections \cup {NoCollection} /\ i.sized \in BOOLEAN
  BY DEF Sendable, AnyCollection
<1>2. /\ l.exists /\ l.collection = c /\ (i.sized <=> l.size[c] # Legacy)
      /\ i.sized => l.verified /\ l.size[c] > 0
      /\ k = [l EXCEPT !.verified = FALSE, !.size = size]
  BY <1>1 DEF UnverifyCollection, RightKind, Resized
<1>3. l.size \in [Collections -> (0 .. MaxSize) \cup {Legacy}]
  BY DEF Sound, Ledgers
<1>4. c \in Collections => n \in (0 .. MaxSize) \cup {Legacy}
  BY <1>2, <1>3, CollectionsAssumption
<1> HIDE DEF n, c
<1>5. size \in [Collections -> (0 .. MaxSize) \cup {Legacy}]
  BY <1>3, <1>4
<1>6. /\ c \in Collections => size[c] = n
      /\ \A x \in Collections : x # c => size[x] = l.size[x]
  BY <1>3
<1> HIDE DEF size
<1>7. /\ k \in Ledgers /\ k.exists = l.exists /\ ~k.verified /\ k.size = size
      /\ k.delegates = l.delegates /\ k.text = l.text /\ k.authority = l.authority
      /\ k.creators = l.creators /\ k.collection = l.collection
  BY <1>2, <1>5 DEF Sound, Ledgers
<1>8. Follows(l, k)
  <2> SUFFICES ASSUME NEW x \in Collections, l.size[x] # Legacy
               PROVE  k.size[x] # Legacy /\ Others(k, x) = Others(l, x)
    BY DEF Follows
  <2>1. CASE x # c
    BY <1>2, <1>6, <1>7, <2>1 DEF Others, Members
  <2>2. CASE x = c
    <3>1. l.size[c] \in Nat /\ n = l.size[c] - 1 /\ n # Legacy
      BY <1>2, <1>3, <2>2, CollectionsAssumption DEF n
    <3>2. Members(l, c) = 1 /\ Members(k, c) = 0
      BY <1>2, <1>7, <2>2 DEF Members
    <3>3. QED
      BY <1>6, <1>7, <2>2, <3>1, <3>2 DEF Others
  <2>3. QED
    BY <2>1, <2>2
<1>9. QED
  BY <1>2, <1>6, <1>7, <1>8 DEF Sound, c

LEMMA MigrateSound ==
  ASSUME NEW l, Sound(l), NEW i \in Sendable, i.type = "setCollectionSize",
         NEW k, k = SetCollectionSize(l, i), k # Refused
  PROVE  Sound(k) /\ Follows(l, k)
<1> DEFINE size == [l.size EXCEPT ![i.collection] = i.size]
<1>1. i.size \in 0 .. MaxSize
  BY DEF Sendable
<1>2. k = [l EXCEPT !.size = size] /\ l.size[i.collection] = Legacy
  BY DEF SetCollectionSize
<1>3. size \in [Collections -> (0 .. MaxSize) \cup {Legacy}]
  BY <1>1 DEF Sound, Ledgers
<1>4. \A c \in Collections : l.size[c] # Legacy => size[c] = l.size[c]
  BY <1>2 DEF Sound, Ledgers
<1> HIDE DEF size
<1>5. /\ k \in Ledgers /\ k.exists = l.exists /\ k.verified = l.verified
      /\ k.text = l.text /\ k.authority = l.authority /\ k.collection = l.collection
      /\ k.size = size
  BY <1>2, <1>3 DEF Sound, Ledgers
<1>6. Follows(l, k)
  BY <1>4, <1>5 DEF Follows, Others, Members
<1>7. QED
  BY <1>5, <1>6 DEF Sound

LEMMA DelegatesSound ==
  ASSUME NEW l, Sound(l), NEW i \in Sendable,
         NEW k, k # Refused,
         \/ i.type = "approveCollectionAuthority" /\ k = ApproveCollectionAuthority(l, i)
         \/ i.type = "revokeCollectionAuthority" /\ k = RevokeCollectionAuthority(l, i)
  PROVE  Sound(k) /\ Follows(l, k)
<1>1. i.key \in Keys
  BY DEF Sendable
<1>2. l.delegates \in [Collections -> SUBSET Keys]
  BY DEF Sound, Ledgers
<1>3. \E delegates \in [Collections -> SUBSET Keys] : k = [l EXCEPT !.delegates = delegates]
  <2>1. CASE i.type = "approveCollectionAuthority"
    <3> DEFINE d == [l.delegates EXCEPT ![i.collection] = @ \cup {i.key}]
    <3>1. k = [l EXCEPT !.delegates = d]
      BY <2>1 DEF ApproveCollectionAuthority
    <3>2. d \in [Collections -> SUBSET Keys]
      BY <1>1, <1>2
    <3>3. QED
      BY <3>1, <3>2
  <2>2. CASE i.type = "revokeCollectionAuthority"
    <3> DEFINE d == [l.delegates EXCEPT ![i.collection] = @ \ {i.key}]
    <3>1. k = [l EXCEPT !.delegates = d]
      BY <2>2 DEF RevokeCollectionAuthority
    <3>2. d \in [Collections -> SUBSET Keys]
      BY <1>1, <1>2
    <3>3. QED
      BY <3>1, <3>2
  <2>3. QED
    BY <2>1, <2>2
<1>4. /\ k \in Ledgers /\ k.exists = l.exists /\ k.verified = l.verified
      /\ k.text = l.text /\ k.authority = l.authority /\ k.collection = l.collection
      /\ k.size = l.size
  BY <1>3 DEF Sound, Ledgers
<1>5. Follows(l, k)
  BY <1>4 DEF Follows, Others, Members
<1>6. QED
  BY <1>4, <1>5 DEF Sound

\* A verified NFT leaves the collection it is burned with.
LEMMA BurnSound ==
  ASSUME NEW l, Sound(l), NEW i \in Sendable, i.type = "burnNft",
         NEW k, k = BurnNft(l, i), k # Refused
  PROVE  /\ Sound(k)
         /\ \A c \in Collections :
              l.size[c] # Legacy /\ l.size[c] # 0
                => k.size[c] # Legacy /\ Others(k, c) = Others(l, c)
         /\ \A c \in Collections :
              ~(l.verified /\ l.collection = c) \/ l.size[c] = 0 => k.size[c] = l.size[c]
         /\ ~k.verified
<1> DEFINE c == l.collection
           n == IF l.size[c] = Legacy THEN Legacy ELSE l.size[c] + (-1)
           moved == l.verified /\ l.size[c] # 0
           size == IF moved THEN [l.size EXCEPT ![c] = n] ELSE l.size
<1>1. k = [NoNft EXCEPT !.delegates = l.delegates, !.size = size]
  BY DEF BurnNft, Resized
<1>2. /\ l.size \in [Collections -> (0 .. MaxSize) \cup {Legacy}]
      /\ l.delegates \in [Collections -> SUBSET Keys]
      /\ l.verified => c \in Collections
  BY DEF Sound, Ledgers
<1>3. moved => n \in (0 .. MaxSize) \cup {Legacy}
  BY <1>2, CollectionsAssumption
<1> HIDE DEF n, c
<1>4. size \in [Collections -> (0 .. MaxSize) \cup {Legacy}]
  BY <1>2, <1>3
<1>5. /\ moved => size[c] = n
      /\ \A x \in Collections : ~(moved /\ x = c) => size[x] = l.size[x]
  BY <1>2
<1> HIDE DEF size
<1>6. NoNft \in Ledgers /\ ~NoNft.exists /\ ~NoNft.verified
  BY CollectionsAssumption DEF NoNft, Ledgers, CreatorStates
<1>7. k \in Ledgers /\ ~k.exists /\ ~k.verified /\ k.size = size
  BY <1>1, <1>2, <1>4, <1>6 DEF Ledgers
<1>8. ASSUME NEW x \in Collections, l.size[x] # Legacy, l.size[x] # 0
      PROVE  k.size[x] # Legacy /\ Others(k, x) = Others(l, x)
  <2>1. Members(k, x) = 0
    BY <1>7 DEF Members
  <2>2. CASE ~(l.verified /\ x = c)
    <3>1. Members(l, x) = 0 /\ size[x] = l.size[x]
      BY <1>5, <2>2 DEF Members, c
    <3>2. QED
      BY <1>7, <1>8, <2>1, <3>1 DEF Others
  <2>3. CASE l.verified /\ x = c
    <3>1. moved /\ Members(l, x) = 1
      BY <1>8, <2>3 DEF Members, c
    <3>2. l.size[x] \in Nat /\ n = l.size[x] - 1 /\ n # Legacy /\ size[x] = n
      BY <1>2, <1>5, <1>8, <2>3, <3>1, CollectionsAssumption DEF n
    <3>3. QED
      BY <1>7, <2>1, <3>1, <3>2 DEF Others
  <2>4. QED
    BY <2>2, <2>3
<1>9. \A x \in Collections :
        ~(l.verified /\ l.collection = x) \/ l.size[x] = 0 => k.size[x] = l.size[x]
  BY <1>5, <1>7 DEF c
<1>10. QED
  BY <1>7, <1>8, <1>9 DEF Sound

LEMMA ExecuteSound ==
  ASSUME NEW l, Sound(l), NEW i \in Sendable, NEW k, k = Execute(l, i), k # Refused
  PROVE  /\ Sound(k)
         /\ i.type \notin {"updateMetadata", "burnNft"} => Follows(l, k)
<1>1. CASE i.type = "createMetadata"
  <2>1. k = CreateMetadata(l, i)
    BY <1>1 DEF Execute
  <2>2. QED
    BY <1>1, <2>1, CreateSound
<1>2. CASE i.type = "updateMetadata"
  <2>1. k = UpdateMetadata(l, i)
    BY <1>2 DEF Execute
  <2>2. QED
    BY <1>2, <2>1, UpdateSound
<1>3. CASE i.type = "verifyCreators"
  <2>1. k = VerifyCreators(l, i)
    BY <1>3 DEF Execute
  <2>2. QED
    BY <1>3, <2>1, VerifyCreatorsSound
<1>4. CASE i.type = "unverifyCreator"
  <2>1. k = UnverifyCreator(l, i)
    BY <1>4 DEF Execute
  <2>2. QED
    BY <1>4, <2>1, UnverifyCreatorSound
<1>5. CASE i.type = "verifyCollection"
  <2>1. k = VerifyCollection(l, i)
    BY <1>5 DEF Execute
  <2>2. QED
    BY <1>5, <2>1, VerifySound
<1>6. CASE i.type = "unverifyCollection"
  <2>1. k = UnverifyCollection(l, i)
    BY <1>6 DEF Execute
  <2>2. QED
    BY <1>6, <2>1, UnverifySound
<1>7. CASE i.type = "setCollectionSize"
  <2>1. k = SetCollectionSize(l, i)
    BY <1>7 DEF Execute
  <2>2. QED
    BY <1>7, <2>1, MigrateSound
<1>8. CASE i.type = "approveCollectionAuthority"
  <2>1. k = ApproveCollectionAuthority(l, i)
    BY <1>8 DEF Execute
  <2>2. QED
    BY <1>8, <2>1, DelegatesSound
<1>9. CASE i.type = "revokeCollectionAuthority"
  <2>1. k = RevokeCollectionAuthority(l, i)
    BY <1>9 DEF Execute
  <2>2. QED
    BY <1>9, <2>1, DelegatesSound
<1>10. CASE i.type = "burnNft"
  <2>1. k = BurnNft(l, i)
    BY <1>10 DEF Execute
  <2>2. QED
    BY <1>10, <2>1, BurnSound
<1>11. i.type \in {"createMetadata", "updateMetadata", "verifyCreators",
                   "unverifyCreator", "verifyCollection", "unverifyCollection",
                   "setCollectionSize", "approveCollectionAuthority",
                   "revokeCollectionAuthority", "burnNft"}
  BY DEF Sendable
<1>12. QED
  BY <1>1, <1>2, <1>3, <1>4, <1>5, <1>6, <1>7, <1>8, <1>9, <1>10, <1>11

LEMMA TransactionSound ==
  ASSUME NEW l, Sound(l), NEW s \in Seq(Sendable), After(l, s) # Refused
  PROVE  Sound(After(l, s))
<1> DEFINE Fine(m) == m = Refused \/ Sound(m)
<1>1. ASSUME NEW m, Fine(m), NEW n \in 1 .. 4
      PROVE  Fine(Step(m, s, n))
  <2>1. CASE m = Refused \/ n > Len(s)
    BY <1>1, <2>1 DEF Step
  <2>2. CASE ~(m = Refused \/ n > Len(s))
    <3>1. Step(m, s, n) = Execute(m, s[n]) /\ Sound(m)
      BY <1>1, <2>2 DEF Step
    <3>2. s[n] \in Sendable
      <4>1. Len(s) \in Nat
        BY LenProperties
      <4>2. n \in 1 .. Len(s)
        BY <2>2, <4>1
      <4>3. QED
        BY <4>2, ElementOfSeq
    <3>3. CASE Execute(m, s[n]) # Refused
      BY <3>1, <3>2, <3>3, ExecuteSound
    <3>4. QED
      BY <3>1, <3>3
  <2>3. QED
    BY <2>1, <2>2
<1>2. Fine(l)
  OBVIOUS
<1> DEFINE first  == Step(l, s, 1)
           second == Step(first, s, 2)
           third  == Step(second, s, 3)
           fourth == Step(third, s, 4)
<1>3. After(l, s) = fourth
  BY DEF After, MaxInstructions
<1> HIDE DEF Fine, first, second, third, fourth
<1>4. Fine(first)
  BY <1>1, <1>2 DEF first
<1>5. Fine(second)
  BY <1>1, <1>4 DEF second
<1>6. Fine(third)
  BY <1>1, <1>5 DEF third
<1>7. Fine(fourth)
  BY <1>1, <1>6 DEF fourth
<1>8. QED
  BY <1>3, <1>7 DEF Fine

-----------------------------------------------------------------------------
(* What the builders make of a model, an identity and a request.           *)

SentOnce(s) == Len(s) \in 1 .. MaxInstructions

LEMMA OneShape ==
  ASSUME NEW i \in Sendable
  PROVE  /\ <<i>> \in Seq(Sendable) /\ SentOnce(<<i>>)
         /\ \A l : After(l, <<i>>) = Run(l, i)
<1>1. <<i>> \in Seq(Sendable) /\ Len(<<i>>) = 1
  OBVIOUS
<1>2. SentOnce(<<i>>)
  BY <1>1 DEF SentOnce, MaxInstructions
<1>3. QED
  BY <1>1, <1>2, AfterOne

Verifies(request) ==
  request.collection \in Collections /\ request.collectionAuthority # NoKey

TheVerification(request) ==
  VerifyCollectionInstruction(request.collectionAuthority, request.collection,
                              request.sized, request.delegated)

LEMMA VerificationType ==
  ASSUME NEW request \in CreateInputs \cup UpdateInputs, Verifies(request)
  PROVE  TheVerification(request) \in Sendable
<1> DEFINE k == request.collectionAuthority
           c == request.collection
           s == request.sized
           d == request.delegated
<1>1. k \in Keys /\ c \in Collections /\ s \in BOOLEAN /\ d \in BOOLEAN
  BY DEF Verifies, CreateInputs, UpdateInputs
<1>2. TheVerification(request) = VerifyCollectionInstruction(k, c, s, d)
  BY DEF TheVerification
<1> HIDE DEF k, c, s, d
<1>3. QED
  BY <1>1, <1>2 DEF VerifyCollectionInstruction, Sendable

Input(owner, wanted) == Given(wanted.creators, DefaultCreators(owner))

Extra(owner, wanted) == Signing(Input(owner, wanted)) \ {owner}

TheCreators(creators) == [type |-> "verifyCreators", creators |-> creators]

LEMMA InputType ==
  ASSUME NEW owner, NEW wanted \in CreateInputs
  PROVE  Input(owner, wanted) \in CreatorInputs /\ Extra(owner, wanted) \subseteq Creators
BY DEF Input, Extra, Given, DefaultCreators, CreateInputs, CreatorInputs, Signing

LEMMA CreateShape ==
  ASSUME NEW owner \in Keys, NEW wanted \in CreateInputs
  PROVE  LET s == CreateInstructions(owner, wanted)
             a == CreateMetadataInstruction(owner, wanted)
         IN  /\ s \in Seq(Sendable) /\ SentOnce(s)
             /\ a \in Sendable
             /\ \A l : After(l, s) =
                  RunIf(RunIf(Run(l, a),
                              Extra(owner, wanted) # {}, TheCreators(Extra(owner, wanted))),
                        Verifies(wanted), TheVerification(wanted))
<1> DEFINE s == CreateInstructions(owner, wanted)
           a == CreateMetadataInstruction(owner, wanted)
           i2 == TheCreators(Extra(owner, wanted))
           i3 == TheVerification(wanted)
           c2 == Extra(owner, wanted) # {}
           c3 == Verifies(wanted)
           s1 == <<a>>
           s2 == s1 \o When(c2, i2)
           s3 == s2 \o When(c3, i3)
<1>1. c2 \in BOOLEAN /\ c3 \in BOOLEAN
  BY DEF Verifies
<1>2. a \in Sendable
  <2> DEFINE creators == [k \in Creators |->
               IF Input(owner, wanted)[k] = "absent" THEN "absent"
               ELSE IF k = owner THEN "verified" ELSE "unverified"]
             text == wanted.text
             collection == wanted.collection
  <2>1. creators \in [Creators -> CreatorStates]
    BY DEF CreatorStates
  <2>2. text \in Texts /\ collection \in Collections \cup {NoCollection}
    BY DEF CreateInputs
  <2>3. a = [type |-> "createMetadata", signer |-> owner, text |-> text,
             collection |-> collection, creators |-> creators]
    BY DEF CreateMetadataInstruction, Input
  <2> HIDE DEF a, creators, text, collection
  <2>4. QED
    BY <2>1, <2>2, <2>3 DEF Sendable, AnyCollection
<1>3. i2 \in Sendable
  BY InputType DEF Sendable, TheCreators
<1>4. c3 => i3 \in Sendable
  BY VerificationType
<1>5. s = <<a>> \o When(c2, i2) \o When(c3, i3)
  BY DEF CreateInstructions, Extra, Input, TheCreators, VerifyNewCollection, Verifies,
         TheVerification
<1> HIDE DEF a, i2, i3, c2, c3
<1>6. s1 \in Seq(Sendable) /\ Len(s1) <= 1 /\ \A l : After(l, s1) = Run(l, a)
  BY <1>2, AfterOne
<1>7. 1 <= Len(s1)
  OBVIOUS
<1> HIDE DEF s1
<1>8. /\ s2 \in Seq(Sendable) /\ Len(s2) <= 2 /\ Len(s1) <= Len(s2)
      /\ \A l : After(l, s2) = RunIf(After(l, s1), c2, i2)
  BY <1>1, <1>3, <1>6, AfterWhen
<1> HIDE DEF s2
<1>9. /\ s3 \in Seq(Sendable) /\ Len(s3) <= 3 /\ Len(s2) <= Len(s3)
      /\ \A l : After(l, s3) = RunIf(After(l, s2), c3, i3)
  BY <1>1, <1>4, <1>8, AfterWhen
<1>10. s = s3
  BY <1>5 DEF s1, s2
<1> HIDE DEF s, s3
<1>11. SentOnce(s)
  <2> DEFINE n1 == Len(s1)
             n2 == Len(s2)
             n3 == Len(s3)
  <2>1. n1 \in Nat /\ n2 \in Nat /\ n3 \in Nat
    BY <1>6, <1>8, <1>9, LenProperties
  <2>2. 1 <= n1 /\ n1 <= n2 /\ n2 <= n3 /\ n3 <= 3
    BY <1>7, <1>8, <1>9
  <2> HIDE DEF n1, n2, n3
  <2>3. n3 \in 1 .. 4
    BY <2>1, <2>2
  <2>4. QED
    BY <1>10, <2>3 DEF SentOnce, MaxInstructions, n3
<1>12. \A l : After(l, s) = RunIf(RunIf(Run(l, a), c2, i2), c3, i3)
  BY <1>6, <1>8, <1>9, <1>10
<1>13. QED
  BY <1>2, <1>9, <1>10, <1>11, <1>12 DEF s, a, c2, c3, i2, i3

TheUnverification(m, owner, edit) ==
  UnverifyCollectionInstruction(owner, m.collection, edit.oldSized, FALSE)

LEMMA UnverificationFields ==
  ASSUME NEW m \in Models, NEW owner \in Keys, NEW edit \in UpdateInputs
  PROVE  LET i == TheUnverification(m, owner, edit)
         IN  /\ i.type = "unverifyCollection" /\ i.signer = owner
             /\ i.collection = m.collection /\ i.sized = edit.oldSized
             /\ i.delegated = FALSE
             /\ i \in Sendable
<1> DEFINE c == m.collection
           z == edit.oldSized
           i == TheUnverification(m, owner, edit)
<1>1. c \in Collections \cup {NoCollection} /\ z \in BOOLEAN
  BY DEF Models, UpdateInputs
<1>2. i = UnverifyCollectionInstruction(owner, c, z, FALSE)
  BY DEF TheUnverification
<1> HIDE DEF c, z, i
<1>3. /\ i.type = "unverifyCollection" /\ i.signer = owner
      /\ i.collection = c /\ i.sized = z /\ i.delegated = FALSE
      /\ i \in Sendable
  BY <1>1, <1>2 DEF UnverifyCollectionInstruction, Sendable, AnyCollection
<1>4. QED
  BY <1>3 DEF c, z, i

TheUpdate(m, owner, edit) ==
  UpdateMetadataInstruction(ToInstructionData(m, edit), owner, edit)

LEMMA TheUpdateType ==
  ASSUME NEW m \in Models, NEW owner \in Keys, NEW edit \in UpdateInputs
  PROVE  LET i == TheUpdate(m, owner, edit)
         IN  /\ i \in Sendable /\ i.type = "updateMetadata" /\ i.signer = owner
             /\ i.text = Given(edit.text, m.text)
             /\ i.creators = CreatorsData(m, edit)
             /\ i.collection = Given(edit.collection, m.collection)
             /\ (i.verified <=> edit.collection = Keep /\ m.verified)
             /\ i.authority = Given(edit.authority, owner)
<1> DEFINE text == Given(edit.text, m.text)
           creators == CreatorsData(m, edit)
           collection == Given(edit.collection, m.collection)
           verified == edit.collection = Keep /\ m.verified
           authority == Given(edit.authority, owner)
           i == TheUpdate(m, owner, edit)
<1>1. text \in Texts
  BY DEF Given, UpdateInputs, Models
<1>2. creators \in [Creators -> CreatorStates]
  BY DEF CreatorsData, Models, CreatorStates
<1>3. collection \in Collections \cup {NoCollection}
  BY DEF Given, UpdateInputs, Models
<1>4. authority \in Keys
  BY DEF Given, UpdateInputs
<1>5. verified \in BOOLEAN
  BY DEF Models
<1>6. i = [type |-> "updateMetadata", signer |-> owner, text |-> text,
           creators |-> creators, collection |-> collection, verified |-> verified,
           authority |-> authority]
  BY DEF TheUpdate, UpdateMetadataInstruction, ToInstructionData
<1> HIDE DEF i, text, creators, collection, verified, authority
<1>7. /\ i \in Sendable /\ i.type = "updateMetadata" /\ i.signer = owner
      /\ i.text = text /\ i.creators = creators /\ i.collection = collection
      /\ i.verified = verified /\ i.authority = authority
  BY <1>1, <1>2, <1>3, <1>4, <1>5, <1>6 DEF Sendable, AnyCollection
<1>8. QED
  BY <1>7 DEF i, text, creators, collection, verified, authority

\* An update, one instruction after the other.
AfterUnverification(l, m, owner, edit) ==
  RunIf(l, ShouldUnverifyCurrentCollection(m, edit), TheUnverification(m, owner, edit))

AfterMetadata(l, m, owner, edit) ==
  RunIf(AfterUnverification(l, m, owner, edit),
        ShouldSendUpdate(m, edit), TheUpdate(m, owner, edit))

AfterCreators(l, m, owner, edit) ==
  RunIf(AfterMetadata(l, m, owner, edit),
        AdditionalCreators(m, edit) # {}, TheCreators(AdditionalCreators(m, edit)))

AfterUpdate(l, m, owner, edit) ==
  RunIf(AfterCreators(l, m, owner, edit), Verifies(edit), TheVerification(edit))

LEMMA UpdateShape ==
  ASSUME NEW m \in Models, NEW owner \in Keys, NEW edit \in UpdateInputs,
         UpdateInstructions(m, owner, edit) # <<>>
  PROVE  LET s == UpdateInstructions(m, owner, edit)
         IN  /\ s \in Seq(Sendable) /\ SentOnce(s)
             /\ \A l : After(l, s) = AfterUpdate(l, m, owner, edit)
<1> DEFINE i1 == TheUnverification(m, owner, edit)
           i2 == TheUpdate(m, owner, edit)
           i3 == TheCreators(AdditionalCreators(m, edit))
           i4 == TheVerification(edit)
           c1 == ShouldUnverifyCurrentCollection(m, edit)
           c2 == ShouldSendUpdate(m, edit)
           c3 == AdditionalCreators(m, edit) # {}
           c4 == Verifies(edit)
           s0 == <<>>
           s1 == s0 \o When(c1, i1)
           s2 == s1 \o When(c2, i2)
           s3 == s2 \o When(c3, i3)
           s4 == s3 \o When(c4, i4)
           s  == UpdateInstructions(m, owner, edit)
<1>1. c1 \in BOOLEAN /\ c2 \in BOOLEAN /\ c3 \in BOOLEAN /\ c4 \in BOOLEAN
  BY DEF ShouldUnverifyCurrentCollection, ShouldSendUpdate, Verifies, Models
<1>2. i1 \in Sendable
  BY UnverificationFields
<1>3. i2 \in Sendable
  BY TheUpdateType
<1>4. i3 \in Sendable
  <2>1. AdditionalCreators(m, edit) \subseteq Creators
    BY DEF AdditionalCreators, Signing
  <2>2. QED
    BY <2>1 DEF Sendable, TheCreators
<1>5. c4 => i4 \in Sendable
  BY VerificationType
<1>6. s = When(c1, i1) \o When(c2, i2) \o When(c3, i3) \o When(c4, i4)
  BY DEF UpdateInstructions, TheUnverification, TheUpdate, TheCreators,
         VerifyNewCollection, Verifies, TheVerification
<1>7. s0 \in Seq(Sendable) /\ Len(s0) <= 0 /\ \A l : After(l, s0) = l
  BY AfterNothing
<1> HIDE DEF c1, c2, c3, c4, i1, i2, i3, i4, s0, s
<1>8. /\ s1 \in Seq(Sendable) /\ Len(s1) <= 1
      /\ \A l : After(l, s1) = RunIf(After(l, s0), c1, i1)
  BY <1>1, <1>2, <1>7, AfterWhen
<1> HIDE DEF s1
<1>9. /\ s2 \in Seq(Sendable) /\ Len(s2) <= 2
      /\ \A l : After(l, s2) = RunIf(After(l, s1), c2, i2)
  BY <1>1, <1>3, <1>8, AfterWhen
<1> HIDE DEF s2
<1>10. /\ s3 \in Seq(Sendable) /\ Len(s3) <= 3
       /\ \A l : After(l, s3) = RunIf(After(l, s2), c3, i3)
  BY <1>1, <1>4, <1>9, AfterWhen
<1> HIDE DEF s3
<1>11. /\ s4 \in Seq(Sendable) /\ Len(s4) <= 4
       /\ \A l : After(l, s4) = RunIf(After(l, s3), c4, i4)
  BY <1>1, <1>5, <1>10, AfterWhen
<1>12. s = s4
  <2>1. When(c1, i1) \in Seq(Sendable)
    BY <1>2 DEF When
  <2>2. s1 = When(c1, i1)
    BY <2>1 DEF s1, s0
  <2>3. QED
    BY <1>6, <2>2 DEF s2, s3
<1> HIDE DEF s4
<1>13. SentOnce(s)
  <2>1. s # <<>>
    BY DEF s
  <2> DEFINE n == Len(s)
  <2>2. n \in Nat /\ n # 0 /\ n <= 4
    BY <1>11, <1>12, <2>1, EmptySeq, LenProperties
  <2> HIDE DEF n
  <2>3. n \in 1 .. 4
    BY <2>2
  <2>4. QED
    BY <2>3 DEF SentOnce, MaxInstructions, n
<1>14. \A l : After(l, s) =
         RunIf(RunIf(RunIf(RunIf(l, c1, i1), c2, i2), c3, i3), c4, i4)
  BY <1>7, <1>8, <1>9, <1>10, <1>11, <1>12
<1>15. \A l : After(l, s) = AfterUpdate(l, m, owner, edit)
  BY <1>14 DEF AfterUpdate, AfterCreators, AfterMetadata, AfterUnverification,
               c1, c2, c3, c4, i1, i2, i3, i4
<1>16. QED
  BY <1>11, <1>12, <1>13, <1>15 DEF s

-----------------------------------------------------------------------------
(* The inductive invariant: every transaction is what its builder makes of *)
(* the model and the request that are kept with it.                        *)

Singles ==
  {"verifyCreator", "unverifyCreator", "verifyCollection", "unverifyCollection",
   "migrate", "approve", "revoke", "delete"}

\* The instruction of an operation that sends a single one.
Only(t, i) ==
  /\ t.instructions = <<i>> /\ i \in Sendable
  /\ i.type \notin {"createMetadata", "updateMetadata"}
  /\ i.type = "burnNft" <=> t.op = "delete"

Built(t) ==
  /\ t.client \in Clients /\ t.op \in Calls[t.client]
  /\ t.base \in Models \cup {NoModel}
  /\ t.instructions \in Seq(Sendable) /\ SentOnce(t.instructions)
  /\ \/ /\ t.op = "create" /\ t.aim \in CreateInputs
        /\ t.instructions = CreateInstructions(Identity[t.client], t.aim)
     \/ /\ t.op = "update" /\ t.base \in Models /\ t.aim \in UpdateInputs
        /\ t.instructions = UpdateInstructions(t.base, Identity[t.client], t.aim)
        /\ t.instructions # <<>>
     \/ t.op \in Singles /\ \E i : Only(t, i)

Inv ==
  /\ Sound(ledger)
  /\ created \in BOOLEAN
  /\ model \in [Clients -> Models \cup {NoModel}]
  /\ \A t \in network : Built(t)

LEMMA InitInv == Init => Inv
<1> SUFFICES ASSUME Init PROVE Inv
  OBVIOUS
<1>1. NoNft \in Ledgers /\ ~NoNft.exists /\ ~NoNft.verified
  BY CollectionsAssumption DEF NoNft, Ledgers, CreatorStates
<1>2. QED
  BY <1>1 DEF Init, Inv, Sound

LEMMA SendKeeps ==
  ASSUME Inv, NEW c \in Clients, NEW op, NEW instructions, NEW base, NEW aim,
         Send(c, op, instructions, base, aim),
         base \in Models \cup {NoModel},
         instructions \in Seq(Sendable), SentOnce(instructions),
         \/ /\ op = "create" /\ aim \in CreateInputs
            /\ instructions = CreateInstructions(Identity[c], aim)
         \/ /\ op = "update" /\ base \in Models /\ aim \in UpdateInputs
            /\ instructions = UpdateInstructions(base, Identity[c], aim)
            /\ instructions # <<>>
         \/ /\ op \in Singles
            /\ \E i : Only([op |-> op, instructions |-> instructions], i),
         ledger' = ledger, model' = model, created' \in BOOLEAN
  PROVE  Inv'
<1> DEFINE tx == [client |-> c, op |-> op, instructions |-> instructions,
                  base |-> base, aim |-> aim]
<1>1. network' = network \cup {tx} /\ op \in Calls[c]
  BY DEF Send
<1>2. /\ tx.client = c /\ tx.op = op /\ tx.instructions = instructions
      /\ tx.base = base /\ tx.aim = aim
  OBVIOUS
<1> HIDE DEF tx
<1>3. Built(tx)
  BY <1>1, <1>2 DEF Built, Only
<1>4. \A t \in network' : Built(t)
  BY <1>1, <1>3 DEF Inv
<1>5. (\A t \in network : Built(t))'
  BY <1>4 DEF Built, Only
<1>6. Sound(ledger)' /\ (model \in [Clients -> Models \cup {NoModel}])'
  BY DEF Inv
<1>7. QED
  BY <1>5, <1>6 DEF Inv

\* An operation that sends one instruction.
LEMMA SingleKeeps ==
  ASSUME Inv, NEW c \in Clients, NEW op \in Singles, NEW i \in Sendable,
         Send(c, op, <<i>>, NoModel, NoAim),
         i.type \notin {"createMetadata", "updateMetadata"},
         i.type = "burnNft" <=> op = "delete",
         UNCHANGED <<ledger, created, model>>
  PROVE  Inv'
<1> DEFINE s == <<i>>
           r == [op |-> op, instructions |-> s]
<1>1. s \in Seq(Sendable) /\ SentOnce(s)
  BY OneShape
<1>2. r.op = op /\ r.instructions = <<i>>
  OBVIOUS
<1>3. Only(r, i)
  <2> HIDE DEF r
  <2>1. QED
    BY <1>2 DEF Only
<1>4. ledger' = ledger /\ model' = model /\ created' \in BOOLEAN
  BY DEF Inv
<1>5. Send(c, op, s, NoModel, NoAim) /\ \E x : Only(r, x)
  BY <1>3
<1> HIDE DEF s
<1>6. QED
  BY <1>1, <1>4, <1>5, SendKeeps

LEMMA CreateKeeps ==
  ASSUME Inv, NEW c \in Clients, NEW wanted \in Wishes, Create(c, wanted)
  PROVE  Inv'
<1> DEFINE s == CreateInstructions(Identity[c], wanted)
<1>1. wanted \in CreateInputs /\ Identity[c] \in Keys
  BY ClientsAssumption
<1>2. s \in Seq(Sendable) /\ SentOnce(s)
  BY <1>1, CreateShape
<1>3. /\ Send(c, "create", s, NoModel, wanted)
      /\ created' \in BOOLEAN /\ ledger' = ledger /\ model' = model
  BY DEF Create
<1> HIDE DEF s
<1>4. s = CreateInstructions(Identity[c], wanted)
  BY DEF s
<1>5. QED
  BY <1>1, <1>2, <1>3, <1>4, SendKeeps

LEMMA UpdateKeeps ==
  ASSUME Inv, NEW c \in Clients, NEW edit \in Edits, Update(c, edit)
  PROVE  Inv'
<1> DEFINE m == model[c]
           s == UpdateInstructions(m, Identity[c], edit)
<1>1. edit \in UpdateInputs /\ Identity[c] \in Keys /\ m \in Models
  BY ClientsAssumption DEF Inv, Update
<1>2. /\ s # <<>> /\ Send(c, "update", s, m, edit)
      /\ created' \in BOOLEAN /\ ledger' = ledger /\ model' = model
  BY DEF Update, Inv
<1> HIDE DEF m
<1>3. s \in Seq(Sendable) /\ SentOnce(s)
  BY <1>1, <1>2, UpdateShape
<1>4. s = UpdateInstructions(m, Identity[c], edit)
  OBVIOUS
<1> HIDE DEF s
<1>5. QED
  BY <1>1, <1>2, <1>3, <1>4, SendKeeps

LEMMA CreatorCallsKeep ==
  ASSUME Inv, NEW c \in Clients, NEW k \in Creators,
         VerifyCreator(c, k) \/ RemoveVerification(c, k)
  PROVE  Inv'
<1>1. CASE VerifyCreator(c, k)
  <2> DEFINE i == [type |-> "verifyCreators", creators |-> {k}]
  <2>1. i \in Sendable /\ i.type = "verifyCreators"
    BY DEF Sendable
  <2>2. Send(c, "verifyCreator", <<i>>, NoModel, NoAim) /\ UNCHANGED <<ledger, created, model>>
    BY <1>1 DEF VerifyCreator, VerifyCreatorInstructions
  <2> HIDE DEF i
  <2>3. QED
    BY <2>1, <2>2, SingleKeeps DEF Singles
<1>2. CASE RemoveVerification(c, k)
  <2> DEFINE i == [type |-> "unverifyCreator", creator |-> k]
  <2>1. i \in Sendable /\ i.type = "unverifyCreator"
    BY DEF Sendable
  <2>2. Send(c, "unverifyCreator", <<i>>, NoModel, NoAim) /\ UNCHANGED <<ledger, created, model>>
    BY <1>2 DEF RemoveVerification, UnverifyCreatorInstructions
  <2> HIDE DEF i
  <2>3. QED
    BY <2>1, <2>2, SingleKeeps DEF Singles
<1>3. QED
  BY <1>1, <1>2

LEMMA CollectionCallsKeep ==
  ASSUME Inv, NEW c \in Clients, NEW k \in Hands[c], NEW col \in Collections,
         NEW sized \in BOOLEAN, NEW delegated \in BOOLEAN,
         Verify(c, k, col, sized, delegated) \/ Unverify(c, k, col, sized, delegated)
  PROVE  Inv'
<1>0. k \in Keys
  BY ClientsAssumption
<1>1. CASE Verify(c, k, col, sized, delegated)
  <2> DEFINE i == VerifyCollectionInstruction(k, col, sized, delegated)
  <2>1. i \in Sendable /\ i.type = "verifyCollection"
    BY <1>0 DEF Sendable, VerifyCollectionInstruction
  <2>2. Send(c, "verifyCollection", <<i>>, NoModel, NoAim)
        /\ UNCHANGED <<ledger, created, model>>
    BY <1>1 DEF Verify
  <2> HIDE DEF i
  <2>3. QED
    BY <2>1, <2>2, SingleKeeps DEF Singles
<1>2. CASE Unverify(c, k, col, sized, delegated)
  <2> DEFINE i == UnverifyCollectionInstruction(k, col, sized, delegated)
  <2>1. i \in Sendable /\ i.type = "unverifyCollection"
    BY <1>0 DEF Sendable, UnverifyCollectionInstruction, AnyCollection
  <2>2. Send(c, "unverifyCollection", <<i>>, NoModel, NoAim)
        /\ UNCHANGED <<ledger, created, model>>
    BY <1>2 DEF Unverify
  <2> HIDE DEF i
  <2>3. QED
    BY <2>1, <2>2, SingleKeeps DEF Singles
<1>3. QED
  BY <1>1, <1>2

LEMMA MigrateKeeps ==
  ASSUME Inv, NEW c \in Clients, NEW col \in Collections, NEW size \in Counts,
         NEW delegated \in BOOLEAN, Migrate(c, col, size, delegated)
  PROVE  Inv'
<1> DEFINE k == Identity[c]
           i == [type |-> "setCollectionSize", signer |-> k, collection |-> col,
                 size |-> size, delegated |-> delegated]
<1>1. i \in Sendable /\ i.type = "setCollectionSize"
  <2>1. k \in Keys /\ size \in 0 .. MaxSize
    BY ClientsAssumption
  <2> HIDE DEF k
  <2>2. QED
    BY <2>1 DEF Sendable
<1>2. Send(c, "migrate", <<i>>, NoModel, NoAim) /\ UNCHANGED <<ledger, created, model>>
  BY DEF Migrate, MigrateInstructions
<1> HIDE DEF i
<1>3. QED
  BY <1>1, <1>2, SingleKeeps DEF Singles

LEMMA DelegateCallsKeep ==
  ASSUME Inv, NEW c \in Clients, NEW col \in Collections, NEW k \in Delegates,
         Approve(c, col, k) \/ Revoke(c, col, k)
  PROVE  Inv'
<1> DEFINE o == Identity[c]
<1>0. k \in Keys /\ o \in Keys
  BY ClientsAssumption
<1>1. CASE Approve(c, col, k)
  <2> DEFINE i == [type |-> "approveCollectionAuthority", signer |-> o,
                   collection |-> col, key |-> k]
  <2>1. Send(c, "approve", <<i>>, NoModel, NoAim) /\ UNCHANGED <<ledger, created, model>>
    BY <1>1 DEF Approve, ApproveCollectionAuthorityInstructions
  <2> HIDE DEF o
  <2>2. i \in Sendable /\ i.type = "approveCollectionAuthority"
    BY <1>0 DEF Sendable
  <2> HIDE DEF i
  <2>3. QED
    BY <2>1, <2>2, SingleKeeps DEF Singles
<1>2. CASE Revoke(c, col, k)
  <2> DEFINE i == [type |-> "revokeCollectionAuthority", signer |-> o,
                   collection |-> col, key |-> k]
  <2>1. Send(c, "revoke", <<i>>, NoModel, NoAim) /\ UNCHANGED <<ledger, created, model>>
    BY <1>2 DEF Revoke, RevokeCollectionAuthorityInstructions
  <2> HIDE DEF o
  <2>2. i \in Sendable /\ i.type = "revokeCollectionAuthority"
    BY <1>0 DEF Sendable
  <2> HIDE DEF i
  <2>3. QED
    BY <2>1, <2>2, SingleKeeps DEF Singles
<1>3. QED
  BY <1>1, <1>2

LEMMA DeleteKeeps ==
  ASSUME Inv, NEW c \in Clients, NEW col \in Collections \cup {NoCollection},
         Delete(c, col)
  PROVE  Inv'
<1> DEFINE k == Identity[c]
           i == [type |-> "burnNft", signer |-> k, collection |-> col]
<1>1. i \in Sendable /\ i.type = "burnNft"
  <2>1. k \in Keys
    BY ClientsAssumption
  <2> HIDE DEF k
  <2>2. QED
    BY <2>1 DEF Sendable, AnyCollection
<1>2. Send(c, "delete", <<i>>, NoModel, NoAim) /\ UNCHANGED <<ledger, created, model>>
  BY DEF Delete, DeleteInstructions
<1> HIDE DEF i
<1>3. QED
  BY <1>1, <1>2, SingleKeeps DEF Singles

LEMMA ArrivalKeeps ==
  ASSUME Inv, network' \subseteq network, Sound(ledger'), created' = created,
         model' \in [Clients -> Models \cup {NoModel}]
  PROVE  Inv'
<1>1. \A t \in network' : Built(t)
  BY DEF Inv
<1>2. (\A t \in network : Built(t))'
  BY <1>1 DEF Built, Only
<1>3. QED
  BY <1>2 DEF Inv

LEMMA NextInv == Inv /\ [Next]_vars => Inv'
<1> SUFFICES ASSUME Inv, [Next]_vars PROVE Inv'
  OBVIOUS
<1>0. model \in [Clients -> Models \cup {NoModel}] /\ Sound(ledger)
  BY DEF Inv
<1>1. ASSUME NEW c \in Clients, Find(c) PROVE Inv'
  <2>1. ToMetadata(ledger) \in Models
    BY <1>0, <1>1 DEF Find, ToMetadata, Models, Sound, Ledgers
  <2>2. /\ network' \subseteq network /\ Sound(ledger') /\ created' = created
        /\ model' \in [Clients -> Models \cup {NoModel}]
    BY <1>0, <1>1, <2>1 DEF Find
  <2>3. QED
    BY <2>2, ArrivalKeeps
<1>2. ASSUME NEW t \in network, Land(t) PROVE Inv'
  <2>1. Built(t) /\ network' \subseteq network /\ created' = created /\ model' = model
    BY <1>2 DEF Land, Inv
  <2>2. Outcome(t) # Refused => Sound(Outcome(t))
    BY <1>0, <2>1, TransactionSound DEF Built, Outcome
  <2>3. Sound(ledger')
    BY <1>0, <1>2, <2>2 DEF Land
  <2>4. QED
    BY <1>0, <2>1, <2>3, ArrivalKeeps
<1>3. ASSUME NEW t \in network, Expire(t) PROVE Inv'
  <2>1. /\ network' \subseteq network /\ ledger' = ledger /\ created' = created
        /\ model' = model
    BY <1>3 DEF Expire
  <2>2. QED
    BY <1>0, <2>1, ArrivalKeeps
<1>4. CASE UNCHANGED vars
  <2>1. network' = network /\ ledger' = ledger /\ created' = created /\ model' = model
    BY <1>4 DEF vars
  <2>2. QED
    BY <1>0, <2>1, ArrivalKeeps
<1>5. QED
  BY <1>1, <1>2, <1>3, <1>4, CreateKeeps, UpdateKeeps, CreatorCallsKeep,
     CollectionCallsKeep, MigrateKeeps, DelegateCallsKeep, DeleteKeeps DEF Next

(* The accounts are sound, and what is in the network is what a builder    *)
(* made of a model that a client could hold.                               *)
THEOREM Invariant == Spec => []Inv
BY InitInv, NextInv, PTL DEF Spec

\* The types hold, however many clients, creators and collections there are.
THEOREM TypeCorrect == Spec => []TypeOK
<1>1. Inv => TypeOK
  BY DEF Inv, Sound, Built, SentOnce, TypeOK
<1>2. QED
  BY <1>1, Invariant, PTL

-----------------------------------------------------------------------------
(* What a transaction that creates the NFT makes of the accounts.          *)

LEMMA VerificationRuns ==
  ASSUME NEW l, Sound(l), NEW request \in CreateInputs \cup UpdateInputs,
         NEW k, k = RunIf(l, Verifies(request), TheVerification(request)), k # Refused
  PROVE  /\ Sound(k) /\ k.exists = l.exists /\ k.text = l.text
         /\ k.authority = l.authority
         /\ k.creators = l.creators /\ k.collection = l.collection
         /\ ~l.verified => (k.verified <=> Verifies(request))
         /\ Follows(l, k)
<1> DEFINE i == TheVerification(request)
<1>1. i.type = "verifyCollection"
  BY DEF TheVerification, VerifyCollectionInstruction
<1>2. CASE Verifies(request)
  <2>1. i \in Sendable
    BY <1>2, VerificationType
  <2>2. k = VerifyCollection(l, i)
    BY <1>1, <1>2, SoundIsNotRefused DEF RunIf, Run, Execute
  <2> HIDE DEF i
  <2>3. /\ Sound(k) /\ l.exists /\ k.exists /\ k.verified /\ k.text = l.text
        /\ k.authority = l.authority /\ k.creators = l.creators
        /\ k.collection = l.collection /\ Follows(l, k)
    BY <1>1, <2>1, <2>2, VerifySound
  <2>4. l.exists = TRUE /\ k.exists = TRUE
    BY <2>3 DEF Sound, Ledgers
  <2>5. QED
    BY <1>2, <2>3, <2>4
<1>3. CASE ~Verifies(request)
  <2>1. k = l
    BY <1>3 DEF RunIf
  <2>2. Follows(l, k)
    BY <2>1 DEF Follows
  <2>3. QED
    BY <1>3, <2>1, <2>2
<1>4. QED
  BY <1>2, <1>3

LEMMA CreatorsRun ==
  ASSUME NEW l, Sound(l), NEW S \in SUBSET Creators,
         NEW k, k = RunIf(l, S # {}, TheCreators(S)), k # Refused
  PROVE  /\ Sound(k) /\ k.exists = l.exists /\ k.text = l.text
         /\ k.authority = l.authority /\ k.collection = l.collection
         /\ k.verified = l.verified /\ k.delegates = l.delegates /\ k.size = l.size
         /\ k.creators = [x \in Creators |->
                            IF x \in S THEN "verified" ELSE l.creators[x]]
         /\ Follows(l, k)
<1> DEFINE i == TheCreators(S)
<1>1. i.type = "verifyCreators" /\ i.creators = S /\ i \in Sendable
  BY DEF TheCreators, Sendable
<1>2. CASE S # {}
  <2>1. k = VerifyCreators(l, i)
    BY <1>1, <1>2, SoundIsNotRefused DEF RunIf, Run, Execute
  <2> HIDE DEF i
  <2>2. /\ Sound(k) /\ l.exists /\ k.exists /\ k.text = l.text
        /\ k.authority = l.authority /\ k.collection = l.collection
        /\ k.verified = l.verified /\ k.delegates = l.delegates /\ k.size = l.size
        /\ k.creators = [x \in Creators |->
                           IF x \in S THEN "verified" ELSE l.creators[x]]
        /\ Follows(l, k)
    BY <1>1, <2>1, VerifyCreatorsSound
  <2>3. l.exists = TRUE /\ k.exists = TRUE
    BY <2>2 DEF Sound, Ledgers
  <2>4. QED
    BY <2>2, <2>3
<1>3. CASE S = {}
  <2>1. k = l
    BY <1>3 DEF RunIf
  <2>2. Follows(l, k)
    BY <2>1 DEF Follows
  <2>3. l.creators = [x \in Creators |-> IF x \in S THEN "verified" ELSE l.creators[x]]
    BY <1>3 DEF Sound, Ledgers
  <2>4. QED
    BY <2>1, <2>2, <2>3
<1>4. QED
  BY <1>2, <1>3

LEMMA CreateLands ==
  ASSUME NEW l, Sound(l), NEW owner \in Keys, NEW wanted \in CreateInputs,
         NEW k, k = After(l, CreateInstructions(owner, wanted)), k # Refused
  PROVE  /\ Sound(k) /\ Follows(l, k)
         /\ k.text = wanted.text /\ k.collection = wanted.collection
         /\ k.creators = CreatorsWanted(Input(owner, wanted), {owner})
         /\ k.verified <=> Verifies(wanted)
<1> DEFINE a == CreateMetadataInstruction(owner, wanted)
           S == Extra(owner, wanted)
           input == Input(owner, wanted)
           k1 == Run(l, a)
           k2 == RunIf(k1, S # {}, TheCreators(S))
<1>1. a \in Sendable /\ k = RunIf(k2, Verifies(wanted), TheVerification(wanted))
  BY CreateShape
<1>2. /\ a.type = "createMetadata" /\ a.text = wanted.text
      /\ a.collection = wanted.collection
      /\ a.creators = [x \in Creators |->
                         IF input[x] = "absent" THEN "absent"
                         ELSE IF x = owner THEN "verified" ELSE "unverified"]
  BY DEF CreateMetadataInstruction, Input
<1>3. S \in SUBSET Creators /\ input \in CreatorInputs
  BY InputType
<1>4. S = {x \in Creators : input[x] = "signing"} \ {owner}
  BY DEF Extra, Signing
<1> HIDE DEF a, S, input
<1>5. k1 # Refused /\ k2 # Refused
  BY <1>1 DEF RunIf, Run
<1>6. k1 = CreateMetadata(l, a)
  BY <1>2, SoundIsNotRefused DEF Run, Execute
<1> HIDE DEF k1
<1>7. /\ Sound(k1) /\ ~k1.verified /\ k1.text = a.text /\ k1.creators = a.creators
      /\ k1.collection = a.collection /\ Follows(l, k1)
  BY <1>1, <1>2, <1>5, <1>6, CreateSound
<1>8. /\ Sound(k2) /\ k2.text = k1.text /\ k2.collection = k1.collection
      /\ k2.verified = k1.verified
      /\ k2.creators = [x \in Creators |->
                          IF x \in S THEN "verified" ELSE k1.creators[x]]
      /\ Follows(k1, k2)
  BY <1>3, <1>5, <1>7, CreatorsRun
<1> HIDE DEF k2
<1>9. /\ Sound(k) /\ k.text = k2.text /\ k.creators = k2.creators
      /\ k.collection = k2.collection
      /\ ~k2.verified => (k.verified <=> Verifies(wanted))
      /\ Follows(k2, k)
  BY <1>1, <1>8, VerificationRuns
<1>10. k2.creators = CreatorsWanted(input, {owner})
  BY <1>2, <1>3, <1>4, <1>7, <1>8 DEF CreatorsWanted, Signing, CreatorInputs
<1>11. Follows(l, k)
  BY <1>7, <1>8, <1>9, FollowsOn
<1>12. QED
  BY <1>2, <1>7, <1>8, <1>9, <1>10, <1>11 DEF input

(* What a create that is accepted has made is what was asked for, in text, *)
(* creators and collection, with any number of creators and signers.       *)
THEOREM CreatesKeepTheirPromise == Spec => []CreateKeepsItsPromise
<1>1. ASSUME Inv PROVE CreateKeepsItsPromise
  <2> SUFFICES ASSUME NEW t \in network, t.op = "create", Accepted(t)
               PROVE  /\ Outcome(t).text = t.aim.text
                      /\ Outcome(t).creators =
                           CreatorsWanted(Given(t.aim.creators,
                                                DefaultCreators(Identity[t.client])),
                                          {Identity[t.client]})
                      /\ Outcome(t).collection = t.aim.collection
                      /\ Outcome(t).verified <=> VerificationWanted(t.aim)
    BY DEF CreateKeepsItsPromise
  <2>1. /\ t.aim \in CreateInputs /\ Identity[t.client] \in Keys
        /\ t.instructions = CreateInstructions(Identity[t.client], t.aim)
    BY <1>1, ClientsAssumption DEF Inv, Built, Singles
  <2>2. Outcome(t) # Refused /\ Sound(ledger)
    BY <1>1 DEF Accepted, Inv
  <2> DEFINE w == Identity[t.client]
             e == t.aim
             o == Outcome(t)
  <2>3. e \in CreateInputs /\ w \in Keys /\ o = After(ledger, CreateInstructions(w, e))
    BY <2>1 DEF Outcome
  <2>4. o # Refused
    BY <2>2
  <2> HIDE DEF w, e, o
  <2>5. o.creators = CreatorsWanted(Input(w, e), {w})
    BY <2>2, <2>3, <2>4, CreateLands
  <2>6. /\ o.text = e.text /\ o.collection = e.collection
        /\ o.verified <=> Verifies(e)
    BY <2>2, <2>3, <2>4, <2>5, CreateLands
  <2>7. QED
    BY <2>5, <2>6 DEF Input, Verifies, VerificationWanted, o, e, w
<1>2. QED
  BY <1>1, Invariant, PTL

-----------------------------------------------------------------------------
(* An update, one instruction after the other: what it takes to be         *)
(* accepted, and what it makes of the accounts, from any model.            *)

MayLeave(l, owner, edit) ==
  /\ owner = CollectionOwner[l.collection]
  /\ edit.oldSized <=> l.size[l.collection] # Legacy
  /\ edit.oldSized => l.size[l.collection] > 0

MayJoin(l, edit) ==
  LET c == edit.collection
  IN  /\ IF edit.delegated THEN edit.collectionAuthority \in l.delegates[c]
         ELSE edit.collectionAuthority = CollectionOwner[c]
      /\ edit.sized <=> l.size[c] # Legacy
      /\ edit.sized => l.size[c] < MaxSize

LEMMA UnverificationRuns ==
  ASSUME NEW l, Sound(l), NEW m \in Models, NEW owner \in Keys,
         NEW edit \in UpdateInputs,
         NEW k, k = AfterUnverification(l, m, owner, edit), k # Refused
  PROVE  /\ Sound(k) /\ k.exists = l.exists /\ k.text = l.text
         /\ k.authority = l.authority /\ k.creators = l.creators
         /\ k.collection = l.collection /\ k.delegates = l.delegates
         /\ Follows(l, k)
         /\ \A c \in Collections : c # m.collection => k.size[c] = l.size[c]
         /\ ShouldUnverifyCurrentCollection(m, edit) =>
              ~k.verified /\ l.collection = m.collection /\ MayLeave(l, owner, edit)
         /\ ~ShouldUnverifyCurrentCollection(m, edit) => k = l
<1> DEFINE i == TheUnverification(m, owner, edit)
<1>1. /\ i.type = "unverifyCollection" /\ i.signer = owner
      /\ i.collection = m.collection /\ i.sized = edit.oldSized
      /\ i.delegated = FALSE /\ i \in Sendable
  BY UnverificationFields
<1>2. k = RunIf(l, ShouldUnverifyCurrentCollection(m, edit), i)
  BY DEF AfterUnverification
<1> HIDE DEF i
<1>3. CASE ShouldUnverifyCurrentCollection(m, edit)
  <2>1. Execute(l, i) = UnverifyCollection(l, i)
    BY <1>1 DEF Execute
  <2>2. k = UnverifyCollection(l, i)
    BY <1>2, <1>3, <2>1, SoundIsNotRefused DEF RunIf, Run
  <2>3. /\ Sound(k) /\ l.exists /\ k.exists /\ ~k.verified /\ k.delegates = l.delegates
        /\ k.text = l.text /\ k.authority = l.authority /\ k.creators = l.creators
        /\ k.collection = l.collection /\ Follows(l, k)
        /\ \A c \in Collections : c # i.collection => k.size[c] = l.size[c]
    BY <1>1, <2>2, UnverifySound
  <2>4. l.exists = TRUE /\ k.exists = TRUE
    BY <2>3 DEF Sound, Ledgers
  <2>5. /\ l.collection = i.collection /\ Authorized(l, i) /\ RightKind(l, i)
        /\ i.sized => l.size[i.collection] > 0
    BY <2>2 DEF UnverifyCollection
  <2>6. MayLeave(l, owner, edit)
    BY <1>1, <2>5 DEF MayLeave, Authorized, RightKind
  <2>7. QED
    BY <1>1, <1>3, <2>3, <2>4, <2>5, <2>6
<1>4. CASE ~ShouldUnverifyCurrentCollection(m, edit)
  <2>1. k = l
    BY <1>2, <1>4 DEF RunIf
  <2>2. Follows(l, k)
    BY <2>1 DEF Follows
  <2>3. QED
    BY <1>4, <2>1, <2>2
<1>5. QED
  BY <1>3, <1>4

LEMMA UnverificationFits ==
  ASSUME NEW l, Sound(l), NEW m \in Models, m = ToMetadata(l), NEW owner \in Keys,
         NEW edit \in UpdateInputs,
         ShouldUnverifyCurrentCollection(m, edit) => MayLeave(l, owner, edit)
  PROVE  AfterUnverification(l, m, owner, edit) # Refused
<1> DEFINE i == TheUnverification(m, owner, edit)
           k == AfterUnverification(l, m, owner, edit)
           c == l.collection
<1>1. /\ i.type = "unverifyCollection" /\ i.signer = owner
      /\ i.collection = m.collection /\ i.sized = edit.oldSized
      /\ i.delegated = FALSE /\ i \in Sendable
  BY UnverificationFields
<1>2. k = RunIf(l, ShouldUnverifyCurrentCollection(m, edit), i)
  BY DEF AfterUnverification
<1>3. m.collection = c /\ m.verified = l.verified
  BY DEF ToMetadata
<1> HIDE DEF i, k
<1>4. CASE ShouldUnverifyCurrentCollection(m, edit)
  <2>1. Execute(l, i) = UnverifyCollection(l, i)
    BY <1>1 DEF Execute
  <2>2. k = UnverifyCollection(l, i)
    BY <1>2, <1>4, <2>1, SoundIsNotRefused DEF RunIf, Run
  <2>3. l.verified /\ l.exists /\ c \in Collections
    BY <1>3, <1>4 DEF ShouldUnverifyCurrentCollection, Sound
  <2> DEFINE s == Resized(l, c, -1)
             n == IF l.size[c] = Legacy THEN Legacy ELSE l.size[c] + (-1)
  <2>4. /\ Authorized(l, i) /\ RightKind(l, i)
        /\ i.sized => l.verified /\ l.size[i.collection] > 0
    BY <1>1, <1>3, <1>4, <2>3 DEF Authorized, RightKind, MayLeave
  <2>5. s \in [Collections -> (0 .. MaxSize) \cup {Legacy}]
    <3>1. l.size \in [Collections -> (0 .. MaxSize) \cup {Legacy}]
      BY DEF Sound, Ledgers
    <3>2. n \in (0 .. MaxSize) \cup {Legacy}
      BY <1>4, <2>3, <3>1, CollectionsAssumption DEF MayLeave
    <3>3. s = [l.size EXCEPT ![c] = n]
      BY <2>3, <3>1 DEF Resized
    <3> HIDE DEF n, s
    <3>4. QED
      BY <2>3, <3>1, <3>2, <3>3
  <2> HIDE DEF s
  <2>6. k = [l EXCEPT !.verified = FALSE, !.size = s]
    BY <1>1, <1>3, <2>2, <2>3, <2>4 DEF UnverifyCollection, s
  <2>7. k \in Ledgers
    BY <2>5, <2>6 DEF Sound, Ledgers
  <2>8. QED
    BY <2>7, RefusedAssumption DEF k
<1>5. CASE ~ShouldUnverifyCurrentCollection(m, edit)
  BY <1>2, <1>5, SoundIsNotRefused DEF RunIf, k
<1>6. QED
  BY <1>4, <1>5

LEMMA MetadataRuns ==
  ASSUME NEW l, Sound(l), NEW m \in Models, NEW owner \in Keys,
         NEW edit \in UpdateInputs,
         NEW k, k = Run(l, TheUpdate(m, owner, edit)), k # Refused
  PROVE  /\ Sound(k) /\ k.exists /\ k.size = l.size /\ k.delegates = l.delegates
         /\ k.text = Given(edit.text, m.text)
         /\ k.authority = Given(edit.authority, owner)
         /\ k.creators = CreatorsData(m, edit)
         /\ k.collection = Given(edit.collection, m.collection)
         /\ k.verified <=> edit.collection = Keep /\ m.verified
         /\ k.verified => l.verified
         /\ CreatorsMayBecome(l, k.creators)
         /\ ~l.verified => Follows(l, k)
<1> DEFINE i == TheUpdate(m, owner, edit)
<1>1. /\ i \in Sendable /\ i.type = "updateMetadata"
      /\ i.text = Given(edit.text, m.text)
      /\ i.creators = CreatorsData(m, edit)
      /\ i.collection = Given(edit.collection, m.collection)
      /\ (i.verified <=> edit.collection = Keep /\ m.verified)
      /\ i.authority = Given(edit.authority, owner)
  BY TheUpdateType
<1>2. k = Run(l, i)
  OBVIOUS
<1> HIDE DEF i
<1>3. Execute(l, i) = UpdateMetadata(l, i)
  BY <1>1 DEF Execute
<1>4. k = UpdateMetadata(l, i)
  BY <1>2, <1>3, SoundIsNotRefused DEF Run
<1>5. CreatorsMayBecome(l, i.creators)
  BY <1>4 DEF UpdateMetadata
<1>6. /\ Sound(k) /\ k.exists /\ k.size = l.size
      /\ k.delegates = l.delegates /\ k.text = i.text /\ k.authority = i.authority
      /\ k.creators = i.creators /\ k.collection = i.collection
      /\ k.verified = i.verified /\ (k.verified => l.verified)
      /\ (~l.verified => Follows(l, k))
  BY <1>1, <1>4, UpdateSound
<1>7. QED
  BY <1>1, <1>5, <1>6

LEMMA MetadataFits ==
  ASSUME NEW l, Sound(l), l.exists, NEW m \in Models,
         NEW owner \in Keys, owner = l.authority, NEW edit \in UpdateInputs,
         CreatorsMayBecome(l, CreatorsData(m, edit)),
         edit.collection = Keep => ~m.verified,
         Given(edit.collection, m.collection) = NoCollection => ~l.verified
  PROVE  RunIf(l, ShouldSendUpdate(m, edit), TheUpdate(m, owner, edit)) # Refused
<1> DEFINE i == TheUpdate(m, owner, edit)
           k == RunIf(l, ShouldSendUpdate(m, edit), i)
<1>1. /\ i \in Sendable /\ i.type = "updateMetadata" /\ i.signer = owner
      /\ i.creators = CreatorsData(m, edit)
      /\ i.collection = Given(edit.collection, m.collection)
      /\ (i.verified <=> edit.collection = Keep /\ m.verified)
  BY TheUpdateType
<1> HIDE DEF i
<1>2. CASE ShouldSendUpdate(m, edit)
  <2>1. Execute(l, i) = UpdateMetadata(l, i)
    BY <1>1 DEF Execute
  <2>2. k = UpdateMetadata(l, i)
    BY <1>2, <2>1, SoundIsNotRefused DEF RunIf, Run
  <2>3. CollectionMayBecome(l, i.collection, i.verified)
    BY <1>1 DEF CollectionMayBecome
  <2>4. k = [l EXCEPT !.text = i.text, !.authority = i.authority,
                      !.creators = i.creators, !.collection = i.collection,
                      !.verified = i.verified]
    BY <1>1, <2>2, <2>3 DEF UpdateMetadata
  <2>5. /\ i.text \in Texts /\ i.authority \in Keys
        /\ i.creators \in [Creators -> CreatorStates]
        /\ i.collection \in Collections \cup {NoCollection} /\ i.verified \in BOOLEAN
    BY <1>1 DEF Sendable, AnyCollection
  <2> HIDE DEF k
  <2>6. k \in Ledgers
    BY <2>4, <2>5 DEF Sound, Ledgers
  <2>7. QED
    BY <2>6, RefusedAssumption DEF k, i
<1>3. CASE ~ShouldSendUpdate(m, edit)
  BY <1>3, SoundIsNotRefused DEF RunIf
<1>4. QED
  BY <1>2, <1>3

LEMMA CreatorsFit ==
  ASSUME NEW l, Sound(l), l.exists, NEW S \in SUBSET Creators,
         \A x \in S : l.creators[x] # "absent"
  PROVE  RunIf(l, S # {}, TheCreators(S)) # Refused
<1> DEFINE i == TheCreators(S)
           k == RunIf(l, S # {}, i)
           creators == [x \in Creators |->
                          IF x \in i.creators THEN "verified" ELSE l.creators[x]]
<1>1. i.type = "verifyCreators" /\ i.creators = S
  BY DEF TheCreators
<1> HIDE DEF i
<1>2. CASE S # {}
  <2>1. Execute(l, i) = VerifyCreators(l, i)
    BY <1>1 DEF Execute
  <2>2. k = VerifyCreators(l, i)
    BY <1>2, <2>1, SoundIsNotRefused DEF RunIf, Run
  <2>3. k = [l EXCEPT !.creators = creators]
    BY <1>1, <2>2 DEF VerifyCreators
  <2>4. creators \in [Creators -> CreatorStates]
    BY DEF Sound, Ledgers, CreatorStates
  <2> HIDE DEF k, creators
  <2>5. k \in Ledgers
    BY <2>3, <2>4 DEF Sound, Ledgers
  <2>6. QED
    BY <2>5, RefusedAssumption DEF k, i
<1>3. CASE S = {}
  BY <1>3, SoundIsNotRefused DEF RunIf
<1>4. QED
  BY <1>2, <1>3

LEMMA VerificationFields ==
  ASSUME NEW edit
  PROVE  LET i == TheVerification(edit)
         IN  /\ i.type = "verifyCollection" /\ i.signer = edit.collectionAuthority
             /\ i.collection = edit.collection /\ i.sized = edit.sized
             /\ i.delegated = edit.delegated
BY DEF TheVerification, VerifyCollectionInstruction

LEMMA VerificationNeeds ==
  ASSUME NEW l, Sound(l), NEW edit, Verifies(edit),
         RunIf(l, Verifies(edit), TheVerification(edit)) # Refused
  PROVE  MayJoin(l, edit)
<1> DEFINE i == TheVerification(edit)
<1>1. /\ i.type = "verifyCollection" /\ i.signer = edit.collectionAuthority
      /\ i.collection = edit.collection /\ i.sized = edit.sized
      /\ i.delegated = edit.delegated
  BY VerificationFields
<1>2. RunIf(l, Verifies(edit), i) # Refused
  OBVIOUS
<1> HIDE DEF i
<1>3. Execute(l, i) = VerifyCollection(l, i)
  BY <1>1 DEF Execute
<1>4. VerifyCollection(l, i) # Refused
  BY <1>2, <1>3, SoundIsNotRefused DEF RunIf, Run
<1>5. /\ Authorized(l, i) /\ RightKind(l, i)
      /\ i.sized => l.size[i.collection] < MaxSize
  BY <1>4 DEF VerifyCollection
<1>6. QED
  BY <1>1, <1>5 DEF MayJoin, Authorized, RightKind

LEMMA VerificationFits ==
  ASSUME NEW l, Sound(l), l.exists, ~l.verified, NEW edit \in UpdateInputs,
         Verifies(edit) => l.collection = edit.collection /\ MayJoin(l, edit)
  PROVE  RunIf(l, Verifies(edit), TheVerification(edit)) # Refused
<1> DEFINE i == TheVerification(edit)
           k == RunIf(l, Verifies(edit), i)
           c == edit.collection
<1>1. /\ i.type = "verifyCollection" /\ i.signer = edit.collectionAuthority
      /\ i.collection = c /\ i.sized = edit.sized
      /\ i.delegated = edit.delegated
  BY VerificationFields
<1> HIDE DEF i
<1>2. CASE Verifies(edit)
  <2>1. Execute(l, i) = VerifyCollection(l, i)
    BY <1>1 DEF Execute
  <2>2. k = VerifyCollection(l, i)
    BY <1>2, <2>1, SoundIsNotRefused DEF RunIf, Run
  <2> DEFINE s == Resized(l, i.collection, 1)
             n == IF l.size[c] = Legacy THEN Legacy ELSE l.size[c] + 1
  <2>3. /\ Authorized(l, i) /\ RightKind(l, i)
        /\ i.sized => ~l.verified /\ l.size[i.collection] < MaxSize
    BY <1>1, <1>2 DEF Authorized, RightKind, MayJoin
  <2>4. k = [l EXCEPT !.verified = TRUE, !.size = s]
    BY <1>1, <1>2, <2>2, <2>3 DEF VerifyCollection
  <2>5. s \in [Collections -> (0 .. MaxSize) \cup {Legacy}]
    <3>1. c \in Collections /\ l.size \in [Collections -> (0 .. MaxSize) \cup {Legacy}]
      BY <1>2 DEF Sound, Ledgers, Verifies
    <3>2. edit.sized \in BOOLEAN
      BY DEF UpdateInputs
    <3>3. n \in (0 .. MaxSize) \cup {Legacy}
      BY <1>2, <3>1, <3>2, CollectionsAssumption DEF MayJoin
    <3>4. s = [l.size EXCEPT ![c] = n]
      BY <1>1, <3>1 DEF Resized
    <3> HIDE DEF n, s, c
    <3>5. QED
      BY <3>1, <3>3, <3>4
  <2> HIDE DEF s, k
  <2>6. k \in Ledgers
    BY <2>4, <2>5 DEF Sound, Ledgers
  <2>7. QED
    BY <2>6, RefusedAssumption DEF k, i
<1>3. CASE ~Verifies(edit)
  BY <1>3, SoundIsNotRefused DEF RunIf
<1>4. QED
  BY <1>2, <1>3

(* What an accepted update does, whatever its model says.                  *)
LEMMA UpdateRuns ==
  ASSUME NEW l, Sound(l), NEW m \in Models, NEW owner \in Keys,
         NEW edit \in UpdateInputs,
         AfterUpdate(l, m, owner, edit) # Refused
  PROVE  LET k  == AfterUpdate(l, m, owner, edit)
             k1 == AfterUnverification(l, m, owner, edit)
             k2 == AfterMetadata(l, m, owner, edit)
             k3 == AfterCreators(l, m, owner, edit)
         IN  /\ k1 # Refused /\ k2 # Refused /\ k3 # Refused
             /\ Sound(k1) /\ Sound(k2) /\ Sound(k3) /\ Sound(k)
             /\ Follows(k2, k3) /\ Follows(k3, k)
             /\ k2.size = k1.size
             /\ k3.size = k1.size /\ k3.delegates = l.delegates
             /\ k.text = k2.text /\ k.collection = k2.collection
             /\ \A x \in Creators : k.creators[x] =
                  IF x \in AdditionalCreators(m, edit) THEN "verified"
                  ELSE k2.creators[x]
             /\ Verifies(edit) => MayJoin(k3, edit)
<1> DEFINE S  == AdditionalCreators(m, edit)
           k  == AfterUpdate(l, m, owner, edit)
           k1 == AfterUnverification(l, m, owner, edit)
           k2 == AfterMetadata(l, m, owner, edit)
           k3 == AfterCreators(l, m, owner, edit)
<1>k. k # Refused /\ k1 = AfterUnverification(l, m, owner, edit)
  OBVIOUS
<1>1. /\ k2 = RunIf(k1, ShouldSendUpdate(m, edit), TheUpdate(m, owner, edit))
      /\ k3 = RunIf(k2, S # {}, TheCreators(S))
      /\ k = RunIf(k3, Verifies(edit), TheVerification(edit))
  BY DEF AfterMetadata, AfterCreators, AfterUpdate
<1> HIDE DEF k, k1, k2, k3
<1>2. k1 # Refused /\ k2 # Refused /\ k3 # Refused
  BY <1>1, <1>k DEF RunIf, Run
<1>3. S \in SUBSET Creators
  BY DEF AdditionalCreators, Signing
<1>4. Sound(k1) /\ k1.delegates = l.delegates
  BY <1>2, <1>k, UnverificationRuns
<1>5. Sound(k2) /\ k2.size = k1.size /\ k2.delegates = k1.delegates
  <2>1. k2 = k1 \/ k2 = Run(k1, TheUpdate(m, owner, edit))
    BY <1>1 DEF RunIf
  <2>2. QED
    BY <1>2, <1>4, <2>1, MetadataRuns
<1> HIDE DEF S
<1>6. /\ Sound(k3) /\ k3.text = k2.text /\ k3.collection = k2.collection
      /\ k3.delegates = k2.delegates /\ k3.size = k2.size
      /\ k3.creators = [x \in Creators |->
                          IF x \in S THEN "verified" ELSE k2.creators[x]]
      /\ Follows(k2, k3)
  BY <1>1, <1>2, <1>3, <1>5, CreatorsRun
<1>7. /\ Sound(k) /\ k.text = k3.text /\ k.creators = k3.creators
      /\ k.collection = k3.collection /\ Follows(k3, k)
  BY <1>1, <1>6, <1>k, VerificationRuns
<1>8. Verifies(edit) => MayJoin(k3, edit)
  BY <1>1, <1>6, <1>k, VerificationNeeds
<1>9. QED
  BY <1>2, <1>4, <1>5, <1>6, <1>7, <1>8 DEF S, k, k1, k2, k3

-----------------------------------------------------------------------------
(* What an update from a current model takes and makes of the accounts.    *)

KeptCreators(l, edit) ==
  IF edit.creators = Keep THEN l.creators
  ELSE CreatorsWanted(edit.creators, Verified(l))

Idle(l, edit) ==
  /\ edit.text \in {Keep, l.text} /\ edit.authority = Keep
  /\ (IF edit.creators = Keep THEN {} ELSE Signing(edit.creators)) = {}
  /\ KeptCreators(l, edit) = l.creators

\* The verified collection is changed or removed, or left aside.
Leaves(l, edit) == l.verified /\ edit.collection # l.collection

LEMMA CreatorsDataIsKept ==
  ASSUME NEW l, Sound(l), NEW m \in Models, m = ToMetadata(l), NEW edit \in UpdateInputs
  PROVE  /\ [x \in Creators |-> IF x \in AdditionalCreators(m, edit) THEN "verified"
                                ELSE CreatorsData(m, edit)[x]] = KeptCreators(l, edit)
         /\ \A x \in AdditionalCreators(m, edit) :
              x \in Creators /\ CreatorsData(m, edit)[x] # "absent"
         /\ \A k : k.creators = l.creators => CreatorsMayBecome(k, CreatorsData(m, edit))
<1> DEFINE S == AdditionalCreators(m, edit)
           data == CreatorsData(m, edit)
           after == [x \in Creators |-> IF x \in S THEN "verified" ELSE data[x]]
<1>m. m.creators = l.creators /\ l.creators \in [Creators -> CreatorStates]
  BY DEF ToMetadata, Sound, Ledgers
<1>1. CASE edit.creators = Keep
  <2>1. S = {} /\ data = l.creators
    BY <1>m, <1>1 DEF AdditionalCreators, CreatorsData
  <2> HIDE DEF S, data
  <2>2. after = l.creators
    BY <1>m, <2>1
  <2>3. QED
    BY <1>1, <2>1, <2>2 DEF KeptCreators, CreatorsMayBecome, S, data
<1>2. CASE edit.creators # Keep
  <2>1. \A x \in Creators : x \in S <=>
          edit.creators[x] = "signing" /\ l.creators[x] # "verified"
    BY <1>m, <1>2 DEF AdditionalCreators, Signing
  <2>2. S \subseteq Creators
    BY DEF AdditionalCreators, Signing
  <2>3. \A x \in Creators : data[x] =
          IF edit.creators[x] = "absent" THEN "absent"
          ELSE IF l.creators[x] = "verified" THEN "verified" ELSE "unverified"
    BY <1>m, <1>2 DEF CreatorsData
  <2> HIDE DEF S, data
  <2> DEFINE w == CreatorsWanted(edit.creators, Verified(l))
  <2>4. \A x \in Creators : after[x] = w[x]
    BY <2>1, <2>3 DEF CreatorsWanted, Verified, Signing
  <2>5. after = w
    <3>1. after = [x \in Creators |-> after[x]] /\ w = [x \in Creators |-> w[x]]
      BY DEF CreatorsWanted
    <3> HIDE DEF after, w
    <3>2. QED
      BY <2>4, <3>1
  <2>6. \A x \in S : x \in Creators /\ data[x] # "absent"
    BY <2>1, <2>2, <2>3
  <2>7. \A k : k.creators = l.creators => CreatorsMayBecome(k, data)
    BY <2>3 DEF CreatorsMayBecome
  <2>8. QED
    BY <1>2, <2>5, <2>6, <2>7 DEF KeptCreators, S, data
<1>3. QED
  BY <1>1, <1>2

\* What is not sent changes nothing.
LEMMA NothingIsSent ==
  ASSUME NEW l, Sound(l), NEW m \in Models, m = ToMetadata(l), NEW edit \in UpdateInputs,
         ~ShouldSendUpdate(m, edit)
  PROVE  /\ Given(edit.text, l.text) = l.text /\ edit.authority = Keep
         /\ Given(edit.collection, l.collection) = l.collection
         /\ CreatorsData(m, edit) = l.creators
         /\ l.verified => edit.collection = Keep
         /\ edit.creators # Keep => Signing(edit.creators) = {}
         /\ AdditionalCreators(m, edit) = {} /\ ~Verifies(edit)
<1>1. /\ m.text = l.text /\ m.creators = l.creators /\ m.collection = l.collection
      /\ m.verified = l.verified
  BY DEF ToMetadata
<1>2. /\ ToInstructionData(m, edit) = m /\ edit.collection \notin Collections
      /\ edit.authority = Keep
      /\ edit.creators # Keep => Signing(edit.creators) = {}
  BY DEF ShouldSendUpdate
<1>3. /\ m.text = Given(edit.text, m.text) /\ m.creators = CreatorsData(m, edit)
      /\ m.collection = Given(edit.collection, m.collection)
      /\ m.verified = (edit.collection = Keep /\ m.verified)
  BY <1>2 DEF ToInstructionData
<1>4. AdditionalCreators(m, edit) = {}
  BY <1>2 DEF AdditionalCreators
<1>5. QED
  BY <1>1, <1>2, <1>3, <1>4 DEF Verifies

LEMMA IdleIsNotSent ==
  ASSUME NEW l, Sound(l), NEW m \in Models, m = ToMetadata(l), NEW edit \in UpdateInputs,
         l.verified, edit.collection = Keep
  PROVE  ShouldSendUpdate(m, edit) <=> ~Idle(l, edit)
<1> DEFINE signers == IF edit.creators = Keep THEN {} ELSE Signing(edit.creators)
           data == CreatorsData(m, edit)
<1>1. /\ m.text = l.text /\ m.creators = l.creators /\ m.collection = l.collection
      /\ m.verified = l.verified
      /\ m = [text |-> l.text, creators |-> l.creators, collection |-> l.collection,
              verified |-> l.verified]
      /\ l.creators \in [Creators -> CreatorStates]
  BY DEF ToMetadata, Sound, Ledgers
<1>2. signers = {} => AdditionalCreators(m, edit) = {}
  BY DEF AdditionalCreators
<1>3. data \in [Creators -> CreatorStates]
  BY <1>1 DEF CreatorsData, CreatorStates
<1>4. signers = {} => data = KeptCreators(l, edit)
  <2>1. ASSUME signers = {} PROVE data = KeptCreators(l, edit)
    <3>1. [x \in Creators |-> IF x \in {} THEN "verified" ELSE data[x]]
            = KeptCreators(l, edit)
      BY <1>2, <2>1, CreatorsDataIsKept
    <3> HIDE DEF data
    <3>2. [x \in Creators |-> IF x \in {} THEN "verified" ELSE data[x]] = data
      BY <1>3
    <3>3. QED
      BY <3>1, <3>2
  <2>2. QED
    BY <2>1
<1>5. l.verified = TRUE
  BY DEF Sound, Ledgers
<1>6. ToInstructionData(m, edit) =
        [text |-> Given(edit.text, l.text), creators |-> data,
         collection |-> l.collection, verified |-> TRUE]
  <2>1. Given(edit.collection, m.collection) = l.collection
    BY <1>1 DEF Given
  <2>2. (edit.collection = Keep /\ m.verified) = TRUE
    BY <1>1, <1>5
  <2>3. QED
    BY <1>1, <2>1, <2>2 DEF ToInstructionData
<1> HIDE DEF data
<1>7. ToInstructionData(m, edit) = m <=>
        Given(edit.text, l.text) = l.text /\ data = l.creators
  <2> DEFINE text == Given(edit.text, l.text)
             sent == ToInstructionData(m, edit)
  <2>1. sent = [text |-> text, creators |-> data, collection |-> l.collection,
                verified |-> TRUE]
    BY <1>6
  <2>2. m = [text |-> l.text, creators |-> l.creators, collection |-> l.collection,
             verified |-> TRUE]
    BY <1>1, <1>5
  <2> HIDE DEF text, sent
  <2>3. sent.text = text /\ sent.creators = data
    BY <2>1
  <2>4. sent = m => text = l.text /\ data = l.creators
    BY <1>1, <2>3
  <2>5. text = l.text /\ data = l.creators => sent = m
    BY <2>1, <2>2
  <2>6. QED
    BY <2>4, <2>5 DEF sent, text
<1>8. Given(edit.text, l.text) = l.text <=> edit.text \in {Keep, l.text}
  BY DEF Given
<1>9. edit.collection \notin Collections
  BY KeepAssumption
<1>10. signers = {} <=> ~(edit.creators # Keep /\ Signing(edit.creators) # {})
  OBVIOUS
<1>11. Idle(l, edit) <=>
         /\ edit.text \in {Keep, l.text} /\ edit.authority = Keep
         /\ signers = {} /\ KeptCreators(l, edit) = l.creators
  BY DEF Idle
<1> HIDE DEF signers
<1>12. QED
  BY <1>4, <1>7, <1>8, <1>9, <1>10, <1>11 DEF ShouldSendUpdate

MayUpdate(l, owner, edit) ==
  /\ Leaves(l, edit) => MayLeave(l, owner, edit)
  /\ Leaves(l, edit) /\ edit.collection = Keep => Idle(l, edit)
  /\ Verifies(edit) => MayJoin(l, edit)

LEMMA CurrentModelSays ==
  ASSUME NEW l, NEW m, m = ToMetadata(l), NEW edit
  PROVE  /\ ShouldUnverifyCurrentCollection(m, edit) <=> Leaves(l, edit)
         /\ m.text = l.text /\ m.creators = l.creators /\ m.collection = l.collection
         /\ m.verified = l.verified
BY DEF ToMetadata, ShouldUnverifyCurrentCollection, Leaves

LEMMA UpdateLands ==
  ASSUME NEW l, Sound(l), l.exists, NEW m \in Models, m = ToMetadata(l),
         NEW owner \in Keys, owner = l.authority, NEW edit \in UpdateInputs,
         MayUpdate(l, owner, edit),
         NEW k, k = AfterUpdate(l, m, owner, edit)
  PROVE  /\ k # Refused
         /\ k.text = Given(edit.text, l.text)
         /\ k.authority = Given(edit.authority, l.authority)
         /\ k.creators = KeptCreators(l, edit)
         /\ k.collection = Given(edit.collection, l.collection)
         /\ k.verified <=> Verifies(edit)
<1> DEFINE S  == AdditionalCreators(m, edit)
           data == CreatorsData(m, edit)
           k1 == AfterUnverification(l, m, owner, edit)
           k2 == AfterMetadata(l, m, owner, edit)
           k3 == AfterCreators(l, m, owner, edit)
<1>0. /\ k2 = RunIf(k1, ShouldSendUpdate(m, edit), TheUpdate(m, owner, edit))
      /\ k3 = RunIf(k2, S # {}, TheCreators(S))
      /\ k = RunIf(k3, Verifies(edit), TheVerification(edit))
  BY DEF AfterMetadata, AfterCreators, AfterUpdate
<1>m. /\ m.text = l.text /\ m.creators = l.creators /\ m.collection = l.collection
      /\ m.verified = l.verified
      /\ ShouldUnverifyCurrentCollection(m, edit) <=> Leaves(l, edit)
  BY CurrentModelSays
<1>1. k1 # Refused
  BY <1>m, UnverificationFits DEF MayUpdate
<1>2. /\ Sound(k1) /\ k1.exists = l.exists /\ k1.text = l.text
      /\ k1.authority = l.authority /\ k1.creators = l.creators
      /\ k1.collection = l.collection /\ k1.delegates = l.delegates
      /\ \A c \in Collections : c # m.collection => k1.size[c] = l.size[c]
      /\ Leaves(l, edit) => ~k1.verified
      /\ ~Leaves(l, edit) => k1 = l
  <2> HIDE DEF k1
  <2>1. k1 = AfterUnverification(l, m, owner, edit)
    BY DEF k1
  <2>2. /\ Sound(k1) /\ k1.exists = l.exists /\ k1.text = l.text
        /\ k1.authority = l.authority /\ k1.creators = l.creators
        /\ k1.collection = l.collection /\ k1.delegates = l.delegates
        /\ \A c \in Collections : c # m.collection => k1.size[c] = l.size[c]
        /\ ShouldUnverifyCurrentCollection(m, edit) => ~k1.verified
        /\ ~ShouldUnverifyCurrentCollection(m, edit) => k1 = l
    <3>1. /\ Sound(l) /\ m \in Models /\ owner \in Keys /\ edit \in UpdateInputs
          /\ k1 # Refused
      BY <1>1
    <3>2. QED
      BY ONLY <2>1, <3>1, UnverificationRuns
  <2>3. QED
    BY <1>m, <2>2
<1>3. /\ [x \in Creators |-> IF x \in S THEN "verified" ELSE data[x]]
           = KeptCreators(l, edit)
      /\ \A x \in S : x \in Creators /\ data[x] # "absent"
      /\ CreatorsMayBecome(k1, data)
  BY <1>2, CreatorsDataIsKept
<1>4. ~ShouldSendUpdate(m, edit) =>
        /\ Given(edit.text, l.text) = l.text /\ edit.authority = Keep
        /\ Given(edit.collection, l.collection) = l.collection
        /\ data = l.creators
        /\ l.verified => edit.collection = Keep
        /\ S = {} /\ ~Verifies(edit)
  BY NothingIsSent
<1> HIDE DEF S, data, k1, k2, k3
<1>5. CASE Leaves(l, edit) /\ edit.collection = Keep
  <2>1. ~ShouldSendUpdate(m, edit)
    BY <1>5, IdleIsNotSent DEF MayUpdate, Leaves
  <2>2. k2 = k1
    BY <1>0, <2>1 DEF RunIf
  <2>3. k3 = k2 /\ k = k3
    BY <1>0, <1>4, <2>1 DEF RunIf
  <2>4. KeptCreators(l, edit) = l.creators
    BY <1>5, <2>1, IdleIsNotSent DEF Leaves, Idle
  <2>5. Given(edit.authority, l.authority) = l.authority
    BY <1>4, <2>1 DEF Given
  <2>6. QED
    BY <1>1, <1>2, <1>4, <1>5, <2>1, <2>2, <2>3, <2>4, <2>5
<1>6. CASE ~(Leaves(l, edit) /\ edit.collection = Keep)
  <2>1. edit.collection = Keep => ~l.verified
    <3>1. l.verified => l.collection \in Collections
      BY DEF Sound
    <3>2. QED
      BY <1>6, <3>1, KeepAssumption DEF Leaves
  <2>2. k1.verified => l.verified /\ edit.collection = l.collection
    BY <1>2 DEF Leaves
  <2>3. k1.verified => Given(edit.collection, m.collection) # NoCollection
    <3>1. l.verified => l.collection \in Collections
      BY DEF Sound
    <3>2. QED
      BY <1>m, <2>2, <3>1, CollectionsAssumption DEF Given
  <2>4. k2 # Refused
    <3>1. /\ k1.exists /\ owner = k1.authority /\ Sound(k1)
          /\ CreatorsMayBecome(k1, CreatorsData(m, edit))
          /\ edit.collection = Keep => ~m.verified
          /\ Given(edit.collection, m.collection) = NoCollection => ~k1.verified
      BY <1>2, <1>3, <1>m, <2>1, <2>3 DEF data
    <3>2. RunIf(k1, ShouldSendUpdate(m, edit), TheUpdate(m, owner, edit)) # Refused
      BY <3>1, MetadataFits
    <3>3. QED
      BY <1>0, <3>2
  <2>5. /\ Sound(k2) /\ k2.exists /\ k2.size = k1.size /\ k2.delegates = k1.delegates
        /\ k2.text = Given(edit.text, l.text)
        /\ k2.authority = Given(edit.authority, l.authority)
        /\ k2.creators = data /\ k2.collection = Given(edit.collection, l.collection)
        /\ ~k2.verified
    <3>1. CASE ShouldSendUpdate(m, edit)
      <4>1. k2 = Run(k1, TheUpdate(m, owner, edit))
        BY <1>0, <3>1 DEF RunIf
      <4>2. /\ Sound(k2) /\ k2.exists /\ k2.size = k1.size
            /\ k2.delegates = k1.delegates
            /\ k2.text = Given(edit.text, m.text)
            /\ k2.authority = Given(edit.authority, owner)
            /\ k2.creators = data
            /\ k2.collection = Given(edit.collection, m.collection)
            /\ k2.verified <=> edit.collection = Keep /\ m.verified
        BY <1>2, <2>4, <4>1, MetadataRuns DEF data
      <4>3. QED
        BY <1>m, <2>1, <4>2
    <3>2. CASE ~ShouldSendUpdate(m, edit)
      <4>1. Given(edit.authority, l.authority) = l.authority
        BY <1>4, <3>2 DEF Given
      <4>2. ~k1.verified
        BY <1>4, <2>1, <2>2, <3>2
      <4>3. k2 = k1
        BY <1>0, <3>2 DEF RunIf
      <4>4. QED
        BY <1>2, <1>4, <3>2, <4>1, <4>2, <4>3
    <3>3. QED
      BY <3>1, <3>2
  <2>6. S \in SUBSET Creators
    BY <1>3
  <2>7. k3 # Refused
    BY <1>0, <1>2, <1>3, <2>5, <2>6, CreatorsFit
  <2>8. /\ Sound(k3) /\ k3.exists = k2.exists /\ k3.text = k2.text
        /\ k3.authority = k2.authority /\ k3.collection = k2.collection
        /\ k3.verified = k2.verified /\ k3.delegates = k2.delegates
        /\ k3.size = k2.size
        /\ k3.creators = [x \in Creators |->
                            IF x \in S THEN "verified" ELSE k2.creators[x]]
    <3>1. k3 = RunIf(k2, S # {}, TheCreators(S)) /\ Sound(k2)
          /\ S \in SUBSET Creators /\ k3 # Refused
      BY <1>0, <2>5, <2>6, <2>7
    <3>2. QED
      BY ONLY <3>1, CreatorsRun
  <2>9. k3.creators = KeptCreators(l, edit)
    BY <1>3, <2>5, <2>8
  <2>10. Verifies(edit) => k3.collection = edit.collection /\ MayJoin(k3, edit)
    <3> SUFFICES ASSUME Verifies(edit)
                 PROVE  k3.collection = edit.collection /\ MayJoin(k3, edit)
      OBVIOUS
    <3> DEFINE c == edit.collection
    <3>1. c \in Collections /\ c # Keep
      BY KeepAssumption DEF Verifies
    <3>2. k3.collection = c
      BY <2>5, <2>8, <3>1 DEF Given
    <3>3. k1.size[c] = l.size[c]
      BY <1>2, <1>m, <3>1 DEF Leaves
    <3>4. k3.size[c] = l.size[c] /\ k3.delegates = l.delegates
      BY <1>2, <2>5, <2>8, <3>3
    <3>5. MayJoin(l, edit)
      BY DEF MayUpdate
    <3>6. QED
      BY <3>2, <3>4, <3>5 DEF MayJoin
  <2>11. k # Refused
    <3>1. k3.exists /\ ~k3.verified /\ Sound(k3)
      BY <1>2, <2>5, <2>8
    <3>2. RunIf(k3, Verifies(edit), TheVerification(edit)) # Refused
      BY <2>10, <3>1, VerificationFits
    <3>3. QED
      BY <1>0, <3>2
  <2>12. /\ k.text = k3.text /\ k.authority = k3.authority /\ k.creators = k3.creators
         /\ k.collection = k3.collection
         /\ k.verified <=> Verifies(edit)
    BY <1>0, <2>5, <2>8, <2>11, VerificationRuns
  <2>13. QED
    BY <2>5, <2>8, <2>9, <2>11, <2>12
<1>7. QED
  BY <1>5, <1>6

\* Nothing else is accepted.
LEMMA UpdateNeeds ==
  ASSUME NEW l, Sound(l), NEW m \in Models, m = ToMetadata(l),
         NEW owner \in Keys, NEW edit \in UpdateInputs,
         NEW k, k = AfterUpdate(l, m, owner, edit), k # Refused
  PROVE  MayUpdate(l, owner, edit)
<1> DEFINE k1 == AfterUnverification(l, m, owner, edit)
           k2 == AfterMetadata(l, m, owner, edit)
           k3 == AfterCreators(l, m, owner, edit)
<1>0. k2 = RunIf(k1, ShouldSendUpdate(m, edit), TheUpdate(m, owner, edit))
  BY DEF AfterMetadata
<1>m. /\ m.collection = l.collection /\ m.verified = l.verified
      /\ ShouldUnverifyCurrentCollection(m, edit) <=> Leaves(l, edit)
  BY CurrentModelSays
<1>k. k1 = AfterUnverification(l, m, owner, edit)
  OBVIOUS
<1>1. /\ k1 # Refused /\ k2 # Refused /\ Sound(k1)
      /\ k3.size = k1.size /\ k3.delegates = l.delegates
      /\ Verifies(edit) => MayJoin(k3, edit)
  BY UpdateRuns
<1> HIDE DEF k1, k2, k3
<1>2. /\ \A c \in Collections : c # m.collection => k1.size[c] = l.size[c]
      /\ Leaves(l, edit) => ~k1.verified /\ MayLeave(l, owner, edit)
      /\ ~Leaves(l, edit) => k1 = l
  <2>1. /\ \A c \in Collections : c # m.collection => k1.size[c] = l.size[c]
        /\ ShouldUnverifyCurrentCollection(m, edit)
             => ~k1.verified /\ MayLeave(l, owner, edit)
        /\ ~ShouldUnverifyCurrentCollection(m, edit) => k1 = l
    BY <1>1, <1>k, UnverificationRuns
  <2>2. QED
    BY <1>m, <2>1
<1>3. ASSUME Leaves(l, edit), edit.collection = Keep PROVE Idle(l, edit)
  <2>1. CASE ShouldSendUpdate(m, edit)
    <3>1. k2 = Run(k1, TheUpdate(m, owner, edit))
      BY <1>0, <2>1 DEF RunIf
    <3>2. /\ k2.verified => k1.verified
          /\ k2.verified <=> edit.collection = Keep /\ m.verified
      BY <1>1, <3>1, MetadataRuns
    <3>3. QED
      BY <1>2, <1>3, <1>m, <3>2 DEF Leaves
  <2>2. CASE ~ShouldSendUpdate(m, edit)
    BY <1>3, <2>2, IdleIsNotSent DEF Leaves
  <2>3. QED
    BY <2>1, <2>2
<1>4. ASSUME Verifies(edit) PROVE MayJoin(l, edit)
  <2> DEFINE c == edit.collection
  <2>1. c \in Collections
    BY <1>4 DEF Verifies
  <2>2. k3.size[c] = l.size[c]
    BY <1>1, <1>2, <1>m, <2>1 DEF Leaves
  <2>3. QED
    BY <1>1, <1>4, <2>2 DEF MayJoin
<1>5. QED
  BY <1>2, <1>3, <1>4 DEF MayUpdate

SignersOf(edit) == IF edit.creators = Keep THEN {} ELSE Signing(edit.creators)

MakesNothingUp(l, m, edit, k) ==
  /\ k.text \in {Given(edit.text, m.text), l.text}
  /\ k.collection \in {Given(edit.collection, m.collection), l.collection}
  /\ \A x \in Creators \ (SignersOf(edit) \cup {l.authority}) :
       k.creators[x] # "absent" =>
         (k.creators[x] = "verified" <=> l.creators[x] = "verified")

LEMMA UpdateMakesNothingUp ==
  ASSUME NEW l, Sound(l), NEW m \in Models, NEW owner \in Keys,
         NEW edit \in UpdateInputs,
         NEW k, k = AfterUpdate(l, m, owner, edit), k # Refused
  PROVE  MakesNothingUp(l, m, edit, k)
<1> DEFINE S  == AdditionalCreators(m, edit)
           k1 == AfterUnverification(l, m, owner, edit)
           k2 == AfterMetadata(l, m, owner, edit)
<1>0. k2 = RunIf(k1, ShouldSendUpdate(m, edit), TheUpdate(m, owner, edit))
  BY DEF AfterMetadata
<1>1. /\ k1 # Refused /\ k2 # Refused /\ Sound(k1)
      /\ k.text = k2.text /\ k.collection = k2.collection
      /\ \A x \in Creators :
           k.creators[x] = IF x \in S THEN "verified" ELSE k2.creators[x]
  BY UpdateRuns
<1>2. /\ k1.text = l.text /\ k1.authority = l.authority /\ k1.creators = l.creators
      /\ k1.collection = l.collection
  BY <1>1, UnverificationRuns
<1> HIDE DEF k1, k2
<1>3. /\ k2.text \in {Given(edit.text, m.text), l.text}
      /\ k2.collection \in {Given(edit.collection, m.collection), l.collection}
      /\ \A x \in Creators \ {l.authority} : k2.creators[x] # "absent" =>
           (k2.creators[x] = "verified" <=> l.creators[x] = "verified")
  <2>1. CASE ShouldSendUpdate(m, edit)
    <3>1. k2 = Run(k1, TheUpdate(m, owner, edit))
      BY <1>0, <2>1 DEF RunIf
    <3>2. /\ k2.text = Given(edit.text, m.text)
          /\ k2.collection = Given(edit.collection, m.collection)
          /\ CreatorsMayBecome(k1, k2.creators)
      BY <1>1, <3>1, MetadataRuns
    <3>3. QED
      BY <1>2, <3>2 DEF CreatorsMayBecome
  <2>2. CASE ~ShouldSendUpdate(m, edit)
    <3>1. k2 = k1
      BY <1>0, <2>2 DEF RunIf
    <3>2. QED
      BY <1>2, <3>1
  <2>3. QED
    BY <2>1, <2>2
<1>4. S \subseteq SignersOf(edit)
  BY DEF AdditionalCreators, SignersOf
<1> HIDE DEF S
<1>5. QED
  BY <1>1, <1>3, <1>4 DEF MakesNothingUp

(* An update from a current model is accepted exactly when it is permitted *)
(* (every update, one that keeps a verified collection included) and does  *)
(* what was asked; one from a stale model makes nothing up.                *)
THEOREM UpdatesAreExact == Spec => []UpdateIsExact
<1>1. ASSUME Inv PROVE UpdateIsExact
  <2> SUFFICES ASSUME NEW t \in network, t.op = "update"
               PROVE  /\ Fresh(t) => (Accepted(t) <=> Permitted(t))
                      /\ Accepted(t) => IF Fresh(t) THEN DoneAsAsked(t)
                                        ELSE NothingMadeUp(t)
    BY DEF UpdateIsExact
  <2> DEFINE m == t.base
             w == Identity[t.client]
             e == t.aim
             o == Outcome(t)
  <2>1. /\ m \in Models /\ e \in UpdateInputs /\ w \in Keys
        /\ UpdateInstructions(m, w, e) # <<>>
        /\ t.instructions = UpdateInstructions(m, w, e) /\ Sound(ledger)
    BY <1>1, ClientsAssumption DEF Inv, Built, Singles
  <2>2. o = AfterUpdate(ledger, m, w, e)
    <3>1. o = After(ledger, UpdateInstructions(m, w, e))
      BY <2>1 DEF Outcome
    <3> HIDE DEF m, w, e, o
    <3>2. QED
      BY <2>1, <3>1, UpdateShape
  <2>3. Fresh(t) => ledger.exists /\ m = ToMetadata(ledger) /\ w = ledger.authority
    BY DEF Fresh
  <2>4. /\ LeavesCollection(t) <=> Leaves(ledger, e)
        /\ MayUnverify(t) <=> MayLeave(ledger, w, e)
        /\ VerificationWanted(e) <=> Verifies(e)
        /\ MayVerify(t) <=> MayJoin(ledger, e)
        /\ CreatorsAfter(t) = KeptCreators(ledger, e)
        /\ AsksNothing(t) <=> Idle(ledger, e)
        /\ Signers(t) = SignersOf(e)
    BY DEF LeavesCollection, Leaves, MayUnverify, MayLeave, VerificationWanted, Verifies,
           MayVerify, MayJoin, CreatorsAfter, KeptCreators, AsksNothing, Idle, Signers,
           SignersOf
  <2>5. Permitted(t) <=> MayUpdate(ledger, w, e)
    BY <2>4 DEF Permitted, MayUpdate
  <2>6. /\ DoneAsAsked(t) <=>
             /\ o.text = Given(e.text, ledger.text)
             /\ o.authority = Given(e.authority, ledger.authority)
             /\ o.creators = KeptCreators(ledger, e)
             /\ o.collection = Given(e.collection, ledger.collection)
             /\ o.verified <=> Verifies(e)
        /\ NothingMadeUp(t) <=> MakesNothingUp(ledger, m, e, o)
        /\ Accepted(t) <=> o # Refused
    BY <2>4 DEF DoneAsAsked, NothingMadeUp, MakesNothingUp, Accepted
  <2> HIDE DEF m, w, e, o
  <2>7. ASSUME Fresh(t), MayUpdate(ledger, w, e) PROVE o # Refused /\ DoneAsAsked(t)
    BY <2>1, <2>2, <2>3, <2>6, <2>7, UpdateLands
  <2>8. ASSUME Fresh(t), o # Refused PROVE MayUpdate(ledger, w, e)
    BY <2>1, <2>2, <2>3, <2>8, UpdateNeeds
  <2>9. ASSUME o # Refused PROVE NothingMadeUp(t)
    BY <2>1, <2>2, <2>6, <2>9, UpdateMakesNothingUp
  <2>10. QED
    BY <2>5, <2>6, <2>7, <2>8, <2>9
<1>2. QED
  BY <1>1, Invariant, PTL

-----------------------------------------------------------------------------
(* What an accepted transaction does to the sizes.                         *)

Still(l, m, edit, c) ==
  IF Members(l, c) = 1 /\ (m.verified => edit.collection = m.collection) THEN 1 ELSE 0

\* Verifying and signing creators take the metadata instruction along.
LEMMA SomethingIsSent ==
  ASSUME NEW m \in Models, NEW owner, NEW edit,
         UpdateInstructions(m, owner, edit) # <<>>,
         ~ShouldUnverifyCurrentCollection(m, edit)
  PROVE  ShouldSendUpdate(m, edit)
<1> SUFFICES ASSUME ~ShouldSendUpdate(m, edit) PROVE FALSE
  OBVIOUS
<1>1. /\ edit.collection \notin Collections
      /\ edit.creators # Keep => Signing(edit.creators) = {}
  BY DEF ShouldSendUpdate
<1>2. AdditionalCreators(m, edit) = {}
  BY <1>1 DEF AdditionalCreators
<1>3. VerifyNewCollection(edit) = <<>>
  BY <1>1 DEF VerifyNewCollection, When
<1>4. UpdateInstructions(m, owner, edit) = <<>> \o <<>> \o <<>> \o <<>>
  BY <1>2, <1>3 DEF UpdateInstructions, When
<1>5. QED
  BY <1>4

LEMMA UpdateCounts ==
  ASSUME NEW l, Sound(l), NEW m \in Models, NEW owner \in Keys,
         NEW edit \in UpdateInputs, UpdateInstructions(m, owner, edit) # <<>>,
         NEW k, k = AfterUpdate(l, m, owner, edit), k # Refused,
         NEW c \in Collections, l.size[c] # Legacy
  PROVE  /\ Sound(k) /\ k.size[c] # Legacy
         /\ Others(k, c) = Others(l, c) + Still(l, m, edit, c)
<1> DEFINE k1 == AfterUnverification(l, m, owner, edit)
           k2 == AfterMetadata(l, m, owner, edit)
           k3 == AfterCreators(l, m, owner, edit)
<1>k. k1 = AfterUnverification(l, m, owner, edit)
  OBVIOUS
<1>0. k2 = RunIf(k1, ShouldSendUpdate(m, edit), TheUpdate(m, owner, edit))
  BY DEF AfterMetadata
<1>1. /\ k1 # Refused /\ k2 # Refused /\ Sound(k1) /\ Sound(k2) /\ Sound(k)
      /\ Follows(k2, k3) /\ Follows(k3, k) /\ k2.size = k1.size
  BY UpdateRuns
<1> HIDE DEF k1, k2, k3
<1>2. Follows(k2, k)
  BY <1>1, FollowsOn
<1>3. CASE ShouldUnverifyCurrentCollection(m, edit)
  <2>1. ~k1.verified /\ Follows(l, k1)
    BY <1>1, <1>3, <1>k, UnverificationRuns
  <2>2. Follows(k1, k2)
    <3>1. k2 = k1 \/ k2 = Run(k1, TheUpdate(m, owner, edit))
      BY <1>0 DEF RunIf
    <3>2. k2 = k1 => Follows(k1, k2)
      BY DEF Follows
    <3>3. QED
      BY <1>1, <2>1, <3>1, <3>2, MetadataRuns
  <2>3. Follows(l, k)
    BY <1>2, <2>1, <2>2, FollowsOn
  <2>4. Still(l, m, edit, c) = 0
    BY <1>3 DEF Still, ShouldUnverifyCurrentCollection
  <2>5. Others(l, c) \in Int
    BY SizeTypes, CollectionsAssumption DEF Others
  <2>6. QED
    BY <1>1, <2>3, <2>4, <2>5 DEF Follows
<1>4. CASE ~ShouldUnverifyCurrentCollection(m, edit)
  <2>1. k1 = l
    BY <1>1, <1>4, <1>k, UnverificationRuns
  <2>2. k2 = Run(l, TheUpdate(m, owner, edit))
    BY <1>0, <1>4, <2>1, SomethingIsSent DEF RunIf
  <2>3. k2.size = l.size /\ (k2.verified <=> edit.collection = Keep /\ m.verified)
    BY <1>1, <2>2, MetadataRuns
  <2>4. m.verified => edit.collection = m.collection
    BY <1>4 DEF ShouldUnverifyCurrentCollection
  <2>5. ~k2.verified
    BY <2>3, <2>4, KeepAssumption DEF Models
  <2>6. Members(k2, c) = 0
    BY <2>5 DEF Members
  <2>7. k.size[c] # Legacy /\ Others(k, c) = l.size[c] - 0
    BY <1>2, <2>3, <2>6 DEF Follows, Others
  <2>8. Still(l, m, edit, c) = Members(l, c)
    BY <2>4 DEF Still, Members
  <2>9. l.size[c] \in Int /\ Members(l, c) \in Int
    BY SizeTypes, CollectionsAssumption
  <2>10. QED
    BY <1>1, <2>7, <2>8, <2>9 DEF Others
<1>5. QED
  BY <1>3, <1>4

(* The size of a sized collection follows the NFTs verified in it through  *)
(* every transaction that is accepted, of every operation and from every   *)
(* model, and loses count of an NFT only as the property says: when a      *)
(* stale or repeated update, or a deletion, takes an NFT out uncounted.    *)
THEOREM SizesFollowMembers == Spec => []SizeFollowsMembers
<1>1. ASSUME Inv PROVE SizeFollowsMembers
  <2> SUFFICES ASSUME NEW t \in network, Accepted(t),
                      NEW c \in Collections, ledger.size[c] # Legacy
               PROVE  Outcome(t).size[c] - ledger.size[c]
                        = Members(Outcome(t), c) - Members(ledger, c) + StillCounted(t, c)
    BY DEF SizeFollowsMembers
  <2> DEFINE o == Outcome(t)
  <2>1. Sound(ledger) /\ Built(t) /\ o # Refused
    BY <1>1 DEF Inv, Accepted
  <2>2. /\ Sound(o) /\ o.size[c] # Legacy
        /\ Others(o, c) = Others(ledger, c) + StillCounted(t, c)
    <3>0. Others(ledger, c) \in Int
      BY <2>1, SizeTypes, CollectionsAssumption DEF Others
    <3>1. CASE t.op = "create"
      <4>1. /\ t.aim \in CreateInputs /\ Identity[t.client] \in Keys
            /\ t.instructions = CreateInstructions(Identity[t.client], t.aim)
        BY <2>1, <3>1, ClientsAssumption DEF Built, Singles
      <4>2. o = After(ledger, CreateInstructions(Identity[t.client], t.aim))
        BY <4>1 DEF Outcome
      <4> HIDE DEF o
      <4>3. Sound(o) /\ Follows(ledger, o)
        BY <2>1, <4>1, <4>2, CreateLands
      <4>4. StillCounted(t, c) = 0
        BY <3>1 DEF StillCounted
      <4>5. QED
        BY <3>0, <4>3, <4>4 DEF Follows
    <3>2. CASE t.op = "update"
      <4> DEFINE m == t.base
                 w == Identity[t.client]
                 e == t.aim
      <4>1. /\ m \in Models /\ e \in UpdateInputs /\ w \in Keys
            /\ UpdateInstructions(m, w, e) # <<>>
            /\ t.instructions = UpdateInstructions(m, w, e)
        BY <2>1, <3>2, ClientsAssumption DEF Built, Singles
      <4>2. StillCounted(t, c) = Still(ledger, m, e, c)
        BY <3>2 DEF StillCounted, Still
      <4>3. o = After(ledger, UpdateInstructions(m, w, e))
        BY <4>1 DEF Outcome
      <4> HIDE DEF m, w, e, o
      <4>4. o = AfterUpdate(ledger, m, w, e)
        BY <4>1, <4>3, UpdateShape
      <4>5. /\ Sound(o) /\ o.size[c] # Legacy
            /\ Others(o, c) = Others(ledger, c) + Still(ledger, m, e, c)
        BY <2>1, <4>1, <4>4, UpdateCounts
      <4>6. QED
        BY <4>2, <4>5
    <3>3. CASE t.op \in Singles
      <4>1. PICK i : Only(t, i)
        BY <2>1, <3>3 DEF Built, Singles
      <4>2. /\ t.instructions = <<i>> /\ i \in Sendable
            /\ i.type \notin {"createMetadata", "updateMetadata"}
            /\ i.type = "burnNft" <=> t.op = "delete"
        BY <4>1 DEF Only
      <4>3. o = Execute(ledger, i)
        BY <2>1, <4>2, AfterOne, SoundIsNotRefused DEF Outcome, Run
      <4> HIDE DEF o
      <4>4. CASE i.type = "burnNft"
        <5>1. o = BurnNft(ledger, i)
          BY <4>3, <4>4 DEF Execute
        <5>2. /\ Sound(o) /\ ~o.verified
              /\ ledger.size[c] # 0
                   => o.size[c] # Legacy /\ Others(o, c) = Others(ledger, c)
              /\ ledger.size[c] = 0 => o.size[c] = ledger.size[c]
          BY <2>1, <4>2, <4>4, <5>1, BurnSound
        <5>3. CASE ledger.size[c] # 0
          <6>1. StillCounted(t, c) = 0
            BY <3>3, <5>3 DEF StillCounted, Singles
          <6>2. QED
            BY <3>0, <5>2, <5>3, <6>1
        <5>4. CASE ledger.size[c] = 0
          <6>1. StillCounted(t, c) = Members(ledger, c)
            BY <4>2, <4>4, <5>4 DEF StillCounted, Members
          <6>2. Members(o, c) = 0
            BY <5>2 DEF Members
          <6>3. Members(ledger, c) \in Int
            BY <2>1, SizeTypes
          <6>4. QED
            BY <5>2, <5>4, <6>1, <6>2, <6>3 DEF Others
        <5>5. QED
          BY <5>3, <5>4
      <4>5. CASE i.type # "burnNft"
        <5>1. Sound(o) /\ Follows(ledger, o)
          BY <2>1, <4>2, <4>3, <4>5, ExecuteSound
        <5>2. StillCounted(t, c) = 0
          BY <3>3, <4>2, <4>5 DEF StillCounted, Singles
        <5>3. QED
          BY <3>0, <5>1, <5>2 DEF Follows
      <4>6. QED
        BY <4>4, <4>5
    <3>4. QED
      BY <2>1, <3>1, <3>2, <3>3 DEF Built
  <2> HIDE DEF o
  <2>3. /\ ledger.size[c] \in Int /\ Members(ledger, c) \in Int
        /\ o.size[c] \in Int /\ Members(o, c) \in Int
    BY <2>1, <2>2, SizeTypes, CollectionsAssumption
  <2>4. o.size[c] - Members(o, c)
          = ledger.size[c] - Members(ledger, c) + StillCounted(t, c)
    BY <2>2 DEF Others
  <2>5. StillCounted(t, c) \in Int
    BY DEF StillCounted
  <2>6. o.size[c] - ledger.size[c] = Members(o, c) - Members(ledger, c) + StillCounted(t, c)
    <3> DEFINE n1 == o.size[c]
               n2 == ledger.size[c]
               m1 == Members(o, c)
               m2 == Members(ledger, c)
               s == StillCounted(t, c)
    <3>1. n1 \in Int /\ n2 \in Int /\ m1 \in Int /\ m2 \in Int /\ s \in Int
      BY <2>3, <2>5
    <3>2. n1 - m1 = n2 - m2 + s
      BY <2>4
    <3> HIDE DEF n1, n2, m1, m2, s
    <3>3. n1 - n2 = m1 - m2 + s
      BY <3>1, <3>2
    <3>4. QED
      BY <3>3 DEF n1, n2, m1, m2, s
  <2>7. QED
    BY <2>6 DEF o
<1>2. QED
  BY <1>1, Invariant, PTL

=============================================================================
