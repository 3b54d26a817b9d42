-------------------------- MODULE ConfigStoreProofs --------------------------
(***************************************************************************)
(* The configuration in memory and on disk, for any entries, remotes,      *)
(* settings and number of savers.                                          *)
(***************************************************************************)
EXTENDS ConfigStore, TrustedPeersProofs

Separate(rs) == \A i, j \in DOMAIN rs : i # j => ~SameRemoteService(rs[i], rs[j])
SoundList(t) == t \in Seq(Entry) /\ Distinct(t)
SoundRemotes(rs) == rs \in Seq(RemoteConfig) /\ Separate(rs)
Enabled(n) ==
    /\ n \in NetworkConfig
    /\ n.ShareBackend = "" \/ n.mode[n.ShareBackend] # "disabled"

FileRecord == [kind : {"file", "torn"}, list : Seq(Entry), remotes : Seq(RemoteConfig),
               net : NetworkConfig, key : {1}]
SoundFile(f) == f \in FileRecord /\ Distinct(f.list) /\ Separate(f.remotes)
SaverRecord == [pc : {"idle", "open", "write"}, file : {Missing} \cup FileRecord]

(* What is in memory, also right after a start. *)
MemoryHolds ==
    /\ SoundList(list) /\ SoundRemotes(remotes) /\ Enabled(net)
    /\ running \in BOOLEAN /\ key \in {0, 1} /\ clean \in BOOLEAN
    /\ running => key = 1
    /\ ~running => list = <<>> /\ remotes = <<>> /\ net = defaultConfig

(* Every Save in flight writes a sound file; none outlives the process. *)
SaversHold ==
    /\ saver \in [Saver -> SaverRecord]
    /\ \A s \in Saver : saver[s].pc # "idle" =>
         running /\ SoundFile(saver[s].file) /\ saver[s].file.kind = "file"

(* Whatever the file holds of lists and a key is sound. *)
DiskHolds == disk \in {Missing, Empty, Mixed} \/ SoundFile(disk)

(* As long as every Save landed, one Save at most is in flight, it writes  *)
(* what is in memory, and between Saves the file holds that already.       *)
InMemory(f) ==
    /\ f.kind = "file" /\ f.list = list /\ f.remotes = remotes
    /\ NormalizeNetworkBackend(f.net) = NormalizeNetworkBackend(net)
CleanHolds ==
    clean =>
        /\ \A s, u \in InFlight : s = u
        /\ \A s \in InFlight : InMemory(saver[s].file)
                               /\ (saver[s].pc = "write" => disk = Empty)
        /\ (running /\ InFlight = {}) => InMemory(disk)
        /\ ~running => disk = Missing \/ disk.kind = "file"

ConfigInv == MemoryHolds /\ SaversHold /\ DiskHolds /\ CleanHolds

-----------------------------------------------------------------------------
(* Settings *)

(* NormalizeNetworkBackend returns settings whose backend is enabled. *)
LEMMA NormalizeEnables ==
    ASSUME NEW n \in NetworkConfig
    PROVE  /\ Enabled(NormalizeNetworkBackend(n))
           /\ NormalizeNetworkBackend(n).ShareBackend \in Backends
           /\ \A c \in Backends : NormalizeNetworkBackend(n).mode[c] # ""
<1> DEFINE b == IF n.ShareBackend \in DOMAIN n.mode THEN n.ShareBackend ELSE "iroh"
<1> DEFINE set == [c \in DOMAIN n.mode |->
                    IF n.mode[c] # "" THEN n.mode[c]
                    ELSE IF c = "iroh" THEN "public" ELSE "disabled"]
<1> DEFINE fixed == [set EXCEPT ![b] = IF @ = "disabled" THEN "public" ELSE @]
<1>1. n.mode \in [Backends -> Modes]
  BY DEF NetworkConfig
<1>2. DOMAIN n.mode = Backends
  BY <1>1
<1>3. b \in Backends
  BY <1>2 DEF Backends
<1> HIDE DEF b
<1>4. "public" \in Modes /\ "disabled" \in Modes
  BY DEF Modes
<1>5. set \in [Backends -> Modes] /\ \A c \in Backends : set[c] # ""
  BY <1>1, <1>2, <1>4
<1> HIDE DEF set
<1>6. /\ fixed \in [Backends -> Modes]
      /\ \A c \in Backends : fixed[c] # ""
      /\ fixed[b] # "disabled"
  BY <1>3, <1>4, <1>5
<1>7. NormalizeNetworkBackend(n) = [ShareBackend |-> b, mode |-> fixed]
  BY DEF NormalizeNetworkBackend, b, set
<1> HIDE DEF fixed
<1>8. [ShareBackend |-> b, mode |-> fixed] \in NetworkConfig
  BY <1>3, <1>6 DEF NetworkConfig
<1>9. PICK m : m = [ShareBackend |-> b, mode |-> fixed]
  OBVIOUS
<1>10. m.ShareBackend = b /\ m.mode = fixed /\ m \in NetworkConfig
  BY <1>8, <1>9
<1>11. Enabled(m) /\ m.ShareBackend \in Backends /\ \A c \in Backends : m.mode[c] # ""
  BY <1>3, <1>6, <1>10 DEF Enabled
<1>12. QED
  BY <1>7, <1>9, <1>11

(* Normalising twice is normalising once: Load may do it again. *)
LEMMA NormalizeOnce ==
    ASSUME NEW n \in NetworkConfig
    PROVE  NormalizeNetworkBackend(NormalizeNetworkBackend(n)) = NormalizeNetworkBackend(n)
<1>1. PICK m : m = NormalizeNetworkBackend(n)
  OBVIOUS
<1>2. /\ m \in NetworkConfig /\ m.ShareBackend \in Backends
      /\ m.ShareBackend = "" \/ m.mode[m.ShareBackend] # "disabled"
      /\ \A c \in Backends : m.mode[c] # ""
  BY <1>1, NormalizeEnables DEF Enabled
<1>3. DOMAIN m.mode = Backends /\ m = [ShareBackend |-> m.ShareBackend, mode |-> m.mode]
  BY <1>2 DEF NetworkConfig
<1>4. m.mode[m.ShareBackend] # "disabled"
  BY <1>2 DEF Backends
<1> DEFINE set == [c \in DOMAIN m.mode |->
                    IF m.mode[c] # "" THEN m.mode[c]
                    ELSE IF c = "iroh" THEN "public" ELSE "disabled"]
<1>5. set = m.mode
  BY <1>2, <1>3 DEF NetworkConfig
<1>6. [m.mode EXCEPT ![m.ShareBackend] = IF @ = "disabled" THEN "public" ELSE @] = m.mode
  BY <1>2, <1>3, <1>4 DEF NetworkConfig
<1>7. NormalizeNetworkBackend(m) =
        [ShareBackend |-> m.ShareBackend,
         mode |-> [set EXCEPT ![m.ShareBackend] = IF @ = "disabled" THEN "public" ELSE @]]
  BY <1>2, <1>3 DEF NormalizeNetworkBackend
<1> HIDE DEF set
<1>8. QED
  BY <1>1, <1>3, <1>5, <1>6, <1>7

LEMMA DefaultEnabled == Enabled(defaultConfig) /\ defaultConfig \in NetworkConfig
<1>1. defaultConfig.mode \in [Backends -> Modes]
  BY DEF defaultConfig, Modes
<1>2. QED
  BY <1>1 DEF defaultConfig, Enabled, NetworkConfig

-----------------------------------------------------------------------------
(* Remotes *)

(* mergeRemote leaves the entry the service it was. *)
LEMMA MergeKeepsService ==
    ASSUME NEW old \in RemoteConfig, NEW new \in RemoteConfig, SameRemoteService(old, new)
    PROVE  /\ mergeRemote(old, new) \in RemoteConfig
           /\ mergeRemote(old, new).NodeID = old.NodeID
           /\ RemoteServiceKey(mergeRemote(old, new)) = RemoteServiceKey(old)
<1>1. /\ old.TargetPort \in Int /\ new.TargetPort \in Int
      /\ old.Protocol \in {r.Protocol : r \in Remote}
      /\ new.Protocol \in {r.Protocol : r \in Remote}
      /\ old.RelayAddrs \in SUBSET (Addr \cup UNION {r.RelayAddrs : r \in Remote})
      /\ new.RelayAddrs \in SUBSET (Addr \cup UNION {r.RelayAddrs : r \in Remote})
      /\ old.NodeID \in {r.NodeID : r \in Remote}
  BY DEF RemoteConfig
<1>2. mergeRemote(old, new) \in RemoteConfig
  BY <1>1 DEF mergeRemote, RemoteConfig
<1> DEFINE P(r) == IF r.Protocol = "" THEN "rdp" ELSE lowered(r.Protocol)
<1> DEFINE Q(r) == IF r.TargetPort <= 0 THEN protocolDefaultPort(P(r)) ELSE r.TargetPort
<1>3. \A r : RemoteServiceKey(r) = <<r.NodeID, P(r), Q(r)>>
  BY DEF RemoteServiceKey
<1>4. P(old) = P(new) /\ Q(old) = Q(new) /\ old.NodeID = new.NodeID
  BY <1>3 DEF SameRemoteService
<1>5. PICK m : m = mergeRemote(old, new)
  OBVIOUS
<1>6. /\ m.NodeID = old.NodeID
      /\ m.Protocol = IF new.Protocol # "" THEN new.Protocol ELSE old.Protocol
      /\ m.TargetPort = IF new.TargetPort > 0 THEN new.TargetPort ELSE old.TargetPort
  BY <1>5 DEF mergeRemote
<1>7. P(m) = P(old)
  BY <1>4, <1>6
<1>8. Q(m) = Q(old)
  BY <1>1, <1>4, <1>6, <1>7
<1> HIDE DEF P, Q
<1>9. QED
  BY <1>2, <1>3, <1>5, <1>6, <1>7, <1>8

(* AddRemote lists a service once. *)
LEMMA AddRemoteKeeps ==
    ASSUME NEW rs, SoundRemotes(rs), NEW r \in RemoteConfig
    PROVE  SoundRemotes(AddRemote(rs, r))
<1> DEFINE pos == {i \in DOMAIN rs : SameRemoteService(rs[i], r)}
<1> DEFINE k == First(pos)
<1>1. rs \in Seq(RemoteConfig) /\ Separate(rs)
  BY DEF SoundRemotes
<1>2. pos \in SUBSET (Nat \ {0})
  BY <1>1
<1>3. (pos = {} => k = 0) /\ (pos # {} => k \in pos)
  BY <1>2, FirstFinds
<1>4. AddRemote(rs, r) = IF k = 0 THEN Append(rs, r) ELSE [rs EXCEPT ![k] = mergeRemote(rs[k], r)]
  BY DEF AddRemote
<1> HIDE DEF k
<1>5. CASE pos = {}
  <2>1. \A i \in DOMAIN rs : ~SameRemoteService(rs[i], r)
    BY <1>5
  <2>2. \A i \in DOMAIN rs : ~SameRemoteService(r, rs[i])
    BY <2>1 DEF SameRemoteService
  <2> DEFINE out == Append(rs, r)
  <2>3. /\ out \in Seq(RemoteConfig) /\ DOMAIN out = DOMAIN rs \cup {Len(rs) + 1}
        /\ \A i \in DOMAIN rs : out[i] = rs[i]
        /\ out[Len(rs) + 1] = r
    BY <1>1
  <2> HIDE DEF out
  <2>4. Separate(out)
    BY <1>1, <2>1, <2>2, <2>3 DEF Separate
  <2>5. QED
    BY <1>3, <1>4, <1>5, <2>3, <2>4 DEF SoundRemotes, out
<1>6. CASE pos # {}
  <2>1. k \in DOMAIN rs /\ SameRemoteService(rs[k], r) /\ k # 0
    BY <1>2, <1>3, <1>6
  <2>2. rs[k] \in RemoteConfig
    BY <1>1, <2>1
  <2>3. PICK m : m = mergeRemote(rs[k], r)
    OBVIOUS
  <2>4. /\ m \in RemoteConfig /\ m.NodeID = rs[k].NodeID
        /\ RemoteServiceKey(m) = RemoteServiceKey(rs[k])
    BY <2>1, <2>2, <2>3, MergeKeepsService
  <2> DEFINE out == [rs EXCEPT ![k] = m]
  <2>5. /\ out \in Seq(RemoteConfig) /\ DOMAIN out = DOMAIN rs
        /\ \A i \in DOMAIN rs : i # k => out[i] = rs[i]
        /\ out[k] = m
    BY <1>1, <2>1, <2>4
  <2> HIDE DEF out
  <2>6. \A i \in DOMAIN rs : out[i].NodeID = rs[i].NodeID
                             /\ RemoteServiceKey(out[i]) = RemoteServiceKey(rs[i])
    BY <2>4, <2>5
  <2>7. Separate(out)
    BY <1>1, <2>5, <2>6 DEF Separate, SameRemoteService
  <2>8. QED
    BY <1>4, <2>1, <2>3, <2>5, <2>7 DEF SoundRemotes, out
<1>7. QED
  BY <1>5, <1>6

LEMMA WithoutKeepsRemotes ==
    ASSUME NEW rs, SoundRemotes(rs), NEW k
    PROVE  SoundRemotes(Without(rs, k))
<1> DEFINE pos == DOMAIN rs \ {k}
<1> DEFINE out == Kept(rs, pos)
<1>1. rs \in Seq(RemoteConfig) /\ Separate(rs) /\ pos \in SUBSET DOMAIN rs
  BY DEF SoundRemotes
<1>2. Without(rs, k) = out
  BY DEF Without
<1> HIDE DEF pos
<1>3. /\ out \in Seq(RemoteConfig)
      /\ \A n \in DOMAIN out : KeptAt(pos, n) \in pos /\ out[n] = rs[KeptAt(pos, n)]
      /\ \A n, m \in DOMAIN out : n # m => KeptAt(pos, n) # KeptAt(pos, m)
  BY <1>1, KeptEntries
<1> HIDE DEF out
<1>4. Separate(out)
  BY <1>1, <1>3 DEF Separate
<1>5. QED
  BY <1>2, <1>3, <1>4 DEF SoundRemotes

(* A relay address is not part of what names a service. *)
LEMMA NewAddrsKeepRemotes ==
    ASSUME NEW rs, SoundRemotes(rs), NEW k \in DOMAIN rs, NEW a \in Addr
    PROVE  SoundRemotes([rs EXCEPT ![k].RelayAddrs = {a}])
<1> DEFINE out == [rs EXCEPT ![k].RelayAddrs = {a}]
<1>1. rs \in Seq(RemoteConfig) /\ Separate(rs) /\ rs[k] \in RemoteConfig
  BY DEF SoundRemotes
<1>2. PICK m : m = [rs[k] EXCEPT !.RelayAddrs = {a}]
  OBVIOUS
<1>3. /\ m \in RemoteConfig /\ m.NodeID = rs[k].NodeID
      /\ m.Protocol = rs[k].Protocol /\ m.TargetPort = rs[k].TargetPort
  BY <1>1, <1>2 DEF RemoteConfig
<1>4. out = [rs EXCEPT ![k] = m]
  BY <1>2
<1> HIDE DEF out
<1>5. /\ out \in Seq(RemoteConfig) /\ DOMAIN out = DOMAIN rs
      /\ \A i \in DOMAIN rs : i # k => out[i] = rs[i]
      /\ out[k] = m
  BY <1>1, <1>3, <1>4
<1>6. RemoteServiceKey(m) = RemoteServiceKey(rs[k])
  BY <1>3 DEF RemoteServiceKey
<1>7. \A i \in DOMAIN rs : out[i].NodeID = rs[i].NodeID
                           /\ RemoteServiceKey(out[i]) = RemoteServiceKey(rs[i])
  BY <1>3, <1>5, <1>6
<1>8. Separate(out)
  BY <1>1, <1>5, <1>7 DEF Separate, SameRemoteService
<1>9. QED
  BY <1>5, <1>8 DEF SoundRemotes, out

-----------------------------------------------------------------------------
(* The list of trusted machines *)

LEMMA EntriesMerge ==
    ASSUME NEW d \in Entry, NEW p \in Entry
    PROVE  mergeTrustedPeer(d, p) \in Entry
BY DEF Entry, mergeTrustedPeer, Stated

LEMMA AddKeepsList ==
    ASSUME NEW t, SoundList(t), NEW p \in Entry
    PROVE  SoundList(AddTrustedPeer(t, p))
<1>1. t \in Seq(Entry) /\ Distinct(t)
  BY DEF SoundList
<1>2. Distinct(AddTrustedPeer(t, p))
  BY <1>1, AddKeepsDistinct
<1>3. PICK k : k = trustedIndex(t, p)
  OBVIOUS
<1>4. k \in 0..Len(t)
  BY <1>1, <1>3, trustedIndexFinds
<1>5. \A d \in Entry : mergeTrustedPeer(d, p) \in Entry
  BY EntriesMerge
<1>6. AddAt(t, k, p) \in Seq(Entry)
  BY <1>1, <1>4, <1>5, AddAtInSeq
<1>7. QED
  BY <1>2, <1>3, <1>6 DEF AddTrustedPeer, SoundList

LEMMA RemoveKeepsList ==
    ASSUME NEW t, SoundList(t), NEW n
    PROVE  SoundList(RemoveTrustedPeer(t, n))
<1>1. t \in Seq(Entry) /\ Distinct(t)
  BY DEF SoundList
<1>2. ASSUME NEW k PROVE SoundList(Without(t, k))
  <2>1. DOMAIN t \ {k} \in SUBSET DOMAIN t
    OBVIOUS
  <2>2. Kept(t, DOMAIN t \ {k}) \in Seq(Entry)
    BY <1>1, <2>1, KeptEntries
  <2>3. Distinct(Kept(t, DOMAIN t \ {k}))
    BY <1>1, <2>1, KeptDistinct
  <2>4. QED
    BY <2>2, <2>3 DEF Without, SoundList
<1>3. QED
  BY <1>2 DEF RemoveTrustedPeer

LEMMA WithoutNodeKeepsList ==
    ASSUME NEW t, SoundList(t), NEW n
    PROVE  SoundList(WithoutNode(t, n))
<1> DEFINE pos == {i \in DOMAIN t : t[i].NodeID # n}
<1>1. t \in Seq(Entry) /\ Distinct(t) /\ pos \in SUBSET DOMAIN t
  BY DEF SoundList
<1>2. WithoutNode(t, n) = Kept(t, pos)
  BY DEF WithoutNode
<1> HIDE DEF pos
<1>3. Kept(t, pos) \in Seq(Entry)
  BY <1>1, KeptEntries
<1>4. Distinct(Kept(t, pos))
  BY <1>1, KeptDistinct
<1>5. QED
  BY <1>2, <1>3, <1>4 DEF SoundList

-----------------------------------------------------------------------------
(* What a torn file gives back is a prefix of what was written. *)

LEMMA PrefixKept ==
    ASSUME NEW E, NEW t \in Seq(E), NEW i \in 0..Len(t)
    PROVE  /\ SubSeq(t, 1, i) \in Seq(E)
           /\ DOMAIN SubSeq(t, 1, i) \subseteq DOMAIN t
           /\ \A j \in DOMAIN SubSeq(t, 1, i) : SubSeq(t, 1, i)[j] = t[j]
           /\ i = Len(t) => SubSeq(t, 1, i) = t
<1>1. /\ SubSeq(t, 1, i) \in Seq(E) /\ Len(SubSeq(t, 1, i)) = i
      /\ \A j \in 1..i : SubSeq(t, 1, i)[j] = t[j]
  OBVIOUS
<1>2. DOMAIN SubSeq(t, 1, i) = 1..i /\ DOMAIN t = 1..Len(t)
  BY <1>1
<1>3. i = Len(t) => SubSeq(t, 1, i) = t
  BY <1>1, <1>2
<1>4. QED
  BY <1>1, <1>2, <1>3

LEMMA PrefixSound ==
    ASSUME NEW t, SoundList(t), NEW rs, SoundRemotes(rs),
           NEW i \in 0..Len(t), NEW j \in 0..Len(rs)
    PROVE  SoundList(SubSeq(t, 1, i)) /\ SoundRemotes(SubSeq(rs, 1, j))
<1>1. t \in Seq(Entry) /\ Distinct(t) /\ rs \in Seq(RemoteConfig) /\ Separate(rs)
  BY DEF SoundList, SoundRemotes
<1>2. PICK u : u = SubSeq(t, 1, i)
  OBVIOUS
<1>3. u \in Seq(Entry) /\ DOMAIN u \subseteq DOMAIN t /\ \A n \in DOMAIN u : u[n] = t[n]
  BY <1>1, <1>2, PrefixKept
<1>4. Distinct(u)
  BY <1>1, <1>3 DEF Distinct
<1>5. PICK v : v = SubSeq(rs, 1, j)
  OBVIOUS
<1>6. v \in Seq(RemoteConfig) /\ DOMAIN v \subseteq DOMAIN rs /\ \A n \in DOMAIN v : v[n] = rs[n]
  BY <1>1, <1>5, PrefixKept
<1>7. Separate(v)
  BY <1>1, <1>6 DEF Separate
<1>8. QED
  BY <1>2, <1>3, <1>4, <1>5, <1>6, <1>7 DEF SoundList, SoundRemotes

-----------------------------------------------------------------------------
(* The steps *)

LEMMA ConfigInvInit == ConfigInit => ConfigInv
<1> SUFFICES ASSUME ConfigInit PROVE ConfigInv
  OBVIOUS
<1>1. SoundList(<<>>) /\ SoundRemotes(<<>>)
  BY DEF SoundList, SoundRemotes, Distinct, Separate
<1>2. MemoryHolds
  BY <1>1, DefaultEnabled DEF ConfigInit, MemoryHolds
<1>3. saver \in [Saver -> SaverRecord] /\ \A s \in Saver : saver[s].pc = "idle"
  BY DEF ConfigInit, NoSave, SaverRecord
<1>4. InFlight = {}
  BY <1>3 DEF InFlight
<1>5. QED
  BY <1>2, <1>3, <1>4 DEF ConfigInit, ConfigInv, SaversHold, DiskHolds, CleanHolds

LEMMA FileIsSound ==
    ASSUME NEW t, SoundList(t), NEW r, SoundRemotes(r), NEW n \in NetworkConfig
    PROVE  /\ SoundFile(File(t, r, n, 1)) /\ File(t, r, n, 1).kind = "file"
           /\ File(t, r, n, 1).list = t /\ File(t, r, n, 1).remotes = r
           /\ File(t, r, n, 1).net = n
BY DEF SoundFile, SoundList, SoundRemotes, File, FileRecord

(* Every edit saves what it leaves in memory. *)
LEMMA EditKeeps ==
    ASSUME ConfigInv, NEW t, SoundList(t), NEW r, SoundRemotes(r), NEW n \in NetworkConfig,
           EditAndSave(t, r, n)
    PROVE  ConfigInv'
<1>1. /\ running /\ running' /\ key = 1 /\ key' = 1 /\ disk' = disk
      /\ list' = t /\ remotes' = r /\ net' = NormalizeNetworkBackend(n)
      /\ clean \in BOOLEAN /\ clean' = (clean /\ InFlight = {})
  BY DEF ConfigInv, MemoryHolds, EditAndSave
<1>2. Enabled(net') /\ net' \in NetworkConfig
  BY <1>1, NormalizeEnables DEF Enabled
<1>3. PICK s \in Saver \ InFlight :
        saver' = [saver EXCEPT ![s] = [pc |-> "open", file |-> File(t, r, net', key)]]
  BY DEF EditAndSave
<1>4. PICK f : f = File(t, r, net', 1)
  OBVIOUS
<1>5. /\ SoundFile(f) /\ f.kind = "file" /\ f.list = t /\ f.remotes = r /\ f.net = net'
  BY <1>2, <1>4, FileIsSound
<1>6. saver \in [Saver -> SaverRecord] /\ s \in Saver
  BY <1>3 DEF ConfigInv, SaversHold
<1>7. PICK x : x = [pc |-> "open", file |-> f]
  OBVIOUS
<1>8. x \in SaverRecord /\ x.pc = "open" /\ x.file = f
  BY <1>5, <1>7 DEF SaverRecord, SoundFile
<1>9. saver' = [saver EXCEPT ![s] = x]
  BY <1>1, <1>3, <1>4, <1>7
<1>10. /\ saver' \in [Saver -> SaverRecord] /\ saver'[s] = x
       /\ \A u \in Saver : u # s => saver'[u] = saver[u]
  BY <1>6, <1>8, <1>9
<1>11. MemoryHolds'
  BY <1>1, <1>2 DEF MemoryHolds
<1>12. SaversHold'
  BY <1>1, <1>5, <1>8, <1>10 DEF ConfigInv, SaversHold
<1>13. DiskHolds'
  BY <1>1 DEF ConfigInv, DiskHolds
<1>14. CleanHolds'
  <2> SUFFICES ASSUME clean' PROVE CleanHolds'
    BY DEF CleanHolds
  <2>1. InFlight' = {s}
    BY <1>1, <1>6, <1>8, <1>10 DEF InFlight
  <2>2. InMemory(saver[s].file)'
    BY <1>1, <1>5, <1>8, <1>10 DEF InMemory
  <2>3. QED
    BY <1>1, <1>8, <1>10, <2>1, <2>2 DEF CleanHolds
<1>15. QED
  BY <1>11, <1>12, <1>13, <1>14 DEF ConfigInv

(* A Save on its way: what is in memory stays. *)
LEMMA SaveKeeps ==
    ASSUME ConfigInv, NEW s \in Saver, NEW x \in SaverRecord,
           saver[s].pc # "idle", saver' = [saver EXCEPT ![s] = x],
           UNCHANGED <<list, remotes, net, key, running, edits>>,
           clean' \in BOOLEAN, clean' => clean,
           x.pc # "idle" => x.file = saver[s].file,
           DiskHolds',
           clean' => IF x.pc = "idle" THEN disk' = saver[s].file
                                      ELSE x.pc = "write" /\ disk' = Empty
    PROVE  ConfigInv'
<1>1. /\ saver \in [Saver -> SaverRecord] /\ running
      /\ SoundFile(saver[s].file) /\ saver[s].file.kind = "file"
  BY DEF ConfigInv, SaversHold
<1>2. /\ saver' \in [Saver -> SaverRecord] /\ saver'[s] = x
      /\ \A u \in Saver : u # s => saver'[u] = saver[u]
  BY <1>1
<1>3. MemoryHolds'
  BY DEF ConfigInv, MemoryHolds
<1>4. SaversHold'
  BY <1>1, <1>2 DEF ConfigInv, SaversHold
<1>5. CleanHolds'
  <2> SUFFICES ASSUME clean' PROVE CleanHolds'
    BY DEF CleanHolds
  <2>1. s \in InFlight
    BY DEF InFlight
  <2>2. (\A u, v \in InFlight : u = v) /\ InMemory(saver[s].file)
    BY <2>1 DEF ConfigInv, CleanHolds
  <2>3. \A u \in Saver : u # s => saver[u].pc = "idle"
    BY <2>1, <2>2 DEF InFlight
  <2>4. CASE x.pc = "idle"
    <3>1. InFlight' = {}
      BY <1>2, <2>3, <2>4 DEF InFlight
    <3>2. InMemory(disk)'
      BY <2>2, <2>4 DEF InMemory
    <3>3. QED
      BY <1>1, <3>1, <3>2 DEF CleanHolds
  <2>5. CASE x.pc # "idle"
    <3>1. InFlight' = {s}
      BY <1>2, <2>3, <2>5 DEF InFlight
    <3>2. InMemory(saver[s].file)'
      BY <1>2, <2>2, <2>5 DEF InMemory
    <3>3. QED
      BY <1>1, <1>2, <2>5, <3>1, <3>2 DEF CleanHolds
  <2>6. QED
    BY <2>4, <2>5
<1>6. QED
  BY <1>3, <1>4, <1>5 DEF ConfigInv

LEMMA SaveStepKeeps ==
    ASSUME ConfigInv, NEW s \in Saver, SaveTruncates(s) \/ SaveWrites(s) \/ SaveFails(s)
    PROVE  ConfigInv'
<1>1. /\ saver \in [Saver -> SaverRecord] /\ clean \in BOOLEAN
      /\ saver[s].pc # "idle" => /\ SoundFile(saver[s].file)
                                 /\ saver[s].file.kind = "file"
  BY DEF ConfigInv, SaversHold, MemoryHolds
<1>2. NoSave \in SaverRecord /\ NoSave.pc = "idle"
  BY DEF NoSave, SaverRecord
<1>3. saver[s].pc # "idle" => SoundFile(Torn(saver[s].file))
  BY <1>1 DEF SoundFile, Torn, FileRecord
<1>4. CASE SaveTruncates(s)
  <2>1. PICK x : x = [pc |-> "write", file |-> saver[s].file]
    OBVIOUS
  <2>2. x \in SaverRecord /\ x.pc = "write" /\ x.file = saver[s].file
    BY <1>1, <1>4, <2>1 DEF SaveTruncates, SoundFile, SaverRecord
  <2>3. DiskHolds'
    BY <1>4 DEF SaveTruncates, DiskHolds
  <2>4. QED
    BY <1>1, <1>4, <2>1, <2>2, <2>3, SaveKeeps DEF SaveTruncates
<1>5. CASE SaveWrites(s)
  <2>1. DiskHolds'
    BY <1>1, <1>5 DEF SaveWrites, DiskHolds
  <2>2. ASSUME clean PROVE disk' = saver[s].file
    <3>1. s \in InFlight
      BY <1>5 DEF SaveWrites, InFlight
    <3>2. disk = Empty
      BY <1>5, <2>2, <3>1 DEF SaveWrites, ConfigInv, CleanHolds
    <3>3. Size(disk) = 0
      BY <3>2 DEF Size, Empty
    <3>4. PICK f : f = saver[s].file
      OBVIOUS
    <3>5. Size(saver[s].file) \in Nat
      <4>1. f.list \in Seq(Entry) /\ f.remotes \in Seq(RemoteConfig) /\ f.kind = "file"
        BY <1>1, <1>5, <3>4 DEF SaveWrites, SoundFile, FileRecord
      <4>2. Len(f.list) \in Nat /\ Len(f.remotes) \in Nat
        BY <4>1
      <4>3. Size(f) = Len(f.list) + Len(f.remotes)
        BY <4>1 DEF Size
      <4>4. \A i, j \in Nat : i + j \in Nat
        OBVIOUS
      <4>5. Size(f) \in Nat
        BY <4>2, <4>3, <4>4
      <4>6. QED
        BY <3>4, <4>5
    <3>6. ~(Size(saver[s].file) < Size(disk))
      BY <3>3, <3>5
    <3>7. QED
      BY <1>5, <3>6 DEF SaveWrites
  <2>3. QED
    BY <1>1, <1>2, <1>5, <2>1, <2>2, SaveKeeps DEF SaveWrites
<1>6. CASE SaveFails(s)
  <2>1. DiskHolds'
    BY <1>1, <1>3, <1>6 DEF SaveFails, DiskHolds, ConfigInv
  <2>2. QED
    BY <1>1, <1>2, <1>6, <2>1, SaveKeeps DEF SaveFails
<1>7. QED
  BY <1>4, <1>5, <1>6

(* The process ends. *)
LEMMA CrashKeeps ==
    ASSUME ConfigInv, Crash
    PROVE  ConfigInv'
<1>1. SoundList(<<>>) /\ SoundRemotes(<<>>)
  BY DEF SoundList, SoundRemotes, Distinct, Separate
<1>2. MemoryHolds'
  BY <1>1, DefaultEnabled DEF Crash, ConfigInv, MemoryHolds
<1>3. saver' \in [Saver -> SaverRecord] /\ \A s \in Saver : saver'[s].pc = "idle"
  BY DEF Crash, NoSave, SaverRecord
<1>4. SaversHold'
  BY <1>3 DEF SaversHold
<1>5. InFlight' = {}
  BY <1>3 DEF InFlight
<1>6. DiskHolds'
  BY DEF Crash, ConfigInv, DiskHolds
<1>7. clean' => disk'.kind = "file"
  BY DEF Crash, ConfigInv, CleanHolds, MemoryHolds, InMemory
<1>8. CleanHolds'
  BY <1>5, <1>7 DEF Crash, CleanHolds
<1>9. QED
  BY <1>2, <1>4, <1>6, <1>8 DEF ConfigInv

(* A start finds no Save in flight. *)
LEMMA StoppedIsQuiet ==
    ASSUME ConfigInv, ~running
    PROVE  InFlight = {}
BY DEF ConfigInv, SaversHold, InFlight

LEMMA initNewKeeps ==
    ASSUME ConfigInv, initNew
    PROVE  ConfigInv'
<1>1. /\ ~running /\ running' /\ key' = 1 /\ disk' = File(<<>>, <<>>, defaultConfig, 1)
      /\ UNCHANGED <<list, remotes, net, saver, clean, edits>>
      /\ list = <<>> /\ remotes = <<>> /\ net = defaultConfig
      /\ SoundList(<<>>) /\ SoundRemotes(<<>>)
  BY DEF initNew, ConfigInv, MemoryHolds
<1>2. InFlight = {} /\ InFlight' = {}
  BY <1>1, StoppedIsQuiet DEF InFlight
<1>3. PICK f : f = File(<<>>, <<>>, defaultConfig, 1)
  OBVIOUS
<1>4. /\ SoundFile(f) /\ f.kind = "file" /\ f.list = <<>> /\ f.remotes = <<>>
      /\ f.net = defaultConfig
  BY <1>1, <1>3, FileIsSound, DefaultEnabled
<1>5. MemoryHolds'
  BY <1>1, DefaultEnabled DEF initNew, ConfigInv, MemoryHolds
<1>6. SaversHold'
  BY <1>1 DEF ConfigInv, SaversHold
<1>7. DiskHolds'
  BY <1>1, <1>3, <1>4 DEF DiskHolds
<1>8. InMemory(disk)'
  BY <1>1, <1>3, <1>4 DEF InMemory
<1>9. CleanHolds'
  BY <1>1, <1>2, <1>8 DEF CleanHolds
<1>10. QED
  BY <1>5, <1>6, <1>7, <1>9 DEF ConfigInv

LEMMA initNewFailsKeeps ==
    ASSUME ConfigInv, initNewFails
    PROVE  ConfigInv'
<1>1. MemoryHolds'
  BY DEF initNewFails, ConfigInv, MemoryHolds
<1>2. SaversHold'
  BY DEF initNewFails, ConfigInv, SaversHold
<1>3. DiskHolds' /\ CleanHolds'
  BY DEF initNewFails, DiskHolds, CleanHolds
<1>4. QED
  BY <1>1, <1>2, <1>3 DEF ConfigInv

(* Load accepts a file, whole or cut off; the entries that are left of a   *)
(* list are its first ones.                                                *)
LEMMA LoadKeeps ==
    ASSUME ConfigInv, Load
    PROVE  ConfigInv'
<1>1. /\ ~running /\ running' /\ disk.kind \in {"file", "torn"} /\ key' = disk.key
      /\ net' = NormalizeNetworkBackend(disk.net)
      /\ UNCHANGED <<saver, disk, clean, edits>> /\ clean \in BOOLEAN
  BY DEF Load, ConfigInv, MemoryHolds
<1>2. SoundFile(disk)
  BY <1>1 DEF ConfigInv, DiskHolds, Missing, Empty, Mixed
<1>3. /\ SoundList(disk.list) /\ SoundRemotes(disk.remotes) /\ disk.net \in NetworkConfig
      /\ disk.key = 1 /\ disk.list \in Seq(Entry) /\ disk.remotes \in Seq(RemoteConfig)
  BY <1>2 DEF SoundFile, FileRecord, SoundList, SoundRemotes
<1>4. PICK i \in 0..Len(disk.list), j \in 0..Len(disk.remotes) :
         /\ disk.kind = "file" => i = Len(disk.list) /\ j = Len(disk.remotes)
         /\ list' = SubSeq(disk.list, 1, i) /\ remotes' = SubSeq(disk.remotes, 1, j)
  BY DEF Load
<1>5. SoundList(list') /\ SoundRemotes(remotes')
  BY <1>3, <1>4, PrefixSound
<1>6. Enabled(net') /\ NormalizeNetworkBackend(net') = NormalizeNetworkBackend(disk.net)
  BY <1>1, <1>3, NormalizeEnables, NormalizeOnce
<1>7. MemoryHolds'
  BY <1>1, <1>3, <1>5, <1>6 DEF MemoryHolds
<1>8. SaversHold'
  BY <1>1 DEF ConfigInv, SaversHold
<1>9. DiskHolds'
  BY <1>1 DEF ConfigInv, DiskHolds
<1>10. CleanHolds'
  <2> SUFFICES ASSUME clean' PROVE CleanHolds'
    BY DEF CleanHolds
  <2>1. InFlight' = {}
    BY <1>1, StoppedIsQuiet DEF InFlight
  <2>2. disk.kind = "file"
    BY <1>1 DEF ConfigInv, CleanHolds, Missing
  <2>3. SubSeq(disk.list, 1, i) = disk.list /\ SubSeq(disk.remotes, 1, j) = disk.remotes
    BY <1>3, <1>4, <2>2, PrefixKept
  <2>4. InMemory(disk)'
    BY <1>1, <1>4, <1>6, <2>2, <2>3 DEF InMemory
  <2>5. QED
    BY <1>1, <2>1, <2>4 DEF CleanHolds
<1>11. QED
  BY <1>7, <1>8, <1>9, <1>10 DEF ConfigInv

(* The handlers that edit the configuration. *)
LEMMA HandlerKeeps ==
    ASSUME ConfigInv,
           \/ \E p \in Candidate : PairingAdds(p)
           \/ \E n \in Nodes : RevokeCleansUp(n) \/ handleDeleteAllowed(n)
           \/ \E r \in Remote : handleAddRemote(r)
           \/ \E k \in Keys : handleDeleteRemote(k)
           \/ \E n \in Nodes, a \in Addr : updateRemoteAddrs(n, a)
           \/ \E n \in Setting : handleConfig(n)
           \/ Rename
    PROVE  ConfigInv'
<1>1. SoundList(list) /\ SoundRemotes(remotes) /\ net \in NetworkConfig
  BY DEF ConfigInv, MemoryHolds, Enabled
<1>2. ASSUME NEW p \in Candidate, PairingAdds(p) PROVE ConfigInv'
  <2>1. SoundList(AddTrustedPeer(list, p))
    BY <1>1, ConfigAssumption, AddKeepsList
  <2>2. QED
    BY <1>1, <1>2, <2>1, EditKeeps DEF PairingAdds
<1>3. ASSUME NEW n \in Nodes, RevokeCleansUp(n) PROVE ConfigInv'
  <2>1. SoundList(RemoveTrustedPeer(list, n))
    BY <1>1, RemoveKeepsList
  <2>2. SoundRemotes(RemoveRemote(remotes, n))
    BY <1>1, WithoutKeepsRemotes DEF RemoveRemote
  <2>3. QED
    BY <1>1, <1>3, <2>1, <2>2, EditKeeps DEF RevokeCleansUp
<1>4. ASSUME NEW n \in Nodes, handleDeleteAllowed(n) PROVE ConfigInv'
  <2>1. SoundList(WithoutNode(list, n))
    BY <1>1, WithoutNodeKeepsList
  <2>2. QED
    BY <1>1, <1>4, <2>1, EditKeeps DEF handleDeleteAllowed
<1>5. ASSUME NEW r \in Remote, handleAddRemote(r) PROVE ConfigInv'
  <2>1. SoundRemotes(AddRemote(remotes, r))
    BY <1>1, ConfigAssumption, AddRemoteKeeps
  <2>2. QED
    BY <1>1, <1>5, <2>1, EditKeeps DEF handleAddRemote
<1>6. ASSUME NEW k \in Keys, handleDeleteRemote(k) PROVE ConfigInv'
  <2>1. SoundRemotes(RemoveRemoteService(remotes, k))
    BY <1>1, WithoutKeepsRemotes DEF RemoveRemoteService
  <2>2. QED
    BY <1>1, <1>6, <2>1, EditKeeps DEF handleDeleteRemote
<1>7. ASSUME NEW n \in Nodes, NEW a \in Addr, updateRemoteAddrs(n, a) PROVE ConfigInv'
  <2> DEFINE pos == {i \in DOMAIN remotes : remotes[i].NodeID = n}
  <2>1. pos \in SUBSET (Nat \ {0})
    BY <1>1 DEF SoundRemotes
  <2>2. PICK k : k = First(pos)
    OBVIOUS
  <2>3. k # 0 /\ EditAndSave(list, [remotes EXCEPT ![k].RelayAddrs = {a}], net)
    BY <1>7, <2>2 DEF updateRemoteAddrs
  <2>4. k \in DOMAIN remotes
    BY <2>1, <2>2, <2>3, FirstFinds
  <2>5. SoundRemotes([remotes EXCEPT ![k].RelayAddrs = {a}])
    BY <1>1, <2>4, NewAddrsKeepRemotes
  <2> HIDE DEF pos
  <2>6. QED
    BY <1>1, <2>3, <2>5, EditKeeps
<1>8. ASSUME NEW n \in Setting, handleConfig(n) PROVE ConfigInv'
  BY <1>1, <1>8, ConfigAssumption, EditKeeps DEF handleConfig
<1>9. ASSUME Rename PROVE ConfigInv'
  BY <1>1, <1>9, EditKeeps DEF Rename
<1>10. QED
  BY <1>2, <1>3, <1>4, <1>5, <1>6, <1>7, <1>8, <1>9

LEMMA ConfigInvStep == ConfigInv /\ [ConfigNext]_configVars => ConfigInv'
<1> SUFFICES ASSUME ConfigInv, [ConfigNext]_configVars PROVE ConfigInv'
  OBVIOUS
<1>1. CASE UNCHANGED configVars
  BY <1>1 DEF configVars, ConfigInv, MemoryHolds, SaversHold, DiskHolds, CleanHolds, InMemory,
              InFlight
<1>2. CASE ConfigNext
  <2>1. ASSUME NEW s \in Saver, SaveTruncates(s) \/ SaveWrites(s) \/ SaveFails(s)
        PROVE  ConfigInv'
    BY <2>1, SaveStepKeeps
  <2>2. CASE Crash
    BY <2>2, CrashKeeps
  <2>3. CASE Start
    BY <2>3, initNewKeeps, initNewFailsKeeps, LoadKeeps DEF Start
  <2>4. QED
    BY <1>2, <2>1, <2>2, <2>3, HandlerKeeps DEF ConfigNext
<1>3. QED
  BY <1>1, <1>2

(* Whatever edits, Saves, failures, crashes and restarts follow each       *)
(* other, the memory, the Saves in flight and the file stay related as     *)
(* ConfigInv says.                                                         *)
THEOREM ConfigInvariant == ConfigSpec => []ConfigInv
<1>1. ConfigInit => ConfigInv
  BY ConfigInvInit
<1>2. ConfigInv /\ [ConfigNext]_configVars => ConfigInv'
  BY ConfigInvStep
<1>3. QED
  BY <1>1, <1>2, PTL DEF ConfigSpec

(* The configuration is sound after every edit and every restart: no       *)
(* machine and no service is listed twice, and the backend for new links   *)
(* is enabled.                                                             *)
THEOREM ConfigIsSoundHolds == ConfigSpec => []ConfigIsSound
<1>1. ConfigInv => ConfigIsSound
  <2> SUFFICES ASSUME ConfigInv PROVE ConfigIsSound
    OBVIOUS
  <2>1. /\ list \in Seq(Entry) /\ Distinct(list)
        /\ remotes \in Seq(RemoteConfig) /\ Separate(remotes)
        /\ running \in BOOLEAN /\ key \in {0, 1} /\ Enabled(net)
    BY DEF ConfigInv, MemoryHolds, SoundList, SoundRemotes
  <2>2. \A i \in DOMAIN list :
          \E p \in Candidate : list[i].MachineID = p.MachineID /\ list[i].NodeID \in Nodes
    <3>1. \A i \in DOMAIN list : list[i] \in Entry
      BY <2>1
    <3>2. \A e \in Entry : /\ e.NodeID \in {p.NodeID : p \in Candidate}
                           /\ e.MachineID \in {p.MachineID : p \in Candidate}
      BY DEF Entry
    <3>3. \A e \in Entry : e.NodeID \in Nodes /\ \E p \in Candidate : e.MachineID = p.MachineID
      BY <3>2 DEF Nodes
    <3>4. QED
      BY <3>1, <3>3
  <2>3. \A i \in DOMAIN remotes : remotes[i].NodeID \in {r.NodeID : r \in Remote}
    <3>1. \A i \in DOMAIN remotes : remotes[i] \in RemoteConfig
      BY <2>1
    <3>2. \A e \in RemoteConfig : e.NodeID \in {r.NodeID : r \in Remote}
      BY DEF RemoteConfig
    <3>3. QED
      BY <3>1, <3>2
  <2>4. key \in 0..2
    BY <2>1
  <2>5. QED
    BY <2>1, <2>2, <2>3, <2>4 DEF ConfigIsSound, Separate, Enabled
<1>2. QED
  BY <1>1, ConfigInvariant, PTL

(* A Save that met no other Save, no failure and no crash left in the file *)
(* what is in memory.                                                      *)
THEOREM SavesLandHolds == ConfigSpec => []SavesLand
<1>1. ConfigInv => SavesLand
  BY DEF ConfigInv, CleanHolds, InMemory, SavesLand
<1>2. QED
  BY <1>1, ConfigInvariant, PTL

(* A running machine has the key it was first started with. *)
THEOREM KeyNeverChangesHolds == ConfigSpec => []KeyNeverChanges
<1>1. ConfigInv => KeyNeverChanges
  BY DEF ConfigInv, MemoryHolds, KeyNeverChanges
<1>2. QED
  BY <1>1, ConfigInvariant, PTL

(* Pairing adds one machine and replaces only itself; revoking and         *)
(* deleting take away the trust of one node and of no other.               *)
THEOREM EditsAreExactHolds == ConfigSpec => EditsAreExact
<1> DEFINE Exact ==
      /\ \A p \in Candidate : PairingAdds(p) => ReplacesOnlyItself(p)
      /\ \A n \in Nodes : RevokeCleansUp(n) \/ handleDeleteAllowed(n) =>
                          TrustedNow' = TrustedNow \ {n}
<1>1. ConfigInv /\ [ConfigNext]_configVars => [Exact]_configVars
  <2> SUFFICES ASSUME ConfigInv PROVE Exact
    OBVIOUS
  <2>1. list \in Seq(Entry) /\ Distinct(list) /\ \A i \in DOMAIN list : list[i] \in Entry
    BY DEF ConfigInv, MemoryHolds, SoundList
  <2>2. \A i \in DOMAIN list : list[i].NodeID \in Nodes /\ list[i].NodeID # NoID
    BY <2>1, ConfigAssumption DEF Entry, Nodes
  <2>3. ASSUME NEW p \in Candidate, PairingAdds(p) PROVE ReplacesOnlyItself(p)
    <3>1. list' = AddTrustedPeer(list, p)
      BY <2>3 DEF PairingAdds, EditAndSave
    <3>2. p.NodeID # NoID /\ p.NodeID \in Nodes
      BY ConfigAssumption DEF Nodes
    <3>3. /\ IsTrusted(list', p.NodeID)
          /\ \A i \in DOMAIN list : ~sameTrustedMachine(list[i], p) =>
                                    IsTrusted(list', list[i].NodeID)
      BY <2>1, <3>1, <3>2, AddTrusts
    <3>4. TrustedNow' = {n \in Nodes : IsTrusted(list', n)}
      BY DEF TrustedNow
    <3>5. QED
      BY <2>2, <3>2, <3>3, <3>4 DEF ReplacesOnlyItself
  <2>4. ASSUME NEW n \in Nodes, RevokeCleansUp(n) \/ handleDeleteAllowed(n)
        PROVE  TrustedNow' = TrustedNow \ {n}
    <3>1. \A m : IsTrusted(list', m) <=> (IsTrusted(list, m) /\ m # n)
      <4>1. CASE RevokeCleansUp(n)
        <5>1. list' = RemoveTrustedPeer(list, n)
          BY <4>1 DEF RevokeCleansUp, EditAndSave
        <5>2. \A m : IsTrusted(RemoveTrustedPeer(list, n), m) <=> (IsTrusted(list, m) /\ m # n)
          BY <2>1, <2>2, RemoveUntrusts
        <5>3. QED
          BY <5>1, <5>2
      <4>2. CASE handleDeleteAllowed(n)
        <5>1. list' = WithoutNode(list, n)
          BY <4>2 DEF handleDeleteAllowed, EditAndSave
        <5>2. \A m : IsTrusted(WithoutNode(list, n), m) <=> (IsTrusted(list, m) /\ m # n)
          BY <2>1, WithoutNodeUntrusts
        <5>3. QED
          BY <5>1, <5>2
      <4>3. QED
        BY <2>4, <4>1, <4>2
    <3>2. TrustedNow' = {m \in Nodes : IsTrusted(list', m)}
      BY DEF TrustedNow
    <3>3. QED
      BY <3>1, <3>2 DEF TrustedNow
  <2>5. QED
    BY <2>3, <2>4
<1>2. QED
  BY <1>1, ConfigInvariant, PTL DEF ConfigSpec, EditsAreExact
=============================================================================
