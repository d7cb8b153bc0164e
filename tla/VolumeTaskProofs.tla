-------------------------- MODULE VolumeTaskProofs --------------------------
(***************************************************************************)
(* Proofs about the devices that one task owns and users take turns with:  *)
(* DFU volumes, the storage of rockusb, the targets that upload at         *)
(* shutdown, all callers of a fastboot device and one of its targets (Spec *)
(* of Fastboot), for any number of users, writes and failures.             *)
(***************************************************************************)
EXTENDS Dfu, RockusbLoader, UploadTargets, FastbootVolume, Fastboot, FiniteSetTheorems, TLAPS

\* A sequence is a function; what it is after something is added at its end, or
\* changed in its middle.
LEMMA AppendGrows ==
  ASSUME NEW S, NEW s \in Seq(S), NEW e \in S
  PROVE  /\ Append(s, e) \in Seq(S) /\ Len(s) \in Nat /\ Len(Append(s, e)) = Len(s) + 1
         /\ Append(s, e)[Len(s) + 1] = e
         /\ \A i \in 1 .. Len(s) : Append(s, e)[i] = s[i]
         /\ DOMAIN s = 1 .. Len(s) /\ DOMAIN Append(s, e) = 1 .. Len(s) + 1
  OBVIOUS

LEMMA CountTo == \A n \in Nat : IsFiniteSet(1 .. n) /\ Cardinality(1 .. n) = n
<1>1. ASSUME NEW n \in Nat PROVE IsFiniteSet(1 .. n) /\ Cardinality(1 .. n) = n
  <2>1. 1 \in Int /\ n \in Int /\ (IF 1 > n THEN 0 ELSE n - 1 + 1) = n
    OBVIOUS
  <2>2. IsFiniteSet(1 .. n) /\ Cardinality(1 .. n) = IF 1 > n THEN 0 ELSE n - 1 + 1
    BY <2>1, FS_Interval
  <2> QED
    BY <2>1, <2>2
<1> QED
  BY <1>1

LEMMA SeqIsFunction ==
  ASSUME NEW S, NEW g \in Seq(S)
  PROVE  g \in [1 .. Len(g) -> S]
  OBVIOUS

LEMMA SeqWidens ==
  ASSUME NEW S, NEW T, S \subseteq T, NEW s \in Seq(S)
  PROVE  s \in Seq(T)
  OBVIOUS

LEMMA Changes ==
  ASSUME NEW S, NEW s \in Seq(S), NEW i \in DOMAIN s, NEW e \in S
  PROVE  /\ [s EXCEPT ![i] = e] \in Seq(S) /\ Len([s EXCEPT ![i] = e]) = Len(s)
         /\ DOMAIN [s EXCEPT ![i] = e] = DOMAIN s
  OBVIOUS

LEMMA Grows ==
  ASSUME NEW S, NEW n \in Nat, NEW f \in [1 .. n -> S], NEW e \in S
  PROVE  /\ Append(f, e) \in [1 .. n + 1 -> S] /\ Append(f, e)[n + 1] = e
         /\ \A i \in 1 .. n : Append(f, e)[i] = f[i]
<1>1. f \in Seq(S) /\ Len(f) = n
  OBVIOUS
<1>2. /\ Append(f, e) \in Seq(S) /\ Len(Append(f, e)) = n + 1 /\ Append(f, e)[n + 1] = e
      /\ \A i \in 1 .. n : Append(f, e)[i] = f[i]
  BY <1>1, AppendGrows
<1> QED
  BY <1>2, SeqIsFunction

LEMMA Largest ==
  ASSUME NEW n \in Nat, NEW T \in SUBSET (1 .. n), T # {}
  PROVE  \E m \in T : \A j \in T : j <= m
<1> DEFINE G == {n - i : i \in T}
           R == OpToRel(<, Nat)
<1>1. G \subseteq Nat /\ G # {}
  <2>1. \A i \in T : n - i \in Nat
    OBVIOUS
  <2> QED
    BY <2>1
<1>2. \E x \in G : \A y \in G : ~ (<<y, x>> \in R)
  <2> HIDE DEF G, R
  <2>1. IsWellFoundedOn(R, Nat)
    BY NatLessThanWellFounded DEF R
  <2> QED
    BY <1>1, <2>1, WFMin
<1>3. PICK x \in G : \A y \in G : ~ (<<y, x>> \in R)
  BY <1>2
<1>4. \A y \in G : ~ (y < x)
  BY <1>1, <1>3 DEF OpToRel
<1>5. PICK m \in T : x = n - m
  BY <1>3
<1>6. ASSUME NEW j \in T PROVE j <= m
  <2>1. ~ (n - j < n - m)
    BY <1>4, <1>5
  <2> QED
    BY <2>1
<1> QED
  BY <1>6

-----------------------------------------------------------------------------
(* DFU volumes. *)

DownloadOf(d) == [op |-> "download", of |-> d]
ResetOf(c) == [op |-> "reset", of |-> c]
DfuCommands == {DownloadOf(d) : d \in Downloads} \cup {ResetOf(c) : c \in DOMAIN commits}

\* What has been answered has been delivered or is in the channel, as long as the
\* download has not ended: it ends when the target is closed and all is delivered, or
\* by failing.
DownloadOK(d) ==
  /\ \A i \in 1 .. Len(acked[d]) : acked[d][i] = i
  /\ \A i \in 1 .. Len(delivered[d]) : delivered[d][i] = i
  /\ writing[d] \in {0, Len(acked[d]) + 1} /\ (writing[d] # 0 => target[d] = "open")
  /\ data[d] = << >> \/ data[d] = <<Len(acked[d])>>
  /\ download[d] \in {"waiting", "running"} => Len(acked[d]) = Len(delivered[d]) + Len(data[d])
  /\ Len(delivered[d]) <= Len(acked[d])
  /\ download[d] = "ended" => target[d] = "closed" /\ Len(delivered[d]) = Len(acked[d])
  /\ download[d] = "failed" => data[d] = << >>
  /\ target[d] = "opening" => download[d] = "waiting"

\* The command of a download is where its state says: in the channel, or carried out.
TurnOK(d) ==
  /\ download[d] = "waiting" /\ target[d] # "opening" => control = <<DownloadOf(d)>>
  /\ control = <<DownloadOf(d)>> => download[d] = "waiting" /\ target[d] # "opening"
  /\ download[d] = "running" <=> current = DownloadOf(d)

\* A reset that is in the channel has no download before it there, one that is carried
\* out has none before it at all.
CommitOK(c) ==
  /\ \A d \in before[c] : target[d] # "opening"
  /\ control = <<ResetOf(c)>> => \A d \in before[c] : download[d] # "waiting"
  /\ current = ResetOf(c) \/ commits[c] = "done" =>
       \A d \in before[c] : download[d] \in {"ended", "failed"}

DfuIInv ==
  /\ DfuTypeOK
  /\ control = << >> \/ \E k \in DfuCommands : control = <<k>>
  /\ \A d \in Downloads : DownloadOK(d) /\ TurnOK(d)
  /\ \A c \in DOMAIN commits : CommitOK(c)

LEMMA DfuCommandsDiffer ==
  /\ \A d, c : DownloadOf(d) # ResetOf(c) /\ DownloadOf(d) # Nothing /\ ResetOf(c) # Nothing
  /\ \A d, c : DownloadOf(d).op = "download" /\ DownloadOf(d).of = d
  /\ \A d, c : ResetOf(c).op = "reset" /\ ResetOf(c).of = c
  /\ \A d, e : DownloadOf(d) = DownloadOf(e) => d = e
  /\ \A d, e : ResetOf(d) = ResetOf(e) => d = e
  /\ \A d : Running(d) <=> current = DownloadOf(d)
  BY DEF DownloadOf, ResetOf, Nothing, Running

LEMMA DfuCurrent ==
  ASSUME DfuTypeOK
  PROVE  current = Nothing \/ current \in DfuCommands
  BY DEF DfuTypeOK, DfuCommands, DownloadOf, ResetOf

LEMMA DfuInitInv == DfuInit => DfuIInv
<1> SUFFICES ASSUME DfuInit PROVE DfuIInv
  OBVIOUS
<1> USE DEF DfuInit
<1>1. Downloads = {} /\ DOMAIN commits = {} /\ Len(target) = 0 /\ Len(commits) = 0 /\ Len(control) = 0
  BY DEF Downloads
<1>2. << >> \in Seq({"opening", "open", "closed"}) /\ << >> \in Seq({"calling", "sent", "done"})
  OBVIOUS
<1>3. \A S : << >> \in [{} -> S]
  OBVIOUS
<1>4. DfuTypeOK
  BY <1>1, <1>2, <1>3, DfuAssumption DEF DfuTypeOK
<1> QED
  BY <1>1, <1>4 DEF DfuIInv

LEMMA OpenInv ==
  ASSUME DfuIInv, Open
  PROVE  DfuIInv'
<1> PICK n : n = Len(target)
  OBVIOUS
<1> USE DEF DfuIInv
<1>1. n \in Nat /\ n < MaxOpens /\ Downloads = 1 .. n
  BY DEF Open, DfuTypeOK, Downloads
<1>18. /\ writing \in Seq(0 .. MaxWrites) /\ acked \in Seq(Seq(1 .. MaxWrites))
       /\ data \in Seq(Seq(1 .. MaxWrites)) /\ delivered \in Seq(Seq(1 .. MaxWrites))
       /\ download \in Seq({"waiting", "running", "ended", "failed"})
       /\ Len(writing) = n /\ Len(acked) = n /\ Len(data) = n /\ Len(delivered) = n /\ Len(download) = n
       /\ 0 \in 0 .. MaxWrites
  <2>1. /\ writing \in [1 .. n -> 0 .. MaxWrites] /\ acked \in [1 .. n -> Seq(1 .. MaxWrites)]
        /\ data \in [1 .. n -> Seq(1 .. MaxWrites)] /\ delivered \in [1 .. n -> Seq(1 .. MaxWrites)]
        /\ download \in [1 .. n -> {"waiting", "running", "ended", "failed"}]
    BY <1>1 DEF DfuTypeOK
  <2>2. writing \in Seq(0 .. MaxWrites) /\ Len(writing) = n
    <3>1. \A S, f : f \in [1 .. n -> S] => f \in Seq(S) /\ Len(f) = n
      BY <1>1
    <3> QED
      BY <2>1, <3>1, Zenon
  <2>3. acked \in Seq(Seq(1 .. MaxWrites)) /\ Len(acked) = n
    BY <1>1, <2>1
  <2>4. data \in Seq(Seq(1 .. MaxWrites)) /\ Len(data) = n
    BY <1>1, <2>1
  <2>5. delivered \in Seq(Seq(1 .. MaxWrites)) /\ Len(delivered) = n
    BY <1>1, <2>1
  <2>6. download \in Seq({"waiting", "running", "ended", "failed"}) /\ Len(download) = n
    BY <1>1, <2>1
  <2> QED
    BY <2>2, <2>3, <2>4, <2>5, <2>6, DfuAssumption
<1>2. /\ target' = Append(target, "opening") /\ writing' = Append(writing, 0)
      /\ acked' = Append(acked, << >>) /\ data' = Append(data, << >>)
      /\ download' = Append(download, "waiting") /\ delivered' = Append(delivered, << >>)
      /\ UNCHANGED <<control, current, commits, before>>
  BY DEF Open, commitVars
<1>3. /\ target' \in Seq({"opening", "open", "closed"}) /\ Len(target') = n + 1
      /\ target'[n + 1] = "opening" /\ \A d \in 1 .. n : target'[d] = target[d]
  BY <1>1, <1>2, AppendGrows DEF DfuTypeOK
<1>4. Downloads' = 1 .. n + 1
  BY <1>3 DEF Downloads
<1>6. << >> \in Seq(1 .. MaxWrites)
  OBVIOUS
<1>5. /\ writing' \in [1 .. n + 1 -> 0 .. MaxWrites] /\ writing'[n + 1] = 0
      /\ \A d \in 1 .. n : writing'[d] = writing[d]
  <2>1. writing' \in Seq(0 .. MaxWrites) /\ Len(writing') = n + 1 /\ writing'[n + 1] = 0 /\ \A d \in 1 .. n : writing'[d] = writing[d]
    BY <1>2, <1>6, <1>18, AppendGrows
  <2> QED
    BY <2>1, SeqIsFunction
<1>7. /\ acked' \in [1 .. n + 1 -> Seq(1 .. MaxWrites)] /\ acked'[n + 1] = << >>
      /\ \A d \in 1 .. n : acked'[d] = acked[d]
  <2>1. acked' \in Seq(Seq(1 .. MaxWrites)) /\ Len(acked') = n + 1 /\ acked'[n + 1] = << >> /\ \A d \in 1 .. n : acked'[d] = acked[d]
    BY <1>2, <1>6, <1>18, AppendGrows
  <2> QED
    BY <2>1, SeqIsFunction
<1>8. /\ data' \in [1 .. n + 1 -> Seq(1 .. MaxWrites)] /\ data'[n + 1] = << >>
      /\ \A d \in 1 .. n : data'[d] = data[d]
  <2>1. data' \in Seq(Seq(1 .. MaxWrites)) /\ Len(data') = n + 1 /\ data'[n + 1] = << >> /\ \A d \in 1 .. n : data'[d] = data[d]
    BY <1>2, <1>6, <1>18, AppendGrows
  <2> QED
    BY <2>1, SeqIsFunction
<1>9. /\ delivered' \in [1 .. n + 1 -> Seq(1 .. MaxWrites)] /\ delivered'[n + 1] = << >>
      /\ \A d \in 1 .. n : delivered'[d] = delivered[d]
  <2>1. delivered' \in Seq(Seq(1 .. MaxWrites)) /\ Len(delivered') = n + 1 /\ delivered'[n + 1] = << >> /\ \A d \in 1 .. n : delivered'[d] = delivered[d]
    BY <1>2, <1>6, <1>18, AppendGrows
  <2> QED
    BY <2>1, SeqIsFunction
<1>10. /\ download' \in [1 .. n + 1 -> {"waiting", "running", "ended", "failed"}]
       /\ download'[n + 1] = "waiting" /\ \A d \in 1 .. n : download'[d] = download[d]
  <2>1. download' \in Seq({"waiting", "running", "ended", "failed"}) /\ Len(download') = n + 1 /\ download'[n + 1] = "waiting" /\ \A d \in 1 .. n : download'[d] = download[d]
    BY <1>2, <1>6, <1>18, AppendGrows
  <2> QED
    BY <2>1, SeqIsFunction
<1>11. Downloads \subseteq Downloads' /\ DfuCommands \subseteq DfuCommands'
  BY <1>1, <1>2, <1>4 DEF DfuCommands, DownloadOf, ResetOf
<1>12. DfuTypeOK'
  <2>1. ASSUME NEW d \in Downloads' PROVE Len(data'[d]) <= 1
    <3>1. CASE d = n + 1
      BY <1>8, <3>1
    <3>2. CASE d \in 1 .. n
      BY <1>1, <1>8, <3>2 DEF DfuTypeOK
    <3> QED
      BY <1>1, <1>4, <3>1, <3>2
  <2>2. before' \in [DOMAIN commits' -> SUBSET Downloads']
    BY <1>2, <1>11 DEF DfuTypeOK
  <2>3. current' \in {Nothing} \cup [op : {"download"}, of : Downloads']
                       \cup [op : {"reset"}, of : DOMAIN commits']
    BY <1>2, <1>11 DEF DfuTypeOK
  <2>4. Len(target') <= MaxOpens
    BY <1>1, <1>3, DfuAssumption
  <2> QED
    BY <1>2, <1>3, <1>4, <1>5, <1>7, <1>8, <1>9, <1>10, <2>1, <2>2, <2>3, <2>4 DEF DfuTypeOK
<1>13. DfuTypeOK /\ control # <<DownloadOf(n + 1)>> /\ current # DownloadOf(n + 1)
  <2>1. n + 1 \notin Downloads
    BY <1>1
  <2>2. \A k \in DfuCommands \cup {Nothing} : k # DownloadOf(n + 1)
    BY <2>1, DfuCommandsDiffer DEF DfuCommands
  <2> QED
    BY <2>2, DfuCurrent
<1>14. DownloadOK(n + 1)' /\ TurnOK(n + 1)'
  <2>1. DownloadOK(n + 1)'
    BY <1>3, <1>5, <1>7, <1>8, <1>9, <1>10 DEF DownloadOK
  <2>2. TurnOK(n + 1)'
    BY <1>2, <1>3, <1>10, <1>13 DEF TurnOK, DownloadOf
  <2> QED
    BY <2>1, <2>2
<1>15. ASSUME NEW d \in 1 .. n PROVE DownloadOK(d)' /\ TurnOK(d)'
  <2>1. DownloadOK(d) /\ TurnOK(d)
    BY <1>1
  <2>4. /\ target'[d] = target[d] /\ writing'[d] = writing[d] /\ acked'[d] = acked[d]
        /\ data'[d] = data[d] /\ download'[d] = download[d] /\ delivered'[d] = delivered[d]
    BY <1>3, <1>5, <1>7, <1>8, <1>9, <1>10
  <2>2. DownloadOK(d)'
    BY <2>1, <2>4 DEF DownloadOK
  <2>3. TurnOK(d)'
    BY <2>1, <1>2, <1>3, <1>10 DEF TurnOK, DownloadOf
  <2> QED
    BY <2>2, <2>3
<1>16. ASSUME NEW c \in DOMAIN commits PROVE CommitOK(c)'
  <2>1. CommitOK(c) /\ before[c] \subseteq Downloads
    BY DEF DfuTypeOK
  <2>2. \A d \in before[c] : target'[d] = target[d] /\ download'[d] = download[d]
    BY <1>1, <1>3, <1>10, <2>1
  <2> QED
    BY <1>2, <2>1, <2>2 DEF CommitOK
<1>17. \A d \in Downloads' : DownloadOK(d)' /\ TurnOK(d)'
  <2>1. \A d \in Downloads' : d = n + 1 \/ d \in 1 .. n
    BY <1>1, <1>4
  <2> QED
    BY <1>14, <1>15, <2>1
<1>20. \A c \in DOMAIN commits' : CommitOK(c)'
  BY <1>2, <1>16
<1>19. control' = << >> \/ \E k \in DfuCommands' : control' = <<k>>
  BY <1>2, <1>11
<1> QED
  BY <1>12, <1>17, <1>20, <1>19

\* What users and the task do with the data of one download leaves the commands alone.
LEMMA DataStepInv ==
  ASSUME DfuIInv, NEW d \in Downloads, WriteTo(d) \/ WriteTaken(d) \/ Close(d) \/ Deliver(d)
  PROVE  DfuIInv'
<1> USE DEF DfuIInv
<1>1. UNCHANGED <<download, control, current, commits, before>>
  BY DEF WriteTo, WriteTaken, Close, Deliver, deviceVars, commitVars, openVars
<1>2. /\ \A e \in Downloads \ {d} : /\ target'[e] = target[e] /\ writing'[e] = writing[e]
                                    /\ acked'[e] = acked[e] /\ data'[e] = data[e]
                                    /\ delivered'[e] = delivered[e]
      /\ target'[d] \in {target[d], "closed"} /\ (target'[d] # "opening" <=> target[d] # "opening")
  BY DEF WriteTo, WriteTaken, Close, Deliver, deviceVars, commitVars, openVars, DfuTypeOK, Downloads
<1>3. /\ target' \in Seq({"opening", "open", "closed"}) /\ Len(target') = Len(target)
      /\ Downloads' = Downloads
  <2>1. target' = [target EXCEPT ![d] = "closed"] \/ target' = target
    BY DEF WriteTo, WriteTaken, Close, Deliver, openVars
  <2>2. target \in Seq({"opening", "open", "closed"}) /\ d \in DOMAIN target
    BY DEF DfuTypeOK, Downloads
  <2>3. [target EXCEPT ![d] = "closed"] \in Seq({"opening", "open", "closed"})
        /\ Len([target EXCEPT ![d] = "closed"]) = Len(target)
        /\ DOMAIN [target EXCEPT ![d] = "closed"] = DOMAIN target
    BY <2>2, Changes
  <2> QED
    BY <2>1, <2>2, <2>3 DEF Downloads
<1>4. DfuCommands' = DfuCommands
  BY <1>1, <1>3 DEF DfuCommands, DownloadOf, ResetOf
<1>5. \A e \in Downloads : target'[e] # "opening" <=> target[e] # "opening"
  BY <1>2
<1>6. \A e \in Downloads : TurnOK(e)'
  BY <1>1, <1>5 DEF TurnOK, DownloadOf
<1>7. \A c \in DOMAIN commits : CommitOK(c)'
  BY <1>1, <1>5 DEF CommitOK, ResetOf, DfuTypeOK
<1>8. \A e \in Downloads \ {d} : DownloadOK(e)'
  <2> SUFFICES ASSUME NEW e \in Downloads \ {d} PROVE DownloadOK(e)'
    OBVIOUS
  <2>1. /\ target'[e] = target[e] /\ writing'[e] = writing[e] /\ acked'[e] = acked[e]
        /\ data'[e] = data[e] /\ delivered'[e] = delivered[e] /\ download' = download
    BY <1>1, <1>2
  <2>2. DownloadOK(e)
    OBVIOUS
  <2> QED
    BY <2>1, <2>2 DEF DownloadOK
<1>9. ASSUME /\ writing' \in [Downloads -> 0 .. MaxWrites]
             /\ acked' \in [Downloads -> Seq(1 .. MaxWrites)]
             /\ data' \in [Downloads -> Seq(1 .. MaxWrites)] /\ Len(data'[d]) <= 1
             /\ delivered' \in [Downloads -> Seq(1 .. MaxWrites)]
             /\ DownloadOK(d)'
      PROVE  DfuIInv'
  <2>1. \A e \in Downloads : Len(data'[e]) <= 1
    BY <1>2, <1>9 DEF DfuTypeOK
  <2>2. DfuTypeOK'
    BY <1>1, <1>3, <1>9, <2>1 DEF DfuTypeOK
  <2>3. \A e \in Downloads : DownloadOK(e)'
    BY <1>8, <1>9
  <2> QED
    BY <1>1, <1>3, <1>4, <1>6, <1>7, <2>2, <2>3
<1>10. /\ DownloadOK(d) /\ writing[d] \in 0 .. MaxWrites
       /\ acked[d] \in Seq(1 .. MaxWrites) /\ data[d] \in Seq(1 .. MaxWrites) /\ Len(data[d]) <= 1
       /\ delivered[d] \in Seq(1 .. MaxWrites) /\ Len(acked[d]) \in Nat /\ Len(delivered[d]) \in Nat
  BY DEF DfuTypeOK
<1>11. CASE WriteTo(d)
  <2>1. /\ writing' = [writing EXCEPT ![d] = Len(acked[d]) + 1] /\ target[d] = "open"
        /\ Len(acked[d]) + 1 \in 0 .. MaxWrites /\ UNCHANGED <<target, acked, data, delivered>>
    BY <1>10, <1>11, DfuAssumption DEF WriteTo, deviceVars
  <2>2. writing' \in [Downloads -> 0 .. MaxWrites] /\ writing'[d] = Len(acked[d]) + 1
    BY <2>1 DEF DfuTypeOK
  <2>3. DownloadOK(d)'
    BY <1>1, <1>10, <2>1, <2>2 DEF DownloadOK
  <2> QED
    BY <1>9, <1>10, <2>1, <2>2, <2>3 DEF DfuTypeOK
<1>12. CASE WriteTaken(d)
  <2> DEFINE n == Len(acked[d])
  <2> DEFINE longer == Append(acked[d], n + 1)
  <2>1. writing[d] = n + 1 /\ n + 1 \in 1 .. MaxWrites /\ n \in Nat /\ target[d] = "open"
    BY <1>10, <1>12 DEF WriteTaken, DownloadOK
  <2>2. /\ acked' = [acked EXCEPT ![d] = longer] /\ writing' = [writing EXCEPT ![d] = 0]
        /\ UNCHANGED <<target, delivered>>
    BY <1>12, <2>1 DEF WriteTaken, deviceVars
  <2>3. /\ longer \in Seq(1 .. MaxWrites) /\ Len(longer) = n + 1 /\ longer[n + 1] = n + 1
        /\ \A i \in 1 .. n : longer[i] = acked[d][i]
    BY <1>10, <2>1, AppendGrows
  <2> HIDE DEF longer
  <2>4. /\ acked' \in [Downloads -> Seq(1 .. MaxWrites)] /\ acked'[d] = longer
        /\ writing' \in [Downloads -> 0 .. MaxWrites] /\ writing'[d] = 0
    BY <2>2, <2>3, DfuAssumption DEF DfuTypeOK
  <2>5. \A i \in 1 .. Len(longer) : longer[i] = i
    <3>1. \A i \in 1 .. n : acked[d][i] = i
      BY <1>10 DEF DownloadOK
    <3> HIDE DEF n
    <3>2. \A i \in 1 .. n + 1 : i \in 1 .. n \/ i = n + 1
      BY <2>1
    <3>3. \A i \in 1 .. n + 1 : longer[i] = i
      BY <2>3, <3>1, <3>2
    <3> QED
      BY <2>3, <3>3
  <2>6. CASE download[d] \in {"ended", "failed"} /\ data' = data
    <3>1. download[d] # "ended"
      BY <1>10, <2>1 DEF DownloadOK
    <3>2. data[d] = << >>
      BY <1>10, <3>1, <2>6 DEF DownloadOK
    <3>3. DownloadOK(d)'
      <4>1. Len(delivered[d]) <= Len(longer)
        BY <1>10, <2>1, <2>3 DEF DownloadOK
      <4>2. target'[d] = "open" /\ delivered'[d] = delivered[d] /\ data'[d] = << >>
        BY <2>1, <2>2, <2>6, <3>2
      <4> QED
        BY <1>1, <1>10, <2>4, <2>5, <2>6, <3>1, <4>1, <4>2 DEF DownloadOK
    <3>4. /\ data' \in [Downloads -> Seq(1 .. MaxWrites)] /\ Len(data'[d]) <= 1
          /\ delivered' \in [Downloads -> Seq(1 .. MaxWrites)]
      BY <2>2, <2>6 DEF DfuTypeOK
    <3> QED
      BY <1>9, <2>4, <3>3, <3>4
  <2>7. CASE download[d] \in {"waiting", "running"} /\ data[d] = << >>
             /\ data' = [data EXCEPT ![d] = <<n + 1>>]
    <3>1. data' \in [Downloads -> Seq(1 .. MaxWrites)] /\ data'[d] = <<n + 1>> /\ Len(data'[d]) = 1
      BY <2>1, <2>7 DEF DfuTypeOK
    <3>2. n = Len(delivered[d])
      BY <1>10, <2>7 DEF DownloadOK
    <3>3. DownloadOK(d)'
      <4>1. target'[d] = "open" /\ delivered'[d] = delivered[d] /\ data'[d] = <<Len(longer)>>
        BY <2>1, <2>2, <2>3, <3>1
      <4>2. Len(longer) = Len(delivered[d]) + 1 /\ Len(data'[d]) = 1
        BY <2>3, <3>1, <3>2
      <4>3. /\ data'[d] = <<Len(acked'[d])>> /\ Len(acked'[d]) = Len(delivered'[d]) + Len(data'[d])
            /\ Len(delivered'[d]) <= Len(acked'[d])
        BY <1>10, <2>4, <4>1, <4>2
      <4>4. \A i \in 1 .. Len(acked'[d]) : acked'[d][i] = i
        BY <2>4, <2>5
      <4> QED
        BY <1>1, <1>10, <2>4, <2>7, <4>1, <4>3, <4>4 DEF DownloadOK
    <3>4. delivered' \in [Downloads -> Seq(1 .. MaxWrites)] /\ Len(data'[d]) <= 1
      BY <2>2, <3>1 DEF DfuTypeOK
    <3> QED
      BY <1>9, <2>4, <3>1, <3>3, <3>4
  <2> QED
    BY <1>12, <2>1, <2>6, <2>7 DEF WriteTaken
<1>13. CASE Close(d)
  <2>1. /\ target' = [target EXCEPT ![d] = "closed"] /\ target[d] = "open" /\ writing[d] = 0
        /\ UNCHANGED <<writing, acked, data, delivered>>
    BY <1>13 DEF Close, deviceVars
  <2>2. target'[d] = "closed"
    BY <2>1 DEF DfuTypeOK, Downloads
  <2>3. DownloadOK(d)'
    BY <1>1, <1>10, <2>1, <2>2 DEF DownloadOK
  <2> QED
    BY <1>3, <1>9, <1>10, <2>1, <2>3 DEF DfuTypeOK
<1>14. CASE Deliver(d)
  <2> DEFINE n == Len(delivered[d])
  <2> DEFINE longer == Append(delivered[d], n + 1)
  <2>1. /\ download[d] = "running" /\ data[d] = <<Len(acked[d])>> /\ Len(acked[d]) = n + 1
        /\ n \in Nat
    <3>1. download[d] = "running" /\ data[d] # << >>
      BY <1>14, DfuCommandsDiffer DEF Deliver, TurnOK
    <3>2. data[d] = <<Len(acked[d])>>
      BY <1>10, <3>1 DEF DownloadOK
    <3>3. Len(acked[d]) = n + Len(data[d])
      BY <1>10, <3>1 DEF DownloadOK
    <3>4. Len(data[d]) = 1
      BY <3>2
    <3> QED
      BY <1>10, <3>1, <3>2, <3>3, <3>4
  <2>2. n + 1 \in 1 .. MaxWrites
    <3>1. data[d][1] \in 1 .. MaxWrites
      BY <1>10, <2>1
    <3> QED
      BY <2>1, <3>1
  <2>3. /\ longer \in Seq(1 .. MaxWrites) /\ Len(longer) = n + 1 /\ longer[n + 1] = n + 1
        /\ \A i \in 1 .. n : longer[i] = delivered[d][i]
    BY <1>10, <2>2, AppendGrows
  <2>4. delivered[d] \o data[d] = longer
    BY <1>10, <2>1
  <2>5. /\ delivered' = [delivered EXCEPT ![d] = longer] /\ data' = [data EXCEPT ![d] = << >>]
        /\ UNCHANGED <<target, writing, acked>>
    BY <1>14, <2>4 DEF Deliver, openVars
  <2> HIDE DEF longer
  <2>6. /\ delivered' \in [Downloads -> Seq(1 .. MaxWrites)] /\ delivered'[d] = longer
        /\ data' \in [Downloads -> Seq(1 .. MaxWrites)] /\ data'[d] = << >>
    BY <2>3, <2>5 DEF DfuTypeOK
  <2>7. \A i \in 1 .. Len(longer) : longer[i] = i
    <3>1. \A i \in 1 .. n : delivered[d][i] = i
      BY <1>10 DEF DownloadOK
    <3> HIDE DEF n
    <3>2. \A i \in 1 .. n + 1 : i \in 1 .. n \/ i = n + 1
      BY <2>1
    <3>3. \A i \in 1 .. n + 1 : longer[i] = i
      BY <2>3, <3>1, <3>2
    <3> QED
      BY <2>3, <3>3
  <2>8. DownloadOK(d)'
    BY <1>1, <1>10, <2>1, <2>3, <2>5, <2>6, <2>7 DEF DownloadOK
  <2>9. /\ writing' \in [Downloads -> 0 .. MaxWrites] /\ acked' \in [Downloads -> Seq(1 .. MaxWrites)]
        /\ Len(data'[d]) <= 1
    BY <2>5, <2>6 DEF DfuTypeOK
  <2> QED
    BY <1>9, <2>6, <2>8, <2>9
<1> QED
  BY <1>11, <1>12, <1>13, <1>14

\* The steps about the commands.  What stays as it is:
LEMMA CommandStepFrame ==
  ASSUME DfuIInv, UNCHANGED <<writing, acked, delivered>>,
         Downloads' = Downloads, DOMAIN commits' = DOMAIN commits, before' = before,
         target' \in Seq({"opening", "open", "closed"}), Len(target') = Len(target),
         data' \in [Downloads -> Seq(1 .. MaxWrites)], \A d \in Downloads : Len(data'[d]) <= 1,
         download' \in [Downloads -> {"waiting", "running", "ended", "failed"}],
         commits' \in Seq({"calling", "sent", "done"}), Len(commits') = Len(commits),
         control' = << >> \/ \E k \in DfuCommands : control' = <<k>>,
         current' = Nothing \/ current' \in DfuCommands,
         \A d \in Downloads : DownloadOK(d)' /\ TurnOK(d)',
         \A c \in DOMAIN commits : CommitOK(c)'
  PROVE  DfuIInv'
<1>1. DfuCommands' = DfuCommands
  BY DEF DfuCommands, DownloadOf, ResetOf
<1>2. Len(control') <= 1
  <2>1. CASE control' = << >>
    BY <2>1
  <2>2. ASSUME NEW k \in DfuCommands, control' = <<k>> PROVE Len(control') <= 1
    BY <2>2
  <2> QED
    BY <2>1, <2>2
<1>3. current' \in {Nothing} \cup [op : {"download"}, of : Downloads'] \cup [op : {"reset"}, of : DOMAIN commits']
  BY DEF DfuCommands, DownloadOf, ResetOf
<1>4. DfuTypeOK'
  BY <1>2, <1>3 DEF DfuIInv, DfuTypeOK
<1> QED
  BY <1>1, <1>4 DEF DfuIInv

LEMMA StartDownloadInv ==
  ASSUME DfuIInv, NEW d \in Downloads, StartDownload(d)
  PROVE  DfuIInv'
<1> USE DEF DfuIInv
<1>1. /\ target[d] = "opening" /\ control = << >> /\ control' = <<DownloadOf(d)>>
      /\ target' = [target EXCEPT ![d] = "open"]
      /\ UNCHANGED <<writing, acked, data, download, delivered, current, commits, before>>
  BY DEF StartDownload, DownloadOf, deviceVars, commitVars
<1>2. /\ target' \in Seq({"opening", "open", "closed"}) /\ Len(target') = Len(target)
      /\ Downloads' = Downloads
  BY <1>1, Changes DEF DfuTypeOK, Downloads
<1>3. target'[d] = "open" /\ \A e \in Downloads \ {d} : target'[e] = target[e]
  BY <1>1 DEF DfuTypeOK, Downloads
<1>4. \A e \in Downloads : DownloadOK(e)'
  BY <1>1, <1>3 DEF DownloadOK
<1>5. ASSUME NEW e \in Downloads PROVE TurnOK(e)'
  <2>1. <<DownloadOf(e)>> = <<DownloadOf(d)>> => e = d
    BY DfuCommandsDiffer
  <2>2. <<DownloadOf(e)>> # << >>
    OBVIOUS
  <2>3. CASE e = d
    BY <1>1, <1>3, <2>3 DEF TurnOK, DownloadOK, DownloadOf
  <2>4. CASE e # d
    BY <1>1, <1>3, <2>1, <2>2, <2>4 DEF TurnOK, DownloadOf
  <2> QED
    BY <2>3, <2>4
<1>6. ASSUME NEW c \in DOMAIN commits PROVE CommitOK(c)'
  <2>1. <<ResetOf(c)>> # <<DownloadOf(d)>>
    BY DfuCommandsDiffer
  <2>2. before[c] \subseteq Downloads
    BY DEF DfuTypeOK
  <2> QED
    BY <1>1, <1>3, <2>1, <2>2 DEF CommitOK, ResetOf
<1>7. DownloadOf(d) \in DfuCommands
  BY DEF DfuCommands
<1> QED
  BY <1>1, <1>2, <1>4, <1>5, <1>6, <1>7, DfuCurrent, CommandStepFrame DEF DfuTypeOK

\* When the channel has room for a reset, no target is left whose download was put
\* there: the downloads of those that are open have been taken.
LEMMA SendResetInv ==
  ASSUME DfuIInv, NEW c \in DOMAIN commits, SendReset(c)
  PROVE  DfuIInv'
<1> USE DEF DfuIInv
<1>1. /\ commits[c] = "calling" /\ control = << >> /\ control' = <<ResetOf(c)>>
      /\ commits' = [commits EXCEPT ![c] = "sent"]
      /\ UNCHANGED <<target, writing, acked, data, download, delivered, current, before>>
  BY DEF SendReset, ResetOf, openVars, deviceVars
<1>2. /\ commits' \in Seq({"calling", "sent", "done"}) /\ Len(commits') = Len(commits)
      /\ DOMAIN commits' = DOMAIN commits
  BY <1>1, Changes DEF DfuTypeOK
<1>3. Downloads' = Downloads
  BY <1>1 DEF Downloads
<1>4. \A e \in Downloads : DownloadOK(e)'
  BY <1>1 DEF DownloadOK
<1>5. \A e \in Downloads : download[e] = "waiting" => target[e] = "opening"
  <2>1. \A e : <<DownloadOf(e)>> # << >>
    OBVIOUS
  <2> QED
    BY <1>1, <2>1 DEF TurnOK
<1>6. \A e \in Downloads : TurnOK(e)'
  <2>1. \A e : <<DownloadOf(e)>> # <<ResetOf(c)>>
    BY DfuCommandsDiffer
  <2> QED
    BY <1>1, <1>5, <2>1 DEF TurnOK, DownloadOf
<1>7. ASSUME NEW b \in DOMAIN commits PROVE CommitOK(b)'
  <2>1. before[b] \subseteq Downloads
    BY DEF DfuTypeOK
  <2>2. \A d \in before[b] : download[d] # "waiting"
    BY <1>5, <2>1 DEF CommitOK
  <2>3. commits'[b] = "done" => commits[b] = "done"
    BY <1>1 DEF DfuTypeOK
  <2> QED
    BY <1>1, <2>2, <2>3 DEF CommitOK, ResetOf
<1>8. ResetOf(c) \in DfuCommands
  BY DEF DfuCommands
<1> QED
  BY <1>1, <1>2, <1>3, <1>4, <1>6, <1>7, <1>8, DfuCurrent, CommandStepFrame DEF DfuTypeOK

LEMMA TakeInv ==
  ASSUME DfuIInv, Take
  PROVE  DfuIInv'
<1> USE DEF DfuIInv
<1>1. PICK k \in DfuCommands : control = <<k>>
  BY DEF Take
<1>2. /\ current = Nothing /\ current' = k /\ control' = << >>
      /\ UNCHANGED <<target, writing, acked, data, delivered, commits, before>>
      /\ IF k.op = "download" THEN download' = [download EXCEPT ![k.of] = "running"] ELSE download' = download
  <2>1. Head(<<k>>) = k /\ Tail(<<k>>) = << >>
    OBVIOUS
  <2> QED
    BY <1>1, <2>1 DEF Take, openVars, commitVars
<1>3. Downloads' = Downloads
  BY <1>2 DEF Downloads
<1>4. \A e \in Downloads : download[e] # "running"
  BY <1>2, DfuCommandsDiffer DEF TurnOK
<1>5. \A x : << >> # <<x>>
  OBVIOUS
<1>6. CASE \E d \in Downloads : k = DownloadOf(d)
  <2>1. PICK d \in Downloads : k = DownloadOf(d)
    BY <1>6
  <2>2. download' = [download EXCEPT ![d] = "running"]
    BY <1>2, <2>1, DfuCommandsDiffer
  <2>3. /\ download' \in [Downloads -> {"waiting", "running", "ended", "failed"}]
        /\ download'[d] = "running" /\ \A e \in Downloads \ {d} : download'[e] = download[e]
    BY <2>2 DEF DfuTypeOK
  <2>4. download[d] = "waiting" /\ target[d] # "opening"
    BY <1>1, <2>1 DEF TurnOK
  <2>5. \A e \in Downloads : DownloadOK(e)'
    BY <1>2, <2>3, <2>4 DEF DownloadOK
  <2>6. ASSUME NEW e \in Downloads PROVE TurnOK(e)'
    <3>1. DownloadOf(e) = DownloadOf(d) <=> e = d
      BY DfuCommandsDiffer
    <3>2. e # d => target[e] = "opening" \/ download[e] # "waiting"
      BY <1>1, <2>1, <3>1 DEF TurnOK
    <3>3. download'[e] = "running" <=> e = d
      BY <1>4, <2>3
    <3> QED
      BY <1>2, <1>5, <2>1, <2>3, <3>1, <3>2, <3>3 DEF TurnOK, DownloadOf
  <2>7. ASSUME NEW c \in DOMAIN commits PROVE CommitOK(c)'
    <3>1. before[c] \subseteq Downloads /\ ResetOf(c) # k
      BY <2>1, DfuCommandsDiffer DEF DfuTypeOK
    <3>2. commits[c] = "done" => d \notin before[c]
      BY <2>4 DEF CommitOK
    <3> QED
      BY <1>2, <1>5, <2>3, <3>1, <3>2 DEF CommitOK, ResetOf
  <2> QED
    BY <1>2, <1>3, <2>3, <2>5, <2>6, <2>7, CommandStepFrame DEF DfuTypeOK
<1>7. CASE \E c \in DOMAIN commits : k = ResetOf(c)
  <2>1. PICK c \in DOMAIN commits : k = ResetOf(c)
    BY <1>7
  <2>2. download' = download
    BY <1>2, <2>1, DfuCommandsDiffer
  <2>3. \A e \in Downloads : DownloadOK(e)'
    BY <1>2, <2>2 DEF DownloadOK
  <2>4. ASSUME NEW e \in Downloads PROVE TurnOK(e)'
    <3>1. DownloadOf(e) # ResetOf(c)
      BY DfuCommandsDiffer
    <3> QED
      BY <1>1, <1>2, <1>4, <1>5, <2>1, <2>2, <3>1 DEF TurnOK, DownloadOf
  <2>5. ASSUME NEW b \in DOMAIN commits PROVE CommitOK(b)'
    <3>1. before[b] \subseteq Downloads
      BY DEF DfuTypeOK
    <3>2. current' = ResetOf(b) => \A d \in before[b] : download[d] \in {"ended", "failed"}
      <4>1. current' = ResetOf(b) => b = c
        BY <1>2, <2>1, DfuCommandsDiffer
      <4>2. \A d \in before[c] : download[d] \notin {"waiting", "running"} /\ d \in Downloads
        BY <1>1, <1>4, <2>1 DEF CommitOK, DfuTypeOK
      <4>3. \A d \in Downloads : download[d] \in {"waiting", "running", "ended", "failed"}
        BY DEF DfuTypeOK
      <4> QED
        BY <4>1, <4>2, <4>3
    <3>3. \A d \in before[b] : target[d] # "opening"
      BY DEF CommitOK
    <3>4. commits[b] = "done" => \A d \in before[b] : download[d] \in {"ended", "failed"}
      BY DEF CommitOK
    <3> QED
      BY <1>2, <1>5, <2>2, <3>2, <3>3, <3>4 DEF CommitOK, ResetOf
  <2> QED
    BY <1>2, <1>3, <2>2, <2>3, <2>4, <2>5, CommandStepFrame DEF DfuTypeOK
<1> QED
  BY <1>6, <1>7 DEF DfuCommands

\* The end of a download, whatever its data was.
LEMMA EndInv ==
  ASSUME DfuIInv, NEW d \in Downloads, EndDownload(d) \/ FailDownload(d)
  PROVE  DfuIInv'
<1> USE DEF DfuIInv
<1>1. /\ current = DownloadOf(d) /\ current' = Nothing /\ download[d] = "running"
      /\ UNCHANGED <<target, writing, acked, delivered, control, commits, before>>
  BY DfuCommandsDiffer DEF EndDownload, FailDownload, TurnOK, openVars, commitVars
<1>2. Downloads' = Downloads
  BY <1>1 DEF Downloads
<1>3. /\ download' \in [Downloads -> {"waiting", "running", "ended", "failed"}]
      /\ download'[d] \in {"ended", "failed"}
      /\ \A e \in Downloads \ {d} : download'[e] = download[e]
  BY DEF EndDownload, FailDownload, DfuTypeOK
<1>4. /\ data' \in [Downloads -> Seq(1 .. MaxWrites)] /\ data'[d] = << >>
      /\ \A e \in Downloads \ {d} : data'[e] = data[e]
  <2>1. CASE EndDownload(d)
    BY <2>1 DEF EndDownload, DfuTypeOK
  <2>2. CASE FailDownload(d)
    <3>1. << >> \in Seq(1 .. MaxWrites) /\ data' = [data EXCEPT ![d] = << >>]
      BY <2>2 DEF FailDownload
    <3> QED
      BY <3>1 DEF DfuTypeOK
  <2> QED
    BY <2>1, <2>2
<1>5. ASSUME NEW e \in Downloads PROVE Len(data'[e]) <= 1
  <2>1. CASE e = d
    BY <1>4, <2>1
  <2>2. CASE e # d
    BY <1>4, <2>2 DEF DfuTypeOK
  <2> QED
    BY <2>1, <2>2
<1>6. DownloadOK(d)'
  <2>1. CASE EndDownload(d)
    <3>1. /\ download'[d] = "ended" /\ target[d] = "closed" /\ data[d] = << >>
      BY <2>1 DEF EndDownload, DfuTypeOK
    <3>2. Len(acked[d]) = Len(delivered[d]) + Len(data[d]) /\ Len(data[d]) = 0 /\ Len(delivered[d]) \in Nat
      BY <1>1, <3>1 DEF DownloadOK, DfuTypeOK
    <3>3. Len(acked[d]) = Len(delivered[d])
      BY <3>2
    <3> QED
      BY <1>1, <1>4, <3>1, <3>3 DEF DownloadOK
  <2>2. CASE FailDownload(d)
    <3>1. download'[d] = "failed" /\ target[d] # "opening"
      BY <1>1, <2>2 DEF FailDownload, DfuTypeOK, DownloadOK
    <3> QED
      BY <1>1, <1>4, <3>1 DEF DownloadOK
  <2> QED
    BY <2>1, <2>2
<1>7. \A e \in Downloads \ {d} : DownloadOK(e)'
  BY <1>1, <1>3, <1>4 DEF DownloadOK
<1>8. ASSUME NEW e \in Downloads PROVE TurnOK(e)'
  <2>1. current = DownloadOf(e) <=> e = d
    BY <1>1, DfuCommandsDiffer
  <2>2. Nothing # DownloadOf(e)
    BY DfuCommandsDiffer
  <2>3. download'[e] # "running"
    BY <1>3, <2>1 DEF TurnOK
  <2>4. control # <<DownloadOf(d)>>
    BY <1>1 DEF TurnOK
  <2> QED
    BY <1>1, <1>3, <2>2, <2>3, <2>4 DEF TurnOK, DownloadOf
<1>9. ASSUME NEW c \in DOMAIN commits PROVE CommitOK(c)'
  <2>1. before[c] \subseteq Downloads /\ Nothing # ResetOf(c)
    BY DfuCommandsDiffer DEF DfuTypeOK
  <2> QED
    BY <1>1, <1>3, <2>1 DEF CommitOK, ResetOf
<1> QED
  BY <1>1, <1>2, <1>3, <1>4, <1>5, <1>6, <1>7, <1>8, <1>9, CommandStepFrame DEF DfuTypeOK

LEMMA ResetInv ==
  ASSUME DfuIInv, Reset
  PROVE  DfuIInv'
<1> USE DEF DfuIInv
<1>1. PICK c \in DOMAIN commits : current = ResetOf(c)
  <2>1. current # Nothing /\ \A d : current # DownloadOf(d)
    BY DfuCommandsDiffer DEF Reset, Nothing
  <2> QED
    BY <2>1, DfuCurrent DEF DfuCommands
<1>2. /\ current' = Nothing /\ commits' = [commits EXCEPT ![c] = "done"]
      /\ UNCHANGED <<target, writing, acked, data, download, delivered, control, before>>
  BY <1>1, DfuCommandsDiffer DEF Reset, openVars, deviceVars
<1>3. /\ commits' \in Seq({"calling", "sent", "done"}) /\ Len(commits') = Len(commits)
      /\ DOMAIN commits' = DOMAIN commits
  BY <1>2, Changes DEF DfuTypeOK
<1>4. Downloads' = Downloads
  BY <1>2 DEF Downloads
<1>5. \A e \in Downloads : DownloadOK(e)'
  BY <1>2 DEF DownloadOK
<1>6. ASSUME NEW e \in Downloads PROVE TurnOK(e)'
  <2>1. DownloadOf(e) # Nothing /\ DownloadOf(e) # current
    BY <1>1, DfuCommandsDiffer
  <2> QED
    BY <1>2, <2>1 DEF TurnOK, DownloadOf
<1>7. ASSUME NEW b \in DOMAIN commits PROVE CommitOK(b)'
  <2>1. commits'[b] = "done" => commits[b] = "done" \/ b = c
    BY <1>2 DEF DfuTypeOK
  <2>2. Nothing # ResetOf(b)
    BY DfuCommandsDiffer
  <2>3. \A d \in before[c] : download[d] \in {"ended", "failed"}
    BY <1>1 DEF CommitOK
  <2> QED
    BY <1>2, <2>1, <2>2, <2>3 DEF CommitOK, ResetOf
<1> QED
  BY <1>2, <1>3, <1>4, <1>5, <1>6, <1>7, CommandStepFrame DEF DfuTypeOK

LEMMA CommitInv ==
  ASSUME DfuIInv, Commit
  PROVE  DfuIInv'
<1> USE DEF DfuIInv
<1> PICK n : n = Len(commits)
  OBVIOUS
<1> DEFINE stillOpen == {d \in Downloads : target[d] # "opening"}
<1>1. /\ n \in Nat /\ n < MaxCommits /\ DOMAIN commits = 1 .. n /\ commits \in Seq({"calling", "sent", "done"})
      /\ before \in Seq(SUBSET Downloads) /\ Len(before) = n
  <2>1. /\ n \in Nat /\ n < MaxCommits /\ DOMAIN commits = 1 .. n
        /\ commits \in Seq({"calling", "sent", "done"}) /\ before \in [1 .. n -> SUBSET Downloads]
    BY DEF Commit, DfuTypeOK
  <2>2. \A S, f : f \in [1 .. n -> S] => f \in Seq(S) /\ Len(f) = n
    BY <2>1
  <2> QED
    BY <2>1, <2>2, Zenon
<1>2. /\ commits' = Append(commits, "calling") /\ before' = Append(before, stillOpen)
      /\ UNCHANGED <<target, writing, acked, data, download, delivered, control, current>>
  BY DEF Commit, openVars, deviceVars
<1>3. stillOpen \in SUBSET Downloads
  OBVIOUS
<1> HIDE DEF stillOpen
<1>4. /\ commits' \in Seq({"calling", "sent", "done"}) /\ Len(commits') = n + 1 /\ DOMAIN commits' = 1 .. n + 1
      /\ commits'[n + 1] = "calling" /\ \A c \in 1 .. n : commits'[c] = commits[c]
  BY <1>1, <1>2, AppendGrows
<1>5. /\ before' \in Seq(SUBSET Downloads) /\ Len(before') = n + 1 /\ before'[n + 1] = stillOpen
      /\ \A c \in 1 .. n : before'[c] = before[c]
  BY <1>1, <1>2, <1>3, AppendGrows
<1>6. Downloads' = Downloads
  BY <1>2 DEF Downloads
<1>7. DOMAIN commits \subseteq DOMAIN commits' /\ DfuCommands \subseteq DfuCommands'
  BY <1>1, <1>4, <1>6 DEF DfuCommands, DownloadOf, ResetOf
<1>8. DfuTypeOK'
  <2>1. before' \in [DOMAIN commits' -> SUBSET Downloads']
    BY <1>4, <1>5, <1>6, SeqIsFunction
  <2>2. current' \in {Nothing} \cup [op : {"download"}, of : Downloads']
                       \cup [op : {"reset"}, of : DOMAIN commits']
    BY <1>2, <1>6, <1>7 DEF DfuTypeOK
  <2>3. Len(commits') <= MaxCommits
    BY <1>1, <1>4, DfuAssumption
  <2> QED
    BY <1>2, <1>4, <1>6, <2>1, <2>2, <2>3 DEF DfuTypeOK
<1>9. \A e \in Downloads : DownloadOK(e)' /\ TurnOK(e)'
  BY <1>2 DEF DownloadOK, TurnOK, DownloadOf
<1>10. control # <<ResetOf(n + 1)>> /\ current # ResetOf(n + 1)
  <2>1. n + 1 \notin DOMAIN commits
    BY <1>1
  <2>2. \A k \in DfuCommands \cup {Nothing} : k # ResetOf(n + 1)
    BY <2>1, DfuCommandsDiffer DEF DfuCommands
  <2> QED
    BY <2>2, DfuCurrent
<1>11. CommitOK(n + 1)'
  BY <1>2, <1>4, <1>5, <1>10 DEF CommitOK, ResetOf, stillOpen
<1>12. ASSUME NEW c \in 1 .. n PROVE CommitOK(c)'
  <2>1. CommitOK(c) /\ commits'[c] = commits[c] /\ before'[c] = before[c]
    BY <1>1, <1>4, <1>5
  <2> QED
    BY <1>2, <2>1 DEF CommitOK, ResetOf
<1>13. \A c \in DOMAIN commits' : c = n + 1 \/ c \in 1 .. n
  BY <1>1, <1>4
<1> QED
  BY <1>2, <1>6, <1>7, <1>8, <1>9, <1>11, <1>12, <1>13

LEMMA DfuStepInv == DfuIInv /\ [DfuNext]_dfuVars => DfuIInv'
<1> SUFFICES ASSUME DfuIInv, [DfuNext]_dfuVars PROVE DfuIInv'
  OBVIOUS
<1>1. CASE UNCHANGED dfuVars
  <2>1. UNCHANGED <<target, writing, acked, data, download, delivered, control, current, commits, before>>
    BY <1>1 DEF dfuVars, openVars, deviceVars, commitVars
  <2>2. DfuTypeOK'
    BY <2>1 DEF DfuIInv, DfuTypeOK, Downloads
  <2>3. DfuCommands' = DfuCommands /\ Downloads' = Downloads
    BY <2>1 DEF DfuCommands, Downloads, DownloadOf, ResetOf
  <2>4. /\ \A d \in Downloads : DownloadOK(d)' = DownloadOK(d) /\ TurnOK(d)' = TurnOK(d)
        /\ \A c \in DOMAIN commits : CommitOK(c)' = CommitOK(c)
    BY <2>1 DEF DownloadOK, TurnOK, CommitOK, Downloads, DownloadOf, ResetOf
  <2> QED
    BY <2>1, <2>2, <2>3, <2>4 DEF DfuIInv
<1> QED
  BY <1>1, OpenInv, CommitInv, TakeInv, ResetInv, DataStepInv, EndInv, StartDownloadInv, SendResetInv
     DEF DfuNext, TaskStep, SendStep

\* What the device has of a download is a prefix of what was answered, and what is
\* being written.
LEMMA DeliveredPrefix ==
  ASSUME DfuIInv
  PROVE  DeliveredAreAcked
<1> SUFFICES ASSUME NEW d \in Downloads
             PROVE  /\ IsPrefix(delivered[d], Append(acked[d], writing[d]))
                    /\ download[d] = "ended" => delivered[d] = acked[d]
  BY DEF DeliveredAreAcked
<1>1. /\ delivered[d] \in Seq(1 .. MaxWrites) /\ acked[d] \in Seq(1 .. MaxWrites)
      /\ writing[d] \in 0 .. MaxWrites /\ Len(delivered[d]) \in Nat /\ Len(acked[d]) \in Nat
      /\ Len(delivered[d]) <= Len(acked[d])
      /\ \A i \in 1 .. Len(acked[d]) : acked[d][i] = i
      /\ \A i \in 1 .. Len(delivered[d]) : delivered[d][i] = i
  BY DEF DfuIInv, DfuTypeOK, DownloadOK
<1> DEFINE longer == Append(acked[d], writing[d])
<1>2. /\ longer \in Seq(0 .. MaxWrites) /\ Len(longer) = Len(acked[d]) + 1
      /\ \A i \in 1 .. Len(acked[d]) : longer[i] = acked[d][i]
  <2>1. acked[d] \in Seq(0 .. MaxWrites)
    <3>1. 1 .. MaxWrites \subseteq 0 .. MaxWrites
      BY DfuAssumption
    <3> QED
      BY <1>1, <3>1, SeqWidens
  <2> QED
    BY <1>1, <2>1, AppendGrows
<1> HIDE DEF longer
<1>3. SubSeq(delivered[d], 1, Len(delivered[d])) = SubSeq(longer, 1, Len(delivered[d]))
  BY <1>1, <1>2
<1>4. Len(delivered[d]) <= Len(longer)
  BY <1>1, <1>2
<1>5. download[d] = "ended" => delivered[d] = acked[d]
  <2>1. download[d] = "ended" => Len(delivered[d]) = Len(acked[d])
    BY DEF DfuIInv, DownloadOK
  <2> QED
    BY <1>1, <2>1
<1> QED
  BY <1>3, <1>4, <1>5 DEF IsPrefix, longer

\* A DFU device gets the writes of each target in their order, all that were answered
\* if the download does not fail, and is reset by a commit only when the downloads of
\* the targets that were open then are over (dfu_task, write(), commit() of dfu.rs),
\* for any number of targets, writes, commits and failures.
THEOREM DfuSafe == DfuSpec => []DfuInv
<1>1. DfuIInv => DfuInv
  BY DeliveredPrefix DEF DfuIInv, DfuInv, CommitOK, CommitWaitsForDownloads
<1> QED
  BY <1>1, DfuInitInv, DfuStepInv, PTL DEF DfuSpec

\* A step that leaves downloads and their number alone leaves their turns alone.
LEMMA TurnsStay ==
  ASSUME Downloads' = Downloads, download' = download
  PROVE  [d \in 1 .. MaxOpens |-> DownloadTurn(d)]' = [d \in 1 .. MaxOpens |-> DownloadTurn(d)]
  BY DEF DownloadTurn

\* A step that changes the turn of one download.
LEMMA TurnChanges ==
  ASSUME NEW d \in 1 .. MaxOpens,
         \A e \in 1 .. MaxOpens \ {d} : DownloadTurn(e)' = DownloadTurn(e)
  PROVE  [e \in 1 .. MaxOpens |-> DownloadTurn(e)]' =
           [[e \in 1 .. MaxOpens |-> DownloadTurn(e)] EXCEPT ![d] = DownloadTurn(d)']
  OBVIOUS

LEMMA DfuStepTurns ==
  ASSUME DfuIInv, [DfuNext]_dfuVars
  PROVE  [DownloadUse!Next]_[d \in 1 .. MaxOpens |-> DownloadTurn(d)]
<1> USE DEF DfuIInv
<1>1. Len(target) \in Nat /\ Downloads = 1 .. Len(target) /\ Len(target) <= MaxOpens
  BY DEF DfuTypeOK, Downloads
<1>2. CASE Open
  <2> PICK n : n = Len(target) + 1
    OBVIOUS
  <2>1. /\ n \in 1 .. MaxOpens /\ n \notin Downloads /\ Downloads = 1 .. n - 1
    BY <1>1, <1>2, DfuAssumption DEF Open
  <2>2. target' = Append(target, "opening") /\ download' = Append(download, "waiting")
    BY <1>2 DEF Open
  <2>3. Downloads' = 1 .. n
    <3>1. target \in Seq({"opening", "open", "closed"})
      BY DEF DfuTypeOK
    <3> QED
      BY <1>1, <2>2, <3>1, AppendGrows DEF Downloads
  <2>4. download'[n] = "waiting" /\ \A d \in Downloads : download'[d] = download[d]
    <3>1. download \in [1 .. n - 1 -> {"waiting", "running", "ended", "failed"}] /\ n - 1 \in Nat
      BY <2>1 DEF DfuTypeOK
    <3>2. download \in Seq({"waiting", "running", "ended", "failed"}) /\ Len(download) = n - 1
      BY <3>1
    <3>3. download'[Len(download) + 1] = "waiting" /\ \A d \in 1 .. Len(download) : download'[d] = download[d]
      BY <2>2, <3>2, AppendGrows
    <3> QED
      BY <2>1, <3>2, <3>3
  <2>5. \A d \in 1 .. MaxOpens \ {n} : d \in Downloads' <=> d \in Downloads
    BY <2>1, <2>3
  <2>6. DownloadTurn(n) = "away" /\ DownloadTurn(n)' = "waiting"
    BY <2>1, <2>3, <2>4 DEF DownloadTurn
  <2>7. \A d \in 1 .. MaxOpens \ {n} : DownloadTurn(d)' = DownloadTurn(d)
    BY <2>4, <2>5 DEF DownloadTurn
  <2>8. DownloadUse!Ask(n)
    BY <2>1, <2>6, <2>7, TurnChanges DEF DownloadUse!Ask
  <2> QED
    BY <2>1, <2>8 DEF DownloadUse!Next
<1>3. CASE Take
  <2>1. PICK k \in DfuCommands : control = <<k>>
    BY <1>3 DEF Take
  <2>2. /\ current = Nothing /\ Downloads' = Downloads
        /\ IF k.op = "download" THEN download' = [download EXCEPT ![k.of] = "running"] ELSE download' = download
    <3>1. Head(<<k>>) = k
      OBVIOUS
    <3> QED
      BY <1>3, <2>1, <3>1 DEF Take, openVars, Downloads
  <2>3. CASE k.op # "download"
    BY <2>2, <2>3, TurnsStay
  <2>4. CASE k.op = "download"
    <3>1. PICK d \in Downloads : k = DownloadOf(d)
      BY <2>4, DfuCommandsDiffer DEF DfuCommands
    <3>2. download[d] = "waiting" /\ \A e \in Downloads : download[e] # "running"
      BY <2>1, <2>2, <3>1, DfuCommandsDiffer DEF TurnOK
    <3>3. download' = [download EXCEPT ![d] = "running"]
      BY <2>2, <2>4, <3>1, DfuCommandsDiffer
    <3>4. DownloadTurn(d) = "waiting" /\ DownloadTurn(d)' = "using"
      BY <2>2, <3>2, <3>3 DEF DownloadTurn, DfuTypeOK
    <3>5. \A e \in 1 .. MaxOpens \ {d} : DownloadTurn(e)' = DownloadTurn(e)
      BY <2>2, <3>3 DEF DownloadTurn, DfuTypeOK
    <3>6. \A e \in 1 .. MaxOpens : DownloadTurn(e) # "using"
      BY <3>2 DEF DownloadTurn
    <3>7. d \in 1 .. MaxOpens
      BY <1>1, DfuAssumption
    <3>8. DownloadUse!Begin(d)
      BY <3>4, <3>5, <3>6, <3>7, TurnChanges DEF DownloadUse!Begin
    <3> QED
      BY <3>7, <3>8 DEF DownloadUse!Next
  <2> QED
    BY <2>3, <2>4
<1>4. ASSUME NEW d \in Downloads, EndDownload(d) \/ FailDownload(d)
      PROVE  DownloadUse!Next
  <2>1. /\ download[d] = "running" /\ Downloads' = Downloads
        /\ download'[d] \in {"ended", "failed"} /\ \A e \in Downloads \ {d} : download'[e] = download[e]
    BY <1>4, DfuCommandsDiffer DEF EndDownload, FailDownload, TurnOK, openVars, DfuTypeOK, Downloads
  <2>2. DownloadTurn(d) = "using" /\ DownloadTurn(d)' = "done"
    BY <2>1 DEF DownloadTurn
  <2>3. \A e \in 1 .. MaxOpens \ {d} : DownloadTurn(e)' = DownloadTurn(e)
    BY <2>1 DEF DownloadTurn
  <2>4. d \in 1 .. MaxOpens
    BY <1>1, DfuAssumption
  <2>5. DownloadUse!End(d)
    BY <2>2, <2>3, <2>4, TurnChanges DEF DownloadUse!End
  <2> QED
    BY <2>4, <2>5 DEF DownloadUse!Next
<1>5. ASSUME NEW d \in Downloads, WriteTo(d) \/ WriteTaken(d) \/ Close(d) \/ Deliver(d) \/ StartDownload(d)
      PROVE  Downloads' = Downloads /\ download' = download
  <2>1. target' = target \/ \E x : target' = [target EXCEPT ![d] = x]
    BY <1>5 DEF WriteTo, WriteTaken, Close, Deliver, StartDownload, openVars
  <2> QED
    BY <1>5, <2>1 DEF WriteTo, WriteTaken, Close, Deliver, StartDownload, deviceVars, Downloads
<1>6. ASSUME Commit \/ Reset \/ (\E c \in DOMAIN commits : SendReset(c)) \/ UNCHANGED dfuVars
      PROVE  Downloads' = Downloads /\ download' = download
  BY <1>6 DEF Commit, Reset, SendReset, dfuVars, openVars, deviceVars, Downloads
<1> QED
  BY <1>2, <1>3, <1>4, <1>5, <1>6, TurnsStay DEF DfuNext, TaskStep, SendStep

\* Of all the downloads one at a time has the device, each at most once: the task and
\* its channel implement taking turns (dfu_task and start_download of dfu.rs).
THEOREM DfuImplementsExclusiveUse == DfuSpec => OneDownloadAtATime
<1>1. DfuInit => DownloadUse!Init
  BY DEF DfuInit, DownloadUse!Init, DownloadTurn, Downloads
<1> QED
  BY <1>1, DfuInitInv, DfuStepInv, DfuStepTurns, PTL DEF DfuSpec, OneDownloadAtATime, DownloadUse!Spec

-----------------------------------------------------------------------------
(* The storage of rockusb. *)

WritesOf(s, i, a) == made[s][i].op = "write" /\ made[s][i].at = a

\* The last write of target s to sector a, of its first n - 1 operations, is the i-th.
IsLast(s, n, a, i) ==
  i \in 1 .. n - 1 /\ WritesOf(s, i, a) /\ \A j \in 1 .. n - 1 : j > i => ~ WritesOf(s, j, a)

\* How far a call and its command are agrees, and a target has an operation in its
\* channel exactly while it waits for the answer.
CallOK(s) ==
  /\ session[s] = "calling" => opened[s] = "none"
  /\ session[s] = "queued" => opened[s] = "queued"
  /\ session[s] = "open" => opened[s] = "serving"
  /\ session[s] = "failed" => opened[s] = "ended"
  /\ session[s] = "closed" => opened[s] \in {"serving", "ended"}
  /\ opened[s] = "queued" <=> commands = <<s>>
  /\ opened[s] \in {"none", "queued"} => made[s] = << >>

PendingOK(s) ==
  /\ operations[s] = << >> \/ (made[s] # << >> /\ operations[s] = <<Len(made[s])>> /\ session[s] = "open")
  /\ \A i \in DOMAIN made[s] : made[s][i].answer = "none" <=> operations[s] = <<i>>

\* While the task serves a target, its io and the storage are what it wrote last, and
\* what it has read is what it had written then.
Done(s) == IF operations[s] = << >> THEN Len(made[s]) ELSE Len(made[s]) - 1

LastIsKept(s) ==
  opened[s] = "serving" =>
    \A a \in Sectors : \A i \in DOMAIN made[s] :
      IsLast(s, Done(s) + 1, a, i) /\ made[s][i].answer = "ok" => Holds(s, a) = made[s][i].value

ReadsKept(s) ==
  \A n \in DOMAIN made[s] : made[s][n].op = "read" /\ made[s][n].answer = "ok" =>
    \A i \in DOMAIN made[s] :
      IsLast(s, n, made[s][n].at, i) /\ made[s][i].answer = "ok" => made[s][n].value = made[s][i].value

FlushKept(s) ==
  \A n \in DOMAIN made[s] :
    n = Len(made[s]) /\ opened[s] = "serving" /\ made[s][n].op = "flush" /\ made[s][n].answer = "ok" =>
      \A a \in Sectors : \A i \in DOMAIN made[s] :
        IsLast(s, n, a, i) /\ made[s][i].answer = "ok" => storage[a] = made[s][i].value

TargetOK(s) == CallOK(s) /\ PendingOK(s) /\ LastIsKept(s) /\ ReadsKept(s) /\ FlushKept(s)

LoaderIInv ==
  /\ LoaderTypeOK
  /\ commands = << >> \/ \E s \in Sessions : commands = <<s>>
  /\ \A s, r \in Sessions : opened[s] = "serving" /\ opened[r] = "serving" => s = r
  /\ \A s \in Sessions : TargetOK(s)

LEMMA LoaderFacts ==
  ASSUME LoaderTypeOK
  PROVE  /\ Len(session) \in Nat /\ Len(session) <= MaxSessions /\ Sessions = 1 .. Len(session)
         /\ MaxSessions \in Nat /\ MaxOps \in Nat
         /\ \A s \in Sessions : /\ made[s] \in Seq(Operations) /\ Len(made[s]) \in Nat
                                /\ DOMAIN made[s] = 1 .. Len(made[s])
                                /\ operations[s] \in Seq(1 .. MaxOps)
                                /\ s \in 1 .. MaxSessions
<1>1. /\ session \in Seq({"calling", "queued", "open", "failed", "gone", "closed"})
      /\ Len(session) <= MaxSessions
      /\ made \in [Sessions -> Seq(Operations)] /\ operations \in [Sessions -> Seq(1 .. MaxOps)]
  BY DEF LoaderTypeOK
<1>2. Len(session) \in Nat /\ Sessions = 1 .. Len(session)
  BY <1>1 DEF Sessions
<1>3. MaxSessions \in Nat /\ MaxOps \in Nat
  BY LoaderAssumption
<1>4. ASSUME NEW s \in Sessions
      PROVE  /\ made[s] \in Seq(Operations) /\ operations[s] \in Seq(1 .. MaxOps) /\ s \in 1 .. MaxSessions
  BY <1>1, <1>2, <1>3
<1>5. \A S : \A q \in Seq(S) : Len(q) \in Nat /\ DOMAIN q = 1 .. Len(q)
  OBVIOUS
<1>6. ASSUME NEW s \in Sessions
      PROVE  Len(made[s]) \in Nat /\ DOMAIN made[s] = 1 .. Len(made[s])
  BY <1>4, <1>5, Zenon
<1> QED
  BY <1>1, <1>2, <1>3, <1>4, <1>6

\* What LastWrite finds.
LEMMA LastWriteIsLast ==
  ASSUME NEW s, NEW n \in Nat, NEW a, LastWrite(s, n, a) # 0
  PROVE  LastWrite(s, n, a) \in 1 .. n - 1 /\ IsLast(s, n, a, LastWrite(s, n, a))
<1> DEFINE writes == {i \in 1 .. n - 1 : made[s][i].op = "write" /\ made[s][i].at = a}
<1>1. writes # {} /\ LastWrite(s, n, a) = CHOOSE i \in writes : \A j \in writes : j <= i
  BY DEF LastWrite
<1>2. \E m \in writes : \A j \in writes : j <= m
  <2>1. n - 1 \in Nat
    <3>1. \E i \in 1 .. n - 1 : TRUE
      BY <1>1
    <3> QED
      BY <3>1
  <2>2. writes \in SUBSET (1 .. n - 1)
    OBVIOUS
  <2> HIDE DEF writes
  <2> QED
    BY <1>1, <2>1, <2>2, Largest
<1>3. /\ LastWrite(s, n, a) \in writes /\ \A j \in writes : j <= LastWrite(s, n, a)
  <2> HIDE DEF writes
  <2> QED
    BY <1>1, <1>2
<1> QED
  BY <1>3 DEF IsLast, WritesOf

\* No target has more operations than there are.
LEMMA OpsCount ==
  ASSUME LoaderTypeOK, NEW s \in Sessions
  PROVE  OpsMade \in Nat /\ Len(made[s]) <= OpsMade
<1> DEFINE T == {o \in Sessions \X (1 .. MaxOps) : o[2] \in DOMAIN made[o[1]]}
           n == Len(made[s])
           f == [i \in 1 .. n |-> <<s, i>>]
<1>1. /\ Sessions = 1 .. Len(session) /\ Len(session) \in Nat /\ MaxOps \in Nat
      /\ n \in Nat /\ DOMAIN made[s] = 1 .. n
  BY LoaderFacts
<1>2. n <= MaxOps
  BY DEF LoaderTypeOK
<1>3. IsFiniteSet(Sessions \X (1 .. MaxOps))
  <2>1. IsFiniteSet(1 .. Len(session)) /\ IsFiniteSet(1 .. MaxOps)
    BY <1>1, CountTo
  <2> QED
    BY <1>1, <2>1, FS_Product
<1>4. IsFiniteSet(T) /\ Cardinality(T) \in Nat
  <2>1. T \in SUBSET (Sessions \X (1 .. MaxOps))
    OBVIOUS
  <2> HIDE DEF T
  <2> QED
    BY <1>3, <2>1, FS_Subset, FS_CardinalityType
<1>5. f \in Injection(1 .. n, T)
  <2>1. \A i \in 1 .. n : <<s, i>> \in T
    BY <1>1, <1>2
  <2>2. f \in [1 .. n -> T]
    BY <2>1
  <2>3. \A i, j \in 1 .. n : f[i] = f[j] => i = j
    OBVIOUS
  <2>4. DOMAIN f = 1 .. n
    OBVIOUS
  <2> HIDE DEF f, T, n
  <2> QED
    BY <2>2, <2>3, <2>4 DEF Injection, IsInjective
<1>6. Cardinality(1 .. n) <= Cardinality(T)
  <2> HIDE DEF f, T, n
  <2> QED
    BY <1>4, <1>5, FS_Injection
<1>7. Cardinality(1 .. n) = n
  <2> HIDE DEF n
  <2> QED
    BY <1>1, CountTo
<1>8. OpsMade = Cardinality(T)
  BY DEF OpsMade
<1> QED
  BY <1>4, <1>6, <1>7, <1>8

LEMMA LoaderInitInv == LoaderInit => LoaderIInv
<1> SUFFICES ASSUME LoaderInit PROVE LoaderIInv
  OBVIOUS
<1> USE DEF LoaderInit
<1>1. Sessions = {} /\ Len(session) = 0 /\ Len(commands) = 0
  BY DEF Sessions
<1>2. /\ << >> \in Seq({"calling", "queued", "open", "failed", "gone", "closed"})
      /\ << >> \in Seq({}) /\ 0 \in 0 .. MaxErrors
  BY LoaderAssumption
<1>3. \A S : << >> \in [{} -> S]
  OBVIOUS
<1>4. storage \in [Sectors -> Written]
  BY DEF Blank, Written
<1>5. LoaderTypeOK
  BY <1>1, <1>2, <1>3, <1>4, LoaderAssumption DEF LoaderTypeOK
<1> QED
  BY <1>1, <1>5 DEF LoaderIInv

\* Steps that neither serve nor ask for an operation.
LEMMA CallStepInv ==
  ASSUME LoaderIInv, UNCHANGED <<made, operations, position, storage>>, errors' \in 0 .. MaxErrors,
         session' \in Seq({"calling", "queued", "open", "failed", "gone", "closed"}),
         Len(session') = Len(session), Sessions' = Sessions,
         opened' \in [Sessions -> {"none", "queued", "serving", "ended"}],
         dirty' \in [Sessions -> [Sectors -> Written \cup {Kept}]],
         commands' = << >> \/ \E s \in Sessions : commands' = <<s>>,
         \A s, r \in Sessions : opened'[s] = "serving" /\ opened'[r] = "serving" => s = r,
         \A s \in Sessions : CallOK(s)',
         \A s \in Sessions : operations[s] # << >> => session'[s] = "open",
         \A s \in Sessions : opened'[s] = "serving" =>
           dirty'[s] = dirty[s] /\ (opened[s] = "serving" \/ made[s] = << >>)
  PROVE  LoaderIInv'
<1>1. LoaderTypeOK'
  <2>1. commands' \in Seq(Sessions) /\ Len(commands') <= 1
    <3>1. \A S : \A x \in S : <<x>> \in Seq(S) /\ Len(<<x>>) <= 1
      OBVIOUS
    <3>2. CASE commands' = << >>
      BY <3>2
    <3>3. CASE \E s \in Sessions : commands' = <<s>>
      <4>1. PICK s \in Sessions : commands' = <<s>>
        BY <3>3
      <4>2. <<s>> \in Seq(Sessions) /\ Len(<<s>>) <= 1
        BY <3>1, Zenon
      <4> QED
        BY <4>1, <4>2, Zenon
    <3> QED
      BY <3>2, <3>3
  <2> QED
    BY <2>1 DEF LoaderIInv, LoaderTypeOK
<1>2. ASSUME NEW s \in Sessions PROVE TargetOK(s)'
  <2>1. TargetOK(s) /\ CallOK(s)'
    BY DEF LoaderIInv
  <2>2. PendingOK(s)'
    BY <2>1 DEF TargetOK, PendingOK
  <2>3. ReadsKept(s)'
    BY <2>1 DEF TargetOK, ReadsKept, IsLast, WritesOf
  <2>4. made'[s] = made[s] /\ (made[s] = << >> => DOMAIN made[s] = {})
    OBVIOUS
  <2>5. FlushKept(s)'
    <3> SUFFICES ASSUME NEW n \in DOMAIN made'[s], n = Len(made'[s]), opened'[s] = "serving",
                        made'[s][n].op = "flush", made'[s][n].answer = "ok",
                        NEW a \in Sectors, NEW i \in DOMAIN made'[s],
                        IsLast(s, n, a, i)', made'[s][i].answer = "ok"
                 PROVE  storage'[a] = made'[s][i].value
      BY DEF FlushKept
    <3>1. opened[s] = "serving"
      BY <2>4
    <3>2. IsLast(s, n, a, i) /\ n \in DOMAIN made[s] /\ i \in DOMAIN made[s]
      BY DEF IsLast, WritesOf
    <3> QED
      BY <2>1, <3>1, <3>2 DEF TargetOK, FlushKept
  <2>6. Done(s)' = Done(s)
    BY DEF Done
  <2>7. LastIsKept(s)'
    <3> SUFFICES ASSUME opened'[s] = "serving", NEW a \in Sectors, NEW i \in DOMAIN made[s],
                        IsLast(s, Done(s) + 1, a, i), made[s][i].answer = "ok"
                 PROVE  Holds(s, a)' = made[s][i].value
      BY <2>4, <2>6 DEF LastIsKept, IsLast, WritesOf
    <3>1. opened[s] = "serving"
      BY <2>4
    <3>2. Holds(s, a)' = Holds(s, a)
      BY DEF Holds
    <3> QED
      BY <2>1, <3>1, <3>2 DEF TargetOK, LastIsKept
  <2> QED
    BY <2>1, <2>2, <2>3, <2>5, <2>7 DEF TargetOK
<1> QED
  BY <1>1, <1>2 DEF LoaderIInv

LEMMA SessionChanges ==
  ASSUME LoaderIInv, NEW s \in Sessions,
         NEW to \in {"calling", "queued", "open", "failed", "gone", "closed"},
         session' = [session EXCEPT ![s] = to]
  PROVE  /\ session' \in Seq({"calling", "queued", "open", "failed", "gone", "closed"})
         /\ Len(session') = Len(session) /\ Sessions' = Sessions
         /\ session'[s] = to /\ \A r \in Sessions \ {s} : session'[r] = session[r]
<1>1. session \in Seq({"calling", "queued", "open", "failed", "gone", "closed"}) /\ s \in DOMAIN session
  BY DEF LoaderIInv, LoaderTypeOK, Sessions
<1>2. /\ [session EXCEPT ![s] = to] \in Seq({"calling", "queued", "open", "failed", "gone", "closed"})
      /\ Len([session EXCEPT ![s] = to]) = Len(session)
      /\ DOMAIN [session EXCEPT ![s] = to] = DOMAIN session
  BY <1>1, Changes
<1> QED
  BY <1>1, <1>2 DEF Sessions

LEMMA SendOpenInv ==
  ASSUME LoaderIInv, NEW s \in Sessions, SendOpen(s)
  PROVE  LoaderIInv'
<1>1. /\ session[s] = "calling" /\ commands = << >> /\ commands' = <<s>>
      /\ session' = [session EXCEPT ![s] = "queued"] /\ opened' = [opened EXCEPT ![s] = "queued"]
      /\ UNCHANGED <<made, operations, position, dirty, storage, errors>>
  BY DEF SendOpen, ioVars
<1>2. /\ session' \in Seq({"calling", "queued", "open", "failed", "gone", "closed"})
      /\ Len(session') = Len(session) /\ Sessions' = Sessions
      /\ session'[s] = "queued" /\ \A r \in Sessions \ {s} : session'[r] = session[r]
  BY <1>1, SessionChanges
<1>3. /\ opened \in [Sessions -> {"none", "queued", "serving", "ended"}] /\ errors \in 0 .. MaxErrors
      /\ dirty \in [Sessions -> [Sectors -> Written \cup {Kept}]]
  BY DEF LoaderIInv, LoaderTypeOK
<1>4. /\ opened' \in [Sessions -> {"none", "queued", "serving", "ended"}]
      /\ opened'[s] = "queued" /\ \A r \in Sessions \ {s} : opened'[r] = opened[r]
  BY <1>1, <1>3
<1>5. \A r \in Sessions : CallOK(r) /\ PendingOK(r)
  BY DEF LoaderIInv, TargetOK
<1>6. \A r \in Sessions : CallOK(r)'
  <2>1. CallOK(s)'
    BY <1>1, <1>2, <1>4, <1>5 DEF CallOK
  <2>2. ASSUME NEW r \in Sessions \ {s} PROVE CallOK(r)'
    <3>1. commands # <<r>> /\ commands' # <<r>>
      BY <1>1
    <3> QED
      BY <1>1, <1>2, <1>4, <1>5, <3>1 DEF CallOK
  <2> QED
    BY <2>1, <2>2
<1>7. \A r \in Sessions : operations[r] # << >> => session'[r] = "open"
  BY <1>1, <1>2, <1>5 DEF PendingOK
<1> QED
  BY <1>1, <1>2, <1>3, <1>4, <1>6, <1>7, CallStepInv DEF LoaderIInv

LEMMA DropCloseInv ==
  ASSUME LoaderIInv, NEW s \in Sessions, DropCall(s) \/ CloseTarget(s)
  PROVE  LoaderIInv'
<1>1. /\ \/ /\ session' = [session EXCEPT ![s] = "gone"]
            /\ session[s] \in {"calling", "queued"}
         \/ /\ session' = [session EXCEPT ![s] = "closed"]
            /\ session[s] = "open" /\ ~ Waits(s)
      /\ UNCHANGED <<made, opened, commands, operations, position, dirty, storage, errors>>
  BY DEF DropCall, CloseTarget, ioVars
<1>2. /\ session' \in Seq({"calling", "queued", "open", "failed", "gone", "closed"})
      /\ Len(session') = Len(session) /\ Sessions' = Sessions
      /\ \/ session'[s] = "gone" /\ session[s] \in {"calling", "queued"}
         \/ session'[s] = "closed" /\ session[s] = "open" /\ ~ Waits(s)
      /\ \A r \in Sessions \ {s} : session'[r] = session[r]
  BY <1>1, SessionChanges
<1>3. /\ opened \in [Sessions -> {"none", "queued", "serving", "ended"}] /\ errors \in 0 .. MaxErrors
      /\ dirty \in [Sessions -> [Sectors -> Written \cup {Kept}]]
      /\ commands = << >> \/ \E r \in Sessions : commands = <<r>>
      /\ \A q, r \in Sessions : opened[q] = "serving" /\ opened[r] = "serving" => q = r
      /\ \A r \in Sessions : CallOK(r) /\ PendingOK(r)
  BY DEF LoaderIInv, LoaderTypeOK, TargetOK
<1>4. \A r \in Sessions : CallOK(r)'
  BY <1>1, <1>2, <1>3 DEF CallOK
<1>5. ~ Waits(s) /\ session[s] = "open" => operations[s] = << >>
  BY <1>3, LoaderFacts DEF PendingOK, Waits, LoaderIInv
<1>6. \A r \in Sessions : operations[r] # << >> => session'[r] = "open"
  BY <1>2, <1>3, <1>5 DEF PendingOK
<1> QED
  BY <1>1, <1>2, <1>3, <1>4, <1>6, CallStepInv

LEMMA TakeOpenInv ==
  ASSUME LoaderIInv, TakeOpen
  PROVE  LoaderIInv'
<1>1. PICK s \in Sessions : commands = <<s>>
  BY DEF TakeOpen, LoaderIInv
<1>2. Head(commands) = s /\ Tail(commands) = << >>
  BY <1>1
<1>3. PICK to \in {"serving", "ended"}, got \in {"open", "failed"} :
         /\ to = "serving" <=> got = "open"
         /\ opened' = [opened EXCEPT ![s] = to]
         /\ session' = [session EXCEPT ![s] = IF @ = "gone" THEN "gone" ELSE got]
         /\ errors' = errors \/ (errors < MaxErrors /\ errors' = errors + 1)
         /\ commands' = << >> /\ \A r \in Sessions : opened[r] # "serving"
         /\ UNCHANGED <<made, operations, position, dirty, storage>>
  BY <1>2 DEF TakeOpen, ioVars
<1>4. /\ opened \in [Sessions -> {"none", "queued", "serving", "ended"}] /\ errors \in 0 .. MaxErrors
      /\ dirty \in [Sessions -> [Sectors -> Written \cup {Kept}]]
      /\ \A r \in Sessions : CallOK(r) /\ PendingOK(r)
      /\ MaxErrors \in Nat
  BY LoaderAssumption DEF LoaderIInv, LoaderTypeOK, TargetOK
<1>5. /\ session' \in Seq({"calling", "queued", "open", "failed", "gone", "closed"})
      /\ Len(session') = Len(session) /\ Sessions' = Sessions
      /\ session'[s] = (IF session[s] = "gone" THEN "gone" ELSE got)
      /\ \A r \in Sessions \ {s} : session'[r] = session[r]
  BY <1>3, SessionChanges
<1>6. /\ opened' \in [Sessions -> {"none", "queued", "serving", "ended"}]
      /\ opened'[s] = to /\ \A r \in Sessions \ {s} : opened'[r] = opened[r]
  BY <1>3, <1>4
<1>7. opened[s] = "queued" /\ made[s] = << >> /\ session[s] \in {"queued", "gone"}
  <2>1. opened[s] = "queued" /\ made[s] = << >>
    BY <1>1, <1>4 DEF CallOK
  <2>2. session[s] \in {"calling", "queued", "open", "failed", "gone", "closed"}
    BY DEF LoaderIInv, LoaderTypeOK, Sessions
  <2> QED
    BY <1>4, <2>1, <2>2 DEF CallOK
<1>8. \A r \in Sessions : CallOK(r)'
  <2>1. CallOK(s)'
    BY <1>3, <1>5, <1>6, <1>7 DEF CallOK
  <2>2. ASSUME NEW r \in Sessions \ {s} PROVE CallOK(r)'
    <3>1. commands # <<r>> /\ commands' # <<r>>
      BY <1>1, <1>3
    <3> QED
      BY <1>3, <1>4, <1>5, <1>6, <3>1 DEF CallOK
  <2> QED
    BY <2>1, <2>2
<1>9. \A r \in Sessions : operations[r] # << >> => session'[r] = "open"
  BY <1>4, <1>5, <1>7 DEF PendingOK
<1>10. errors' \in 0 .. MaxErrors
  BY <1>3, <1>4
<1>11. /\ \A q, r \in Sessions : opened'[q] = "serving" /\ opened'[r] = "serving" => q = r
       /\ \A r \in Sessions : opened'[r] = "serving" => r = s
  BY <1>3, <1>6
<1> QED
  BY <1>3, <1>4, <1>5, <1>6, <1>7, <1>8, <1>9, <1>10, <1>11, CallStepInv

LEMMA ServeEndsInv ==
  ASSUME LoaderIInv, NEW s \in Sessions, ServeEnds(s)
  PROVE  LoaderIInv'
<1>1. /\ opened[s] = "serving" /\ session[s] \in {"gone", "closed"} /\ operations[s] = << >>
      /\ opened' = [opened EXCEPT ![s] = "ended"] /\ dirty' = [dirty EXCEPT ![s] = Clean]
      /\ UNCHANGED <<session, made, commands, operations, position, storage, errors>>
  BY DEF ServeEnds, userVars
<1>2. /\ opened \in [Sessions -> {"none", "queued", "serving", "ended"}] /\ errors \in 0 .. MaxErrors
      /\ dirty \in [Sessions -> [Sectors -> Written \cup {Kept}]]
      /\ session \in Seq({"calling", "queued", "open", "failed", "gone", "closed"})
      /\ commands = << >> \/ \E r \in Sessions : commands = <<r>>
      /\ \A q, r \in Sessions : opened[q] = "serving" /\ opened[r] = "serving" => q = r
      /\ \A r \in Sessions : CallOK(r) /\ PendingOK(r)
  BY DEF LoaderIInv, LoaderTypeOK, TargetOK
<1>3. /\ opened' \in [Sessions -> {"none", "queued", "serving", "ended"}]
      /\ opened'[s] = "ended" /\ \A r \in Sessions \ {s} : opened'[r] = opened[r] /\ dirty'[r] = dirty[r]
      /\ Sessions' = Sessions
  BY <1>1, <1>2 DEF Sessions
<1>4. dirty' \in [Sessions -> [Sectors -> Written \cup {Kept}]]
  BY <1>1, <1>2 DEF Clean
<1>5. \A r \in Sessions : CallOK(r)'
  BY <1>1, <1>2, <1>3 DEF CallOK
<1>6. \A r \in Sessions : operations[r] # << >> => session'[r] = "open"
  BY <1>1, <1>2 DEF PendingOK
<1> QED
  BY <1>1, <1>2, <1>3, <1>4, <1>5, <1>6, CallStepInv

LEMMA OperationTypes ==
  /\ \A o \in Operations : o.op \in {"read", "write", "flush"} /\ o.answer \in {"none", "ok", "failed"}
  /\ \A o \in Operations : o.op # "flush" => o.at \in Sectors /\ o.value \in Written
  BY DEF Operations

LEMMA WrittenFacts ==
  ASSUME LoaderTypeOK, NEW s \in Sessions, NEW n \in 1 .. MaxOps
  PROVE  <<s, n>> \in Written /\ Blank \in Written
  BY LoaderFacts DEF Written, Blank

\* A new operation comes after those that are done.
LEMMA RequestInv ==
  ASSUME LoaderIInv, NEW s \in Sessions, NEW operation,
         Len(made[s]) + 1 \in 1 .. MaxOps => operation \in Operations,
         operation.answer = "none", Request(s, operation)
  PROVE  LoaderIInv'
<1> PICK n : n = Len(made[s]) + 1
  OBVIOUS
<1> USE DEF LoaderIInv
<1>1. /\ session[s] = "open" /\ operations[s] = << >> /\ OpsMade < MaxOps
      /\ made' = [made EXCEPT ![s] = Append(made[s], operation)]
      /\ operations' = [operations EXCEPT ![s] = <<n>>]
      /\ UNCHANGED <<session, opened, commands, position, dirty, storage, errors>>
  BY DEF Request, ioVars
<1>2. n \in 1 .. MaxOps /\ Len(made[s]) = n - 1 /\ n - 1 \in Nat /\ operation \in Operations
  <2>1. Len(made[s]) \in Nat /\ MaxOps \in Nat /\ OpsMade \in Nat /\ Len(made[s]) <= OpsMade
    BY LoaderFacts, OpsCount
  <2> QED
    BY <1>1, <2>1
<1>3. Sessions' = Sessions
  BY <1>1 DEF Sessions
<1>4. /\ made[s] \in Seq(Operations) /\ DOMAIN made[s] = 1 .. n - 1
      /\ made'[s] \in Seq(Operations) /\ Len(made'[s]) = n /\ DOMAIN made'[s] = 1 .. n
      /\ made'[s][n] = operation /\ \A i \in 1 .. n - 1 : made'[s][i] = made[s][i]
  <2>1. made[s] \in Seq(Operations) /\ made'[s] = Append(made[s], operation)
    BY <1>1, LoaderFacts DEF LoaderTypeOK
  <2>2. /\ Append(made[s], operation) \in Seq(Operations)
        /\ Len(Append(made[s], operation)) = Len(made[s]) + 1
        /\ Append(made[s], operation)[Len(made[s]) + 1] = operation
        /\ \A i \in 1 .. Len(made[s]) : Append(made[s], operation)[i] = made[s][i]
        /\ DOMAIN made[s] = 1 .. Len(made[s])
        /\ DOMAIN Append(made[s], operation) = 1 .. Len(made[s]) + 1
    BY <1>2, <2>1, AppendGrows
  <2> QED
    BY <1>2, <2>1, <2>2
<1>5. /\ \A r \in Sessions \ {s} : made'[r] = made[r] /\ operations'[r] = operations[r]
      /\ operations'[s] = <<n>>
  BY <1>1 DEF LoaderTypeOK
<1>6. LoaderTypeOK'
  <2>1. made' \in [Sessions -> Seq(Operations)]
    BY <1>1, <1>4, <1>5 DEF LoaderTypeOK
  <2>2. ASSUME NEW r \in Sessions PROVE Len(made'[r]) <= MaxOps
    <3>1. CASE r = s
      BY <1>2, <1>4, <3>1
    <3>2. CASE r # s
      BY <1>5, <3>2 DEF LoaderTypeOK
    <3> QED
      BY <3>1, <3>2
  <2>3. <<n>> \in Seq(1 .. MaxOps) /\ Len(<<n>>) <= 1
    BY <1>2
  <2>4. operations' \in [Sessions -> Seq(1 .. MaxOps)] /\ \A r \in Sessions : Len(operations'[r]) <= 1
    BY <1>1, <1>5, <2>3 DEF LoaderTypeOK
  <2> QED
    BY <1>1, <1>3, <2>1, <2>2, <2>4 DEF LoaderTypeOK
<1>7. ASSUME NEW r \in Sessions \ {s} PROVE TargetOK(r)'
  <2>1. TargetOK(r) /\ made'[r] = made[r] /\ operations'[r] = operations[r] /\ dirty' = dirty /\ storage' = storage
        /\ session' = session /\ opened' = opened /\ commands' = commands
    BY <1>1, <1>5
  <2>2. CallOK(r)' /\ PendingOK(r)'
    BY <2>1 DEF TargetOK, CallOK, PendingOK
  <2>3. ReadsKept(r)' /\ FlushKept(r)'
    BY <2>1 DEF TargetOK, ReadsKept, FlushKept, IsLast, WritesOf
  <2>4. LastIsKept(r)'
    BY <2>1 DEF TargetOK, LastIsKept, Done, Holds, IsLast, WritesOf
  <2> QED
    BY <2>2, <2>3, <2>4 DEF TargetOK
<1>8. TargetOK(s)'
  <2>1. TargetOK(s) /\ opened[s] = "serving"
    BY <1>1 DEF TargetOK, CallOK
  <2>2. CallOK(s)'
    BY <1>1, <2>1 DEF TargetOK, CallOK
  <2>3. PendingOK(s)'
    <3>1. \A i \in 1 .. n - 1 : made'[s][i].answer # "none"
      BY <1>1, <1>4, <2>1 DEF TargetOK, PendingOK
    <3>2. made'[s] # << >>
      BY <1>2, <1>4
    <3>3. ASSUME NEW i \in 1 .. n PROVE made'[s][i].answer = "none" <=> <<n>> = <<i>>
      <4>1. CASE i = n
        BY <1>4, <4>1
      <4>2. CASE i # n
        <5>1. i \in 1 .. n - 1 /\ <<n>> # <<i>>
          BY <1>2, <4>2
        <5> QED
          BY <3>1, <5>1
      <4> QED
        BY <4>1, <4>2
    <3> QED
      BY <1>1, <1>4, <1>5, <3>2, <3>3 DEF PendingOK
  <2>4. ASSUME NEW m \in 1 .. n, NEW a, NEW i, IsLast(s, m, a, i)'
        PROVE  i \in 1 .. n - 1 /\ i \in DOMAIN made[s] /\ IsLast(s, m, a, i) /\ made'[s][i] = made[s][i]
    <3>1. i \in 1 .. m - 1 /\ (1 .. m - 1) \subseteq (1 .. n - 1)
      BY <1>2, <2>4 DEF IsLast
    <3>2. \A j \in 1 .. m - 1 : made'[s][j] = made[s][j]
      BY <1>4, <3>1
    <3> QED
      BY <1>4, <2>4, <3>1, <3>2 DEF IsLast, WritesOf
  <2>5. Done(s)' = n - 1 /\ Done(s) = n - 1
    <3>1. <<n>> # << >>
      OBVIOUS
    <3>2. Done(s) = Len(made[s])
      BY <1>1 DEF Done
    <3>3. Done(s)' = Len(made'[s]) - 1
      BY <1>5, <3>1 DEF Done
    <3> QED
      BY <1>2, <1>4, <3>2, <3>3
  <2>6. LastIsKept(s)'
    <3> SUFFICES ASSUME NEW a \in Sectors, NEW i \in DOMAIN made'[s],
                        IsLast(s, Done(s) + 1, a, i)', made'[s][i].answer = "ok"
                 PROVE  Holds(s, a)' = made'[s][i].value
      BY <1>1 DEF LastIsKept
    <3>1. Done(s)' + 1 = n /\ Done(s) + 1 = n /\ n \in 1 .. n
      BY <1>2, <2>5
    <3>2. i \in DOMAIN made[s] /\ IsLast(s, n, a, i) /\ made'[s][i] = made[s][i]
      BY <2>4, <3>1
    <3>3. Holds(s, a) = made[s][i].value
      BY <2>1, <3>1, <3>2 DEF TargetOK, LastIsKept
    <3> QED
      BY <1>1, <3>2, <3>3 DEF Holds
  <2>7. ReadsKept(s)'
    <3> SUFFICES ASSUME NEW m \in DOMAIN made'[s], made'[s][m].op = "read", made'[s][m].answer = "ok",
                        NEW i \in DOMAIN made'[s], IsLast(s, m, made[s][m].at, i)', made'[s][i].answer = "ok",
                        made'[s][m].at = made[s][m].at
                 PROVE  made'[s][m].value = made'[s][i].value
      <4>1. \A m \in DOMAIN made'[s] : made'[s][m].answer = "ok" => made'[s][m] = made[s][m]
        BY <1>4
      <4> QED
        BY <4>1 DEF ReadsKept, IsLast, WritesOf
    <3>1. m \in 1 .. n - 1 /\ m \in 1 .. n
      BY <1>4
    <3>2. i \in DOMAIN made[s] /\ IsLast(s, m, made[s][m].at, i) /\ made'[s][i] = made[s][i]
      BY <2>4, <3>1
    <3> QED
      BY <1>4, <2>1, <3>1, <3>2 DEF TargetOK, ReadsKept
  <2>8. FlushKept(s)'
    BY <1>4 DEF FlushKept
  <2> QED
    BY <2>2, <2>3, <2>6, <2>7, <2>8 DEF TargetOK
<1> QED
  BY <1>1, <1>3, <1>6, <1>7, <1>8

LEMMA AskInv ==
  ASSUME LoaderIInv, NEW s \in Sessions, DoRead(s) \/ DoWrite(s) \/ DoFlush(s)
  PROVE  LoaderIInv'
<1>0. LoaderTypeOK
  BY DEF LoaderIInv
<1>1. CASE DoRead(s)
  <2> PICK a \in Sectors : Request(s, [op |-> "read", at |-> a, answer |-> "none", value |-> Blank])
    BY <1>1 DEF DoRead
  <2>1. [op |-> "read", at |-> a, answer |-> "none", value |-> Blank] \in Operations
    BY DEF Operations, Written, Blank
  <2> QED
    BY <2>1, RequestInv
<1>2. CASE DoWrite(s)
  <2> PICK a \in Sectors :
        Request(s, [op |-> "write", at |-> a, answer |-> "none", value |-> <<s, Len(made[s]) + 1>>])
    BY <1>2 DEF DoWrite
  <2>1. ASSUME Len(made[s]) + 1 \in 1 .. MaxOps
        PROVE  [op |-> "write", at |-> a, answer |-> "none", value |-> <<s, Len(made[s]) + 1>>] \in Operations
    <3>1. <<s, Len(made[s]) + 1>> \in Written
      BY <1>0, <2>1, WrittenFacts
    <3> QED
      BY <3>1 DEF Operations
  <2> QED
    BY <2>1, RequestInv
<1>3. CASE DoFlush(s)
  <2>1. [op |-> "flush", answer |-> "none"] \in Operations
    BY DEF Operations
  <2> QED
    BY <1>3, <2>1, RequestInv DEF DoFlush
<1> QED
  BY <1>1, <1>2, <1>3

\* Serving an operation: what it reads is what the io and the storage hold, what it
\* writes is there when it is answered with Ok, and a flush stores everything.
Served(s, n, o2) ==
  /\ opened[s] = "serving" /\ operations[s] = <<n>>
  /\ o2.op = made[s][n].op /\ (o2.op # "flush" => o2.at = made[s][n].at)
  /\ o2.answer \in {"ok", "failed"}
  /\ made' = [made EXCEPT ![s] = [made[s] EXCEPT ![n] = o2]]
  /\ operations' = [operations EXCEPT ![s] = << >>]
  /\ UNCHANGED <<session, opened, commands>> /\ errors' \in 0 .. MaxErrors
  /\ position' \in [Sessions -> Nat] /\ storage' \in [Sectors -> Written]
  /\ dirty' \in [Sessions -> [Sectors -> Written \cup {Kept}]]
  /\ o2.op = "read" /\ o2.answer = "ok" => o2.value = Holds(s, o2.at)
  /\ o2.op = "write" /\ o2.answer = "ok" => Holds(s, o2.at)' = o2.value
  /\ o2.op = "flush" /\ o2.answer = "ok" => \A a \in Sectors : storage'[a] = Holds(s, a)
  /\ \A a \in Sectors : Holds(s, a)' = Holds(s, a) \/ (o2.op = "write" /\ o2.at = a)

LEMMA ServedInv ==
  ASSUME LoaderIInv, NEW s \in Sessions, NEW n \in DOMAIN made[s], NEW o2 \in Operations,
         Served(s, n, o2)
  PROVE  LoaderIInv'
<1>0. /\ opened[s] = "serving" /\ operations[s] = <<n>>
      /\ o2.op = made[s][n].op /\ (o2.op # "flush" => o2.at = made[s][n].at)
      /\ o2.answer \in {"ok", "failed"}
      /\ made' = [made EXCEPT ![s] = [made[s] EXCEPT ![n] = o2]]
      /\ operations' = [operations EXCEPT ![s] = << >>]
      /\ UNCHANGED <<session, opened, commands>> /\ errors' \in 0 .. MaxErrors
      /\ position' \in [Sessions -> Nat] /\ storage' \in [Sectors -> Written]
      /\ dirty' \in [Sessions -> [Sectors -> Written \cup {Kept}]]
      /\ o2.op = "read" /\ o2.answer = "ok" => o2.value = Holds(s, o2.at)
      /\ o2.op = "write" /\ o2.answer = "ok" => Holds(s, o2.at)' = o2.value
      /\ o2.op = "flush" /\ o2.answer = "ok" => \A a \in Sectors : storage'[a] = Holds(s, a)
      /\ \A a \in Sectors : Holds(s, a)' = Holds(s, a) \/ (o2.op = "write" /\ o2.at = a)
  BY DEF Served
<1> USE <1>0 DEF LoaderIInv
<1>1. /\ n = Len(made[s]) /\ n \in Nat \ {0} /\ DOMAIN made[s] = 1 .. n /\ session[s] = "open"
      /\ made[s] \in Seq(Operations) /\ TargetOK(s)
  <2>1. TargetOK(s)
    OBVIOUS
  <2>2. operations[s] # << >> /\ \A i, j : <<i>> = <<j>> => i = j
    OBVIOUS
  <2>3. n = Len(made[s]) /\ session[s] = "open"
    BY <2>1, <2>2 DEF TargetOK, PendingOK
  <2> QED
    BY <2>1, <2>3, LoaderFacts
<1>2. Sessions' = Sessions
  BY DEF Sessions
<1>3. /\ made'[s] \in Seq(Operations) /\ Len(made'[s]) = n /\ DOMAIN made'[s] = 1 .. n
      /\ made'[s][n] = o2 /\ \A i \in 1 .. n - 1 : made'[s][i] = made[s][i]
      /\ \A r \in Sessions \ {s} : made'[r] = made[r] /\ operations'[r] = operations[r]
      /\ operations'[s] = << >>
  <2>1. made'[s] = [made[s] EXCEPT ![n] = o2] /\ operations'[s] = << >>
    BY DEF LoaderTypeOK
  <2>2. /\ [made[s] EXCEPT ![n] = o2] \in Seq(Operations) /\ Len([made[s] EXCEPT ![n] = o2]) = Len(made[s])
        /\ DOMAIN [made[s] EXCEPT ![n] = o2] = DOMAIN made[s]
    BY <1>1, Changes
  <2>3. [made[s] EXCEPT ![n] = o2][n] = o2 /\ \A i \in 1 .. n - 1 : [made[s] EXCEPT ![n] = o2][i] = made[s][i]
    BY <1>1
  <2>4. \A r \in Sessions \ {s} : made'[r] = made[r] /\ operations'[r] = operations[r]
    BY DEF LoaderTypeOK
  <2> QED
    BY <1>1, <2>1, <2>2, <2>3, <2>4
<1>4. LoaderTypeOK'
  <2>1. made' \in [Sessions -> Seq(Operations)] /\ \A r \in Sessions : Len(made'[r]) <= MaxOps
    <3>1. made' \in [Sessions -> Seq(Operations)]
      BY <1>3 DEF LoaderTypeOK
    <3>2. Len(made'[s]) <= MaxOps /\ \A r \in Sessions \ {s} : Len(made'[r]) <= MaxOps
      BY <1>1, <1>3 DEF LoaderTypeOK
    <3> QED
      BY <3>1, <3>2
  <2>2. << >> \in Seq(1 .. MaxOps) /\ Len(<< >>) <= 1
    OBVIOUS
  <2>3. operations' \in [Sessions -> Seq(1 .. MaxOps)] /\ \A r \in Sessions : Len(operations'[r]) <= 1
    BY <1>3, <2>2 DEF LoaderTypeOK
  <2> QED
    BY <1>2, <2>1, <2>3 DEF LoaderTypeOK
<1>5. ASSUME NEW r \in Sessions \ {s} PROVE TargetOK(r)'
  <2>1. TargetOK(r) /\ made'[r] = made[r] /\ operations'[r] = operations[r] /\ opened'[r] # "serving"
    BY <1>3
  <2>2. CallOK(r)' /\ PendingOK(r)'
    BY <2>1 DEF TargetOK, CallOK, PendingOK
  <2>3. ReadsKept(r)'
    BY <2>1 DEF TargetOK, ReadsKept, IsLast, WritesOf
  <2>4. FlushKept(r)' /\ LastIsKept(r)'
    BY <2>1 DEF FlushKept, LastIsKept
  <2> QED
    BY <2>2, <2>3, <2>4 DEF TargetOK
<1>6. TargetOK(s)'
  <2>1. CallOK(s)'
    BY <1>1 DEF TargetOK, CallOK
  <2>2. PendingOK(s)'
    <3>1. ASSUME NEW i \in 1 .. n PROVE made'[s][i].answer # "none"
      <4>1. CASE i = n
        BY <1>3, <4>1
      <4>2. CASE i # n
        <5>1. i \in 1 .. n - 1 /\ <<n>> # <<i>>
          BY <1>1, <4>2
        <5> QED
          BY <1>1, <1>3, <5>1 DEF TargetOK, PendingOK
      <4> QED
        BY <4>1, <4>2
    <3>2. \A i : << >> # <<i>>
      OBVIOUS
    <3>3. operations'[s] = << >> /\ DOMAIN made'[s] = 1 .. n
      BY <1>3
    <3> QED
      BY <3>1, <3>2, <3>3 DEF PendingOK
  <2>3. Done(s)' = n /\ Done(s) = n - 1 /\ Done(s) + 1 = n /\ Done(s)' + 1 = n + 1
    <3>1. <<n>> # << >>
      OBVIOUS
    <3>2. Done(s)' = Len(made'[s]) /\ Done(s) = Len(made[s]) - 1
      BY <1>3, <3>1 DEF Done
    <3> QED
      BY <1>1, <1>3, <3>2
  <2>4. ASSUME NEW m \in 1 .. n, NEW a, NEW i, IsLast(s, m, a, i)'
        PROVE  i \in 1 .. n - 1 /\ i \in DOMAIN made[s] /\ IsLast(s, m, a, i) /\ made'[s][i] = made[s][i]
    <3>1. i \in 1 .. m - 1 /\ (1 .. m - 1) \subseteq (1 .. n - 1)
      BY <1>1, <2>4 DEF IsLast
    <3>2. \A j \in 1 .. m - 1 : made'[s][j] = made[s][j]
      BY <1>3, <3>1
    <3> QED
      BY <1>1, <2>4, <3>1, <3>2 DEF IsLast, WritesOf
  <2>5. ASSUME NEW a \in Sectors, NEW i, IsLast(s, n, a, i)', made'[s][i].answer = "ok"
        PROVE  Holds(s, a) = made'[s][i].value
    <3>2. n \in 1 .. n
      BY <1>1
    <3>1. i \in DOMAIN made[s] /\ IsLast(s, n, a, i) /\ made'[s][i] = made[s][i]
      BY <2>4, <2>5, <3>2
    <3> QED
      BY <1>1, <2>3, <2>5, <3>1 DEF TargetOK, LastIsKept
  <2>6. LastIsKept(s)'
    <3> SUFFICES ASSUME NEW a \in Sectors, NEW i \in DOMAIN made'[s],
                        IsLast(s, n + 1, a, i)', made'[s][i].answer = "ok"
                 PROVE  Holds(s, a)' = made'[s][i].value
      <4>1. (Done(s) + 1)' = n + 1
        BY <2>3
      <4> QED
        BY <2>3, <4>1 DEF LastIsKept, IsLast
    <3>1. i \in 1 .. n /\ WritesOf(s, i, a)' /\ \A j \in 1 .. n : j > i => ~ WritesOf(s, j, a)'
      BY <1>1 DEF IsLast
    <3>2. CASE i = n
      <4>1. o2.op = "write" /\ o2.at = a
        BY <1>3, <3>1, <3>2 DEF WritesOf
      <4> QED
        BY <1>3, <3>2, <4>1
    <3>3. CASE i # n
      <4>1. i \in 1 .. n - 1 /\ n > i /\ n \in 1 .. n /\ (1 .. n - 1) \subseteq (1 .. n)
        BY <1>1, <3>1, <3>3
      <4>2. IsLast(s, n, a, i)'
        BY <3>1, <4>1 DEF IsLast
      <4>3. ~ (o2.op = "write" /\ o2.at = a)
        BY <1>3, <3>1, <4>1 DEF WritesOf
      <4> QED
        BY <2>5, <4>2, <4>3
    <3> QED
      BY <3>2, <3>3
  <2>7. ReadsKept(s)'
    <3> SUFFICES ASSUME NEW m \in DOMAIN made'[s], made'[s][m].op = "read", made'[s][m].answer = "ok",
                        NEW i \in DOMAIN made'[s], IsLast(s, m, made[s][m].at, i)', made'[s][i].answer = "ok"
                 PROVE  made'[s][m].value = made'[s][i].value
      BY DEF ReadsKept
    <3>1. m \in 1 .. n
      BY <1>3
    <3>5. made'[s][m].at = made[s][m].at
      <4>1. CASE m = n
        BY <1>3, <4>1
      <4>2. CASE m # n
        <5>1. m \in 1 .. n - 1
          BY <1>1, <3>1, <4>2
        <5> QED
          BY <1>3, <5>1
      <4> QED
        BY <4>1, <4>2
    <3>2. i \in DOMAIN made[s] /\ IsLast(s, m, made[s][m].at, i) /\ made'[s][i] = made[s][i]
      BY <2>4, <3>1, <3>5
    <3>3. CASE m = n
      <4>1. made'[s][m] = o2 /\ o2.at = made[s][m].at /\ o2.at \in Sectors
        BY <1>3, <3>3, OperationTypes
      <4>2. o2.value = Holds(s, o2.at)
        BY <4>1
      <4>3. Holds(s, o2.at) = made'[s][i].value
        BY <2>5, <3>3, <4>1
      <4> QED
        BY <4>1, <4>2, <4>3
    <3>4. CASE m # n
      <4>1. m \in 1 .. n - 1
        BY <1>1, <3>1, <3>4
      <4> QED
        BY <1>1, <1>3, <3>2, <4>1 DEF TargetOK, ReadsKept
    <3> QED
      BY <3>3, <3>4
  <2>8. FlushKept(s)'
    <3> SUFFICES ASSUME o2.op = "flush", o2.answer = "ok", NEW a \in Sectors, NEW i \in DOMAIN made'[s],
                        IsLast(s, n, a, i)', made'[s][i].answer = "ok"
                 PROVE  storage'[a] = made'[s][i].value
      BY <1>3 DEF FlushKept
    <3> QED
      BY <2>5
  <2> QED
    BY <2>1, <2>2, <2>6, <2>7, <2>8 DEF TargetOK
<1> QED
  BY <1>2, <1>4, <1>5, <1>6

LEMMA AnswerTypes ==
  ASSUME NEW o \in Operations, NEW answer \in {"none", "ok", "failed"}, NEW p,
         p = [o EXCEPT !.answer = answer]
  PROVE  p \in Operations /\ p.op = o.op /\ p.answer = answer /\ (o.op # "flush" => p.at = o.at)
<1>1. CASE o \in [op : {"read", "write"}, at : Sectors, answer : {"none", "ok", "failed"}, value : Written]
  <2>1. p \in [op : {"read", "write"}, at : Sectors, answer : {"none", "ok", "failed"}, value : Written]
    BY <1>1
  <2> QED
    BY <1>1, <2>1 DEF Operations
<1>2. CASE o \in [op : {"flush"}, answer : {"none", "ok", "failed"}]
  <2>1. p \in [op : {"flush"}, answer : {"none", "ok", "failed"}]
    BY <1>2
  <2> QED
    BY <1>2, <2>1 DEF Operations
<1> QED
  BY <1>1, <1>2 DEF Operations

LEMMA AnswersAt ==
  ASSUME LoaderTypeOK, NEW s \in Sessions, NEW n \in DOMAIN made[s], NEW answer, NEW p,
         p = [made[s][n] EXCEPT !.answer = answer]
  PROVE  [made EXCEPT ![s][n].answer = answer] = [made EXCEPT ![s] = [made[s] EXCEPT ![n] = p]]
<1>1. made \in [Sessions -> Seq(Operations)]
  BY DEF LoaderTypeOK
<1> QED
  BY <1>1

LEMMA PutHolds ==
  ASSUME LoaderTypeOK, NEW s \in Sessions, NEW a \in Sectors, NEW value \in Written, Put(s, a, value)
  PROVE  /\ storage' \in [Sectors -> Written]
         /\ dirty' \in [Sessions -> [Sectors -> Written \cup {Kept}]]
         /\ Holds(s, a)' = value
         /\ \A b \in Sectors : b # a => Holds(s, b)' = Holds(s, b)
<1>1. /\ storage \in [Sectors -> Written] /\ dirty \in [Sessions -> [Sectors -> Written \cup {Kept}]]
      /\ dirty[s] \in [Sectors -> Written \cup {Kept}]
  BY DEF LoaderTypeOK
<1>2. value # Kept
  <2>1. Kept \notin Written
    BY LoaderAssumption DEF Written, Kept
  <2> QED
    BY <2>1
<1>3. CASE storage' = [storage EXCEPT ![a] = value] /\ dirty' = [dirty EXCEPT ![s][a] = Kept]
  <2>1. dirty'[s][a] = Kept /\ storage'[a] = value
    BY <1>1, <1>3
  <2>2. \A b \in Sectors : b # a => dirty'[s][b] = dirty[s][b] /\ storage'[b] = storage[b]
    BY <1>1, <1>3
  <2> QED
    BY <1>1, <1>3, <2>1, <2>2 DEF Holds
<1>4. CASE dirty' = [dirty EXCEPT ![s][a] = value] /\ storage' = storage
  <2>1. dirty'[s][a] = value
    BY <1>1, <1>4
  <2>2. \A b \in Sectors : b # a => dirty'[s][b] = dirty[s][b]
    BY <1>1, <1>4
  <2> QED
    BY <1>1, <1>2, <1>4, <2>1, <2>2 DEF Holds
<1> QED
  BY <1>3, <1>4 DEF Put

LEMMA HoldsTypes ==
  ASSUME LoaderTypeOK, NEW s \in Sessions, NEW a \in Sectors
  PROVE  Holds(s, a) \in Written
<1>1. storage[a] \in Written /\ dirty[s][a] \in Written \cup {Kept}
  BY DEF LoaderTypeOK
<1> QED
  BY <1>1 DEF Holds

\* The operation that a target has in its channel.
LEMMA Pending ==
  ASSUME LoaderIInv, NEW s \in Sessions, operations[s] # << >>
  PROVE  /\ Head(operations[s]) \in DOMAIN made[s] /\ operations[s] = <<Head(operations[s])>>
         /\ made[s][Head(operations[s])] \in Operations
<1>1. made[s] # << >> /\ operations[s] = <<Len(made[s])>>
  BY DEF LoaderIInv, TargetOK, PendingOK
<1>2. Head(operations[s]) = Len(made[s])
  BY <1>1
<1>3. made[s] \in Seq(Operations)
  BY LoaderFacts DEF LoaderIInv
<1>4. Len(made[s]) \in DOMAIN made[s] /\ made[s][Len(made[s])] \in Operations
  BY <1>1, <1>3
<1> QED
  BY <1>1, <1>2, <1>4

LEMMA ServeOkInv ==
  ASSUME LoaderIInv, NEW s \in Sessions, ServeOk(s)
  PROVE  LoaderIInv'
<1> PICK n : n = Head(operations[s])
  OBVIOUS
<1> PICK o : o = made[s][n]
  OBVIOUS
<1>0. LoaderTypeOK
  BY DEF LoaderIInv
<1>1. /\ opened[s] = "serving" /\ operations[s] = <<n>> /\ n \in DOMAIN made[s] /\ o \in Operations
      /\ operations' = [operations EXCEPT ![s] = << >>]
      /\ UNCHANGED <<session, opened, commands, errors>>
  BY Pending DEF ServeOk
<1>2. errors \in 0 .. MaxErrors /\ position \in [Sessions -> Nat] /\ Sectors \subseteq Nat
      /\ storage \in [Sectors -> Written] /\ dirty \in [Sessions -> [Sectors -> Written \cup {Kept}]]
  BY LoaderAssumption DEF LoaderIInv, LoaderTypeOK
<1>6. made \in [Sessions -> Seq(Operations)]
  BY DEF LoaderIInv, LoaderTypeOK
<1>3. CASE o.op = "write"
  <2>1. /\ Put(s, o.at, o.value) /\ o.at \in Sectors /\ o.value \in Written
        /\ made' = [made EXCEPT ![s][n].answer = "ok", ![s][n].value = o.value]
        /\ position' = [position EXCEPT ![s] = o.at + 1]
    BY <1>1, <1>3, OperationTypes DEF ServeOk, SeekTo, Answer
  <2> PICK o2 : o2 = [o EXCEPT !.answer = "ok", !.value = o.value]
    OBVIOUS
  <2>2. o2 \in Operations /\ o2.op = "write" /\ o2.answer = "ok" /\ o2.at = o.at /\ o2.value = o.value
    <3>1. o \in [op : {"read", "write"}, at : Sectors, answer : {"none", "ok", "failed"}, value : Written]
      BY <1>1, <1>3 DEF Operations
    <3>2. o2 \in [op : {"read", "write"}, at : Sectors, answer : {"none", "ok", "failed"}, value : Written]
      BY <3>1
    <3> QED
      BY <1>3, <3>1, <3>2 DEF Operations
  <2>3. made' = [made EXCEPT ![s] = [made[s] EXCEPT ![n] = o2]]
    BY <1>1, <1>6, <2>1
  <2>4. /\ storage' \in [Sectors -> Written] /\ dirty' \in [Sessions -> [Sectors -> Written \cup {Kept}]]
        /\ Holds(s, o.at)' = o.value /\ \A b \in Sectors : b # o.at => Holds(s, b)' = Holds(s, b)
    BY <1>0, <2>1, PutHolds
  <2>5. position' \in [Sessions -> Nat] /\ errors' \in 0 .. MaxErrors
    <3>1. o.at + 1 \in Nat
      <4>1. o.at \in Nat
        BY <1>2, <2>1, Zenon
      <4> QED
        BY <4>1
    <3>2. position' = [position EXCEPT ![s] = o.at + 1]
      BY <2>1
    <3>3. position' \in [Sessions -> Nat]
      BY <1>2, <3>1, <3>2
    <3> QED
      BY <1>1, <1>2, <3>3
  <2>6. /\ o2.op = made[s][n].op /\ o2.at = made[s][n].at /\ Holds(s, o2.at)' = o2.value
        /\ o2.op # "read" /\ o2.op # "flush" /\ o2.answer \in {"ok", "failed"}
        /\ \A b \in Sectors : Holds(s, b)' = Holds(s, b) \/ (o2.op = "write" /\ o2.at = b)
    BY <1>3, <2>2, <2>4
  <2>8. Served(s, n, o2)
    BY <1>1, <2>2, <2>3, <2>4, <2>5, <2>6 DEF Served
  <2> QED
    BY <1>1, <2>2, <2>8, ServedInv
<1>4. CASE o.op = "read"
  <2>1. /\ o.at \in Sectors /\ UNCHANGED <<dirty, storage>>
        /\ made' = [made EXCEPT ![s][n].answer = "ok", ![s][n].value = Holds(s, o.at)]
        /\ position' = [position EXCEPT ![s] = o.at + 1]
    BY <1>1, <1>4, OperationTypes DEF ServeOk, SeekTo, Answer
  <2> PICK o2 : o2 = [o EXCEPT !.answer = "ok", !.value = Holds(s, o.at)]
    OBVIOUS
  <2>2. o2 \in Operations /\ o2.op = "read" /\ o2.answer = "ok" /\ o2.at = o.at /\ o2.value = Holds(s, o.at)
    <3>1. Holds(s, o.at) \in Written
      BY <1>0, <2>1, HoldsTypes
    <3>2. o \in [op : {"read", "write"}, at : Sectors, answer : {"none", "ok", "failed"}, value : Written]
      BY <1>1, <1>4 DEF Operations
    <3>3. o2 \in [op : {"read", "write"}, at : Sectors, answer : {"none", "ok", "failed"}, value : Written]
      BY <3>1, <3>2
    <3> QED
      BY <1>4, <3>2, <3>3 DEF Operations
  <2>3. made' = [made EXCEPT ![s] = [made[s] EXCEPT ![n] = o2]]
    BY <1>1, <1>6, <2>1
  <2>4. \A b \in Sectors : Holds(s, b)' = Holds(s, b)
    BY <2>1 DEF Holds
  <2>5. position' \in [Sessions -> Nat] /\ errors' \in 0 .. MaxErrors
    BY <1>1, <1>2, <2>1
  <2>6. /\ o2.op = made[s][n].op /\ o2.at = made[s][n].at /\ o2.value = Holds(s, o2.at)
        /\ o2.op # "write" /\ o2.op # "flush" /\ o2.answer \in {"ok", "failed"}
        /\ dirty' \in [Sessions -> [Sectors -> Written \cup {Kept}]] /\ storage' \in [Sectors -> Written]
    BY <1>2, <1>4, <2>1, <2>2
  <2>8. Served(s, n, o2)
    BY <1>1, <1>2, <2>1, <2>2, <2>3, <2>4, <2>5, <2>6 DEF Served
  <2> QED
    BY <1>1, <2>2, <2>8, ServedInv
<1>5. CASE o.op = "flush"
  <2>1. /\ storage' = [a \in Sectors |-> Holds(s, a)] /\ dirty' = [dirty EXCEPT ![s] = Clean]
        /\ made' = [made EXCEPT ![s][n].answer = "ok"]
        /\ position' = [position EXCEPT ![s] = position[s]]
    BY <1>1, <1>5 DEF ServeOk
  <2> PICK o2 : o2 = [o EXCEPT !.answer = "ok"]
    OBVIOUS
  <2>2. o2 \in Operations /\ o2.op = "flush" /\ o2.answer = "ok"
    BY <1>1, <1>5, AnswerTypes
  <2>3. made' = [made EXCEPT ![s] = [made[s] EXCEPT ![n] = o2]]
    BY <1>0, <1>1, <2>1, AnswersAt
  <2>4. storage' \in [Sectors -> Written] /\ dirty' \in [Sessions -> [Sectors -> Written \cup {Kept}]]
    BY <1>0, <1>2, <2>1, HoldsTypes DEF Clean
  <2>5. position' \in [Sessions -> Nat] /\ errors' \in 0 .. MaxErrors
    BY <1>1, <1>2, <2>1
  <2>6. \A b \in Sectors : storage'[b] = Holds(s, b) /\ Holds(s, b)' = Holds(s, b)
    <3>1. \A b \in Sectors : dirty'[s][b] = Kept /\ storage'[b] = Holds(s, b)
      BY <1>2, <2>1 DEF Clean
    <3>2. \A b \in Sectors : Holds(s, b)' = storage'[b]
      BY <3>1 DEF Holds
    <3> QED
      BY <3>1, <3>2
  <2>7. o2.op = made[s][n].op
    BY <1>5, <2>2
  <2>8. Served(s, n, o2)
    BY <1>1, <2>2, <2>3, <2>4, <2>5, <2>6, <2>7 DEF Served
  <2> QED
    BY <1>1, <2>2, <2>8, ServedInv
<1> QED
  BY <1>1, <1>3, <1>4, <1>5, OperationTypes

LEMMA ServeFailsInv ==
  ASSUME LoaderIInv, NEW s \in Sessions, ServeFails(s)
  PROVE  LoaderIInv'
<1> PICK n : n = Head(operations[s])
  OBVIOUS
<1> PICK o : o = made[s][n]
  OBVIOUS
<1>0. LoaderTypeOK
  BY DEF LoaderIInv
<1>1. /\ opened[s] = "serving" /\ operations[s] = <<n>> /\ n \in DOMAIN made[s] /\ o \in Operations
      /\ operations' = [operations EXCEPT ![s] = << >>]
      /\ made' = [made EXCEPT ![s][n].answer = "failed"]
      /\ (o.op = "write" /\ Put(s, o.at, o.value)) \/ UNCHANGED <<dirty, storage>>
      /\ errors < MaxErrors /\ errors' = errors + 1
      /\ UNCHANGED <<session, opened, commands, position>>
  BY Pending DEF ServeFails
<1>2. errors \in 0 .. MaxErrors /\ MaxErrors \in Nat /\ position \in [Sessions -> Nat]
      /\ storage \in [Sectors -> Written] /\ dirty \in [Sessions -> [Sectors -> Written \cup {Kept}]]
  BY LoaderAssumption DEF LoaderIInv, LoaderTypeOK
<1>3. errors' \in 0 .. MaxErrors
  BY <1>1, <1>2
<1> PICK o2 : o2 = [o EXCEPT !.answer = "failed"]
  OBVIOUS
<1>4. o2 \in Operations /\ o2.op = o.op /\ o2.answer = "failed" /\ (o.op # "flush" => o2.at = o.at)
  BY <1>1, AnswerTypes
<1>5. made' = [made EXCEPT ![s] = [made[s] EXCEPT ![n] = o2]]
  BY <1>0, <1>1, AnswersAt
<1>6. /\ storage' \in [Sectors -> Written] /\ dirty' \in [Sessions -> [Sectors -> Written \cup {Kept}]]
      /\ \A b \in Sectors : Holds(s, b)' = Holds(s, b) \/ (o2.op = "write" /\ o2.at = b)
  <2>1. CASE o.op = "write" /\ Put(s, o.at, o.value)
    <3>1. o.at \in Sectors /\ o.value \in Written
      BY <1>1, <2>1, OperationTypes
    <3>2. /\ storage' \in [Sectors -> Written] /\ dirty' \in [Sessions -> [Sectors -> Written \cup {Kept}]]
          /\ \A b \in Sectors : b # o.at => Holds(s, b)' = Holds(s, b)
      BY <1>0, <2>1, <3>1, PutHolds
    <3> QED
      BY <1>4, <2>1, <3>2
  <2>2. CASE UNCHANGED <<dirty, storage>>
    BY <1>2, <2>2 DEF Holds
  <2> QED
    BY <1>1, <2>1, <2>2
<1>7. /\ o2.op = made[s][n].op /\ (o2.op # "flush" => o2.at = made[s][n].at)
      /\ o2.answer # "ok" /\ o2.answer \in {"ok", "failed"} /\ position' \in [Sessions -> Nat]
  BY <1>1, <1>2, <1>4
<1>8. Served(s, n, o2)
  BY <1>1, <1>3, <1>4, <1>5, <1>6, <1>7 DEF Served
<1> QED
  BY <1>1, <1>4, <1>8, ServedInv

LEMMA CallOpenInv ==
  ASSUME LoaderIInv, CallOpen
  PROVE  LoaderIInv'
<1> PICK n : n = Len(session)
  OBVIOUS
<1> USE DEF LoaderIInv
<1>0. n \in Nat /\ \A s \in 1 .. n + 1 : s = n + 1 \/ s \in 1 .. n
  <2>1. n \in Nat
    BY LoaderFacts
  <2> QED
    BY <2>1
<1>1. /\ n \in Nat /\ n < MaxSessions /\ Sessions = 1 .. n /\ n + 1 \notin Sessions
      /\ session' = Append(session, "calling") /\ made' = Append(made, << >>)
      /\ opened' = Append(opened, "none") /\ operations' = Append(operations, << >>)
      /\ position' = Append(position, 0) /\ dirty' = Append(dirty, Clean)
      /\ UNCHANGED <<commands, storage, errors>>
  BY LoaderFacts DEF CallOpen
<1>2. /\ session' \in Seq({"calling", "queued", "open", "failed", "gone", "closed"})
      /\ Len(session') = n + 1 /\ Sessions' = 1 .. n + 1
      /\ session'[n + 1] = "calling" /\ \A s \in 1 .. n : session'[s] = session[s]
  <2>1. session \in Seq({"calling", "queued", "open", "failed", "gone", "closed"})
    BY DEF LoaderTypeOK
  <2> QED
    BY <1>1, <2>1, AppendGrows DEF Sessions
<1>3. /\ made' \in [1 .. n + 1 -> Seq(Operations)] /\ made'[n + 1] = << >>
      /\ \A s \in 1 .. n : made'[s] = made[s]
  <2>1. made \in [1 .. n -> Seq(Operations)] /\ << >> \in Seq(Operations)
    BY <1>1 DEF LoaderTypeOK
  <2>2. made \in Seq(Seq(Operations)) /\ Len(made) = n
    BY <1>0, <2>1
  <2>3. made' \in Seq(Seq(Operations)) /\ Len(made') = n + 1
    BY <1>1, <2>1, <2>2, AppendGrows
  <2>4. made'[n + 1] = << >> /\ \A s \in 1 .. n : made'[s] = made[s]
    BY <1>1, <2>1, <2>2, AppendGrows
  <2> QED
    BY <2>3, <2>4, SeqIsFunction
<1>4. /\ opened' \in [1 .. n + 1 -> {"none", "queued", "serving", "ended"}] /\ opened'[n + 1] = "none"
      /\ \A s \in 1 .. n : opened'[s] = opened[s]
  <2>1. opened \in [1 .. n -> {"none", "queued", "serving", "ended"}]
    BY <1>1 DEF LoaderTypeOK
  <2>2. opened \in Seq({"none", "queued", "serving", "ended"}) /\ Len(opened) = n
    BY <1>0, <2>1
  <2>3. opened' \in Seq({"none", "queued", "serving", "ended"}) /\ Len(opened') = n + 1
    BY <1>1, <2>1, <2>2, AppendGrows
  <2>4. opened'[n + 1] = "none" /\ \A s \in 1 .. n : opened'[s] = opened[s]
    BY <1>1, <2>1, <2>2, AppendGrows
  <2> QED
    BY <2>3, <2>4, SeqIsFunction
<1>5. /\ operations' \in [1 .. n + 1 -> Seq(1 .. MaxOps)] /\ operations'[n + 1] = << >>
      /\ \A s \in 1 .. n : operations'[s] = operations[s]
  <2>1. operations \in [1 .. n -> Seq(1 .. MaxOps)] /\ << >> \in Seq(1 .. MaxOps)
    BY <1>1 DEF LoaderTypeOK
  <2>2. operations \in Seq(Seq(1 .. MaxOps)) /\ Len(operations) = n
    BY <1>0, <2>1
  <2>3. operations' \in Seq(Seq(1 .. MaxOps)) /\ Len(operations') = n + 1
    BY <1>1, <2>1, <2>2, AppendGrows
  <2>4. operations'[n + 1] = << >> /\ \A s \in 1 .. n : operations'[s] = operations[s]
    BY <1>1, <2>1, <2>2, AppendGrows
  <2> QED
    BY <2>3, <2>4, SeqIsFunction
<1>6. position' \in [1 .. n + 1 -> Nat]
  <2>1. position \in [1 .. n -> Nat] /\ 0 \in Nat
    BY <1>1 DEF LoaderTypeOK
  <2> QED
    BY <1>1, <2>1, Grows
<1>7. /\ dirty' \in [1 .. n + 1 -> [Sectors -> Written \cup {Kept}]]
      /\ \A s \in 1 .. n : dirty'[s] = dirty[s]
  <2>1. dirty \in [1 .. n -> [Sectors -> Written \cup {Kept}]] /\ Clean \in [Sectors -> Written \cup {Kept}]
    BY <1>1 DEF LoaderTypeOK, Clean
  <2>2. dirty \in Seq([Sectors -> Written \cup {Kept}]) /\ Len(dirty) = n
    BY <1>0, <2>1
  <2>3. dirty' \in Seq([Sectors -> Written \cup {Kept}]) /\ Len(dirty') = n + 1
    BY <1>1, <2>1, <2>2, AppendGrows
  <2>4. dirty'[n + 1] = Clean /\ \A s \in 1 .. n : dirty'[s] = dirty[s]
    BY <1>1, <2>1, <2>2, AppendGrows
  <2> QED
    BY <2>3, <2>4, SeqIsFunction
<1>8. commands' \in Seq(Sessions') /\ Len(commands') <= 1
  <2>1. Sessions \subseteq Sessions' /\ commands \in Seq(Sessions) /\ Len(commands) <= 1
    BY <1>1, <1>2 DEF LoaderTypeOK
  <2> QED
    BY <1>1, <2>1, SeqWidens
<1>9. LoaderTypeOK'
  <2>1. ASSUME NEW s \in 1 .. n + 1 PROVE Len(made'[s]) <= MaxOps /\ Len(operations'[s]) <= 1
    <3>1. CASE s = n + 1
      BY <1>3, <1>5, <3>1, LoaderAssumption
    <3>2. CASE s \in 1 .. n
      BY <1>1, <1>3, <1>5, <3>2 DEF LoaderTypeOK
    <3> QED
      BY <1>0, <3>1, <3>2
  <2>2. n + 1 <= MaxSessions
    BY <1>1, LoaderAssumption
  <2>3. storage' \in [Sectors -> Written] /\ errors' \in 0 .. MaxErrors
    BY <1>1 DEF LoaderTypeOK
  <2> QED
    BY <1>2, <1>3, <1>4, <1>5, <1>6, <1>7, <1>8, <2>1, <2>2, <2>3 DEF LoaderTypeOK
<1>10. TargetOK(n + 1)'
  <2>1. commands' # <<n + 1>>
    <3>1. \A s \in Sessions : <<s>> # <<n + 1>>
      BY <1>1
    <3>2. << >> # <<n + 1>>
      OBVIOUS
    <3> QED
      BY <1>1, <3>1, <3>2
  <2>2. CallOK(n + 1)'
    BY <1>2, <1>3, <1>4, <2>1 DEF CallOK
  <2>3. DOMAIN made'[n + 1] = {}
    BY <1>3
  <2>4. PendingOK(n + 1)'
    BY <1>5, <2>3 DEF PendingOK
  <2>5. ReadsKept(n + 1)' /\ FlushKept(n + 1)' /\ LastIsKept(n + 1)'
    BY <2>3 DEF ReadsKept, FlushKept, LastIsKept
  <2> QED
    BY <2>2, <2>4, <2>5 DEF TargetOK
<1>11. ASSUME NEW s \in 1 .. n PROVE TargetOK(s)'
  <2>1. /\ TargetOK(s) /\ session'[s] = session[s] /\ made'[s] = made[s] /\ opened'[s] = opened[s]
        /\ operations'[s] = operations[s] /\ dirty'[s] = dirty[s] /\ commands' = commands /\ storage' = storage
    BY <1>1, <1>2, <1>3, <1>4, <1>5, <1>7
  <2>2. CallOK(s)' /\ PendingOK(s)'
    BY <2>1 DEF TargetOK, CallOK, PendingOK
  <2>3. ReadsKept(s)' /\ FlushKept(s)'
    BY <2>1 DEF TargetOK, ReadsKept, FlushKept, IsLast, WritesOf
  <2>4. LastIsKept(s)'
    BY <2>1 DEF TargetOK, LastIsKept, Done, Holds, IsLast, WritesOf
  <2> QED
    BY <2>2, <2>3, <2>4 DEF TargetOK
<1>12. \A s, r \in Sessions' : opened'[s] = "serving" /\ opened'[r] = "serving" => s = r
  <2>1. \A s \in Sessions' : s = n + 1 \/ s \in 1 .. n
    BY <1>1, <1>2
  <2> QED
    BY <1>1, <1>4, <2>1
<1>13. commands' = << >> \/ \E s \in Sessions' : commands' = <<s>>
  <2>1. Sessions \subseteq Sessions'
    BY <1>1, <1>2
  <2> QED
    BY <1>1, <2>1
<1>14. \A s \in Sessions' : s = n + 1 \/ s \in 1 .. n
  BY <1>0, <1>2
<1> QED
  BY <1>9, <1>10, <1>11, <1>12, <1>13, <1>14

LEMMA LoaderStepInv == LoaderIInv /\ [LoaderNext]_loaderVars => LoaderIInv'
<1> SUFFICES ASSUME LoaderIInv, [LoaderNext]_loaderVars PROVE LoaderIInv'
  OBVIOUS
<1>1. CASE UNCHANGED loaderVars
  <2>1. UNCHANGED <<session, made, opened, commands, operations, position, dirty, storage, errors>>
    BY <1>1 DEF loaderVars, userVars, ioVars
  <2>2. /\ session \in Seq({"calling", "queued", "open", "failed", "gone", "closed"})
        /\ opened \in [Sessions -> {"none", "queued", "serving", "ended"}] /\ errors \in 0 .. MaxErrors
        /\ dirty \in [Sessions -> [Sectors -> Written \cup {Kept}]]
        /\ commands = << >> \/ \E r \in Sessions : commands = <<r>>
        /\ \A q, r \in Sessions : opened[q] = "serving" /\ opened[r] = "serving" => q = r
        /\ \A s \in Sessions : CallOK(s) /\ PendingOK(s)
    BY DEF LoaderIInv, LoaderTypeOK, TargetOK
  <2>3. Sessions' = Sessions /\ \A s \in Sessions : CallOK(s)'
    BY <2>1, <2>2 DEF Sessions, CallOK
  <2>4. \A s \in Sessions : operations[s] # << >> => session'[s] = "open"
    BY <2>1, <2>2 DEF PendingOK
  <2> QED
    BY <2>1, <2>2, <2>3, <2>4, CallStepInv
<1>2. ASSUME NEW s \in Sessions,
             SendOpen(s) \/ DropCall(s) \/ DoRead(s) \/ DoWrite(s) \/ DoFlush(s) \/ CloseTarget(s)
      PROVE  LoaderIInv'
  BY <1>2, SendOpenInv, DropCloseInv, AskInv
<1>3. ASSUME NEW s \in Sessions, ServeOk(s) \/ ServeFails(s) \/ ServeEnds(s)
      PROVE  LoaderIInv'
  BY <1>3, ServeOkInv, ServeFailsInv, ServeEndsInv
<1> QED
  BY <1>1, <1>2, <1>3, CallOpenInv, TakeOpenInv DEF LoaderNext, LoaderStep

LEMMA ReadsAreOwn == LoaderIInv => ReadsOwnWrites
<1> SUFFICES ASSUME LoaderIInv, NEW s \in Sessions, NEW n \in DOMAIN made[s],
                    made[s][n].op = "read", made[s][n].answer = "ok",
                    NEW w, w = LastWrite(s, n, made[s][n].at), w # 0, made[s][w].answer = "ok"
             PROVE  made[s][n].value = made[s][w].value
  BY DEF ReadsOwnWrites
<1>1. DOMAIN made[s] = 1 .. Len(made[s]) /\ Len(made[s]) \in Nat
  BY LoaderFacts DEF LoaderIInv
<1>2. n \in Nat /\ (1 .. n - 1) \subseteq DOMAIN made[s]
  BY <1>1
<1>3. w \in 1 .. n - 1 /\ IsLast(s, n, made[s][n].at, w)
  BY <1>2, LastWriteIsLast
<1> QED
  BY <1>2, <1>3 DEF LoaderIInv, TargetOK, ReadsKept

LEMMA FlushesStore == LoaderIInv => FlushedIsStored
<1> SUFFICES ASSUME LoaderIInv, NEW s \in Sessions, NEW n, n = Len(made[s]), n > 0, opened[s] = "serving",
                    made[s][n].op = "flush", made[s][n].answer = "ok", NEW a \in Sectors,
                    NEW w, w = LastWrite(s, n, a), w # 0, made[s][w].answer = "ok"
             PROVE  storage[a] = made[s][w].value
  BY DEF FlushedIsStored
<1>1. DOMAIN made[s] = 1 .. Len(made[s]) /\ Len(made[s]) \in Nat
  BY LoaderFacts DEF LoaderIInv
<1>2. n \in Nat /\ n \in DOMAIN made[s] /\ (1 .. n - 1) \subseteq DOMAIN made[s]
  BY <1>1
<1>3. w \in 1 .. n - 1 /\ IsLast(s, n, a, w)
  BY <1>2, LastWriteIsLast
<1> QED
  BY <1>2, <1>3 DEF LoaderIInv, TargetOK, FlushKept

\* What a target of a rockusb device reads and stores is its own, for any number of
\* targets, operations and failures (rockusb_task and handle_io of rockusb.rs).
THEOREM LoaderSafe == LoaderSpec => []LoaderInv
<1>1. LoaderIInv => LoaderInv
  BY ReadsAreOwn, FlushesStore DEF LoaderIInv, LoaderInv
<1> QED
  BY <1>1, LoaderInitInv, LoaderStepInv, PTL DEF LoaderSpec

LEMMA LoaderTurnChanges ==
  ASSUME NEW s \in 1 .. MaxSessions,
         \A r \in 1 .. MaxSessions \ {s} : Turn(r)' = Turn(r)
  PROVE  [r \in 1 .. MaxSessions |-> Turn(r)]' =
           [[r \in 1 .. MaxSessions |-> Turn(r)] EXCEPT ![s] = Turn(s)']
  OBVIOUS

LEMMA LoaderTurnsStay ==
  ASSUME Sessions' = Sessions, opened' = opened, \A s \in Sessions : Turn(s)' = Turn(s)
  PROVE  UNCHANGED [s \in 1 .. MaxSessions |-> Turn(s)]
<1>1. \A s \in 1 .. MaxSessions : Turn(s)' = Turn(s)
  BY DEF Turn
<1> QED
  BY <1>1

LEMMA LoaderStepTurns ==
  ASSUME LoaderIInv, [LoaderNext]_loaderVars
  PROVE  [LoaderUse!Next]_[s \in 1 .. MaxSessions |-> Turn(s)]
<1> USE DEF LoaderIInv
<1>1. Len(session) \in Nat /\ Sessions = 1 .. Len(session) /\ Len(session) <= MaxSessions /\ MaxSessions \in Nat
      /\ Sessions \subseteq 1 .. MaxSessions
  BY LoaderFacts
<1>2. CASE CallOpen
  <2> PICK n : n = Len(session) + 1
    OBVIOUS
  <2>1. n \in 1 .. MaxSessions /\ n \notin Sessions /\ Sessions = 1 .. n - 1 /\ n - 1 \in Nat
    BY <1>1, <1>2 DEF CallOpen
  <2>2. session' = Append(session, "calling") /\ opened' = Append(opened, "none")
    BY <1>2 DEF CallOpen
  <2>3. /\ Sessions' = 1 .. n /\ session'[n] = "calling"
        /\ \A s \in Sessions : session'[s] = session[s]
    <3>1. session \in Seq({"calling", "queued", "open", "failed", "gone", "closed"})
      BY DEF LoaderTypeOK
    <3> QED
      BY <1>1, <2>2, <3>1, AppendGrows DEF Sessions
  <2>4. opened'[n] = "none" /\ \A s \in Sessions : opened'[s] = opened[s]
    <3>1. opened \in [1 .. n - 1 -> {"none", "queued", "serving", "ended"}]
      BY <2>1 DEF LoaderTypeOK
    <3>2. opened \in Seq({"none", "queued", "serving", "ended"}) /\ Len(opened) = n - 1
      BY <2>1, <3>1
    <3>3. opened'[Len(opened) + 1] = "none" /\ \A s \in 1 .. Len(opened) : opened'[s] = opened[s]
      BY <2>2, <3>2, AppendGrows
    <3> QED
      BY <2>1, <3>2, <3>3
  <2>5. \A s \in 1 .. MaxSessions \ {n} : s \in Sessions' <=> s \in Sessions
    BY <2>1, <2>3
  <2>6. Turn(n) = "away" /\ Turn(n)' = "waiting"
    BY <2>1, <2>3, <2>4 DEF Turn
  <2>7. \A s \in 1 .. MaxSessions \ {n} : Turn(s)' = Turn(s)
    BY <2>3, <2>4, <2>5 DEF Turn
  <2>8. LoaderUse!Ask(n)
    BY <2>1, <2>6, <2>7, LoaderTurnChanges DEF LoaderUse!Ask
  <2> QED
    BY <2>1, <2>8 DEF LoaderUse!Next
<1>3. CASE TakeOpen
  <2>1. PICK s \in Sessions : commands = <<s>>
    BY <1>3 DEF TakeOpen
  <2>2. Head(commands) = s /\ Tail(commands) = << >>
    BY <2>1
  <2>3. PICK to \in {"serving", "ended"}, got \in {"open", "failed"} :
           /\ opened' = [opened EXCEPT ![s] = to]
           /\ session' = [session EXCEPT ![s] = IF @ = "gone" THEN "gone" ELSE got]
           /\ \A r \in Sessions : opened[r] # "serving"
    BY <1>3, <2>2 DEF TakeOpen
  <2>4. opened[s] = "queued"
    BY <2>1 DEF TargetOK, CallOK
  <2>5. opened'[s] = to /\ \A r \in Sessions \ {s} : opened'[r] = opened[r]
    BY <2>3 DEF LoaderTypeOK
  <2>6. Sessions' = Sessions /\ \A r \in Sessions \ {s} : session'[r] = session[r]
    BY <2>3, SessionChanges
  <2>7. Turn(s) = "waiting" /\ Turn(s)' = IF to = "serving" THEN "using" ELSE "done"
    BY <2>4, <2>5, <2>6 DEF Turn
  <2>8. \A r \in 1 .. MaxSessions \ {s} : Turn(r)' = Turn(r)
    BY <2>5, <2>6 DEF Turn
  <2>9. \A r \in 1 .. MaxSessions : Turn(r) # "using"
    BY <2>3 DEF Turn
  <2>10. s \in 1 .. MaxSessions
    BY <1>1
  <2>11. CASE to = "serving"
    <3>1. LoaderUse!Begin(s)
      BY <2>7, <2>8, <2>9, <2>10, <2>11, LoaderTurnChanges DEF LoaderUse!Begin
    <3> QED
      BY <2>10, <3>1 DEF LoaderUse!Next
  <2>12. CASE to = "ended"
    <3>1. LoaderUse!GiveUp(s)
      BY <2>7, <2>8, <2>10, <2>12, LoaderTurnChanges DEF LoaderUse!GiveUp
    <3> QED
      BY <2>10, <3>1 DEF LoaderUse!Next
  <2> QED
    BY <2>11, <2>12
<1>4. ASSUME NEW s \in Sessions, DropCall(s)
      PROVE  [LoaderUse!Next]_[r \in 1 .. MaxSessions |-> Turn(r)]
  <2>1. /\ session[s] \in {"calling", "queued"} /\ session' = [session EXCEPT ![s] = "gone"] /\ opened' = opened
        /\ CallOK(s) /\ s \in 1 .. MaxSessions
    BY <1>1, <1>4 DEF DropCall, TargetOK
  <2>2. Sessions' = Sessions /\ session'[s] = "gone" /\ \A r \in Sessions \ {s} : session'[r] = session[r]
    BY <2>1, SessionChanges
  <2>3. \A r \in 1 .. MaxSessions \ {s} : Turn(r)' = Turn(r)
    BY <2>1, <2>2 DEF Turn
  <2>4. CASE session[s] = "calling"
    <3>1. Turn(s) = "waiting" /\ Turn(s)' = "done"
      BY <2>1, <2>2, <2>4 DEF Turn, CallOK
    <3>2. LoaderUse!GiveUp(s)
      BY <2>1, <2>3, <3>1, LoaderTurnChanges DEF LoaderUse!GiveUp
    <3> QED
      BY <2>1, <3>2 DEF LoaderUse!Next
  <2>5. CASE session[s] = "queued"
    <3>1. Turn(s) = "waiting" /\ Turn(s)' = "waiting"
      BY <2>1, <2>2, <2>5 DEF Turn, CallOK
    <3> QED
      BY <1>1, <2>1, <2>2, <2>3, <3>1, LoaderTurnsStay
  <2> QED
    BY <2>1, <2>4, <2>5
<1>5. ASSUME NEW s \in Sessions, ServeEnds(s)
      PROVE  [LoaderUse!Next]_[r \in 1 .. MaxSessions |-> Turn(r)]
  <2>1. /\ opened[s] = "serving" /\ opened' = [opened EXCEPT ![s] = "ended"] /\ session' = session
        /\ Sessions' = Sessions /\ s \in 1 .. MaxSessions
    BY <1>1, <1>5 DEF ServeEnds, userVars, Sessions
  <2>2. opened'[s] = "ended" /\ \A r \in Sessions \ {s} : opened'[r] = opened[r]
    BY <2>1 DEF LoaderTypeOK
  <2>3. Turn(s) = "using" /\ Turn(s)' = "done" /\ \A r \in 1 .. MaxSessions \ {s} : Turn(r)' = Turn(r)
    BY <2>1, <2>2 DEF Turn
  <2>4. LoaderUse!End(s)
    BY <2>1, <2>3, LoaderTurnChanges DEF LoaderUse!End
  <2> QED
    BY <2>1, <2>4 DEF LoaderUse!Next
<1>6. ASSUME NEW s \in Sessions, SendOpen(s)
      PROVE  UNCHANGED [r \in 1 .. MaxSessions |-> Turn(r)]
  <2>1. /\ session[s] = "calling" /\ session' = [session EXCEPT ![s] = "queued"]
        /\ opened' = [opened EXCEPT ![s] = "queued"] /\ CallOK(s)
    BY <1>6 DEF SendOpen, TargetOK
  <2>2. Sessions' = Sessions /\ session'[s] = "queued" /\ \A r \in Sessions \ {s} : session'[r] = session[r]
    BY <2>1, SessionChanges
  <2>3. opened'[s] = "queued" /\ opened[s] = "none" /\ \A r \in Sessions \ {s} : opened'[r] = opened[r]
    BY <2>1 DEF LoaderTypeOK, CallOK
  <2>4. Turn(s)' = Turn(s) /\ \A r \in 1 .. MaxSessions \ {s} : Turn(r)' = Turn(r)
    BY <2>1, <2>2, <2>3 DEF Turn
  <2>5. \A r \in 1 .. MaxSessions : Turn(r)' = Turn(r)
    BY <2>4
  <2> QED
    BY <2>5
<1>7. ASSUME NEW s \in Sessions, CloseTarget(s)
      PROVE  UNCHANGED [r \in 1 .. MaxSessions |-> Turn(r)]
  <2>1. /\ session[s] = "open" /\ session' = [session EXCEPT ![s] = "closed"] /\ opened' = opened
    BY <1>7 DEF CloseTarget
  <2>2. Sessions' = Sessions /\ session'[s] = "closed" /\ \A r \in Sessions \ {s} : session'[r] = session[r]
    BY <2>1, SessionChanges
  <2>3. \A r \in Sessions : Turn(r)' = Turn(r)
    BY <2>1, <2>2 DEF Turn
  <2> QED
    BY <2>1, <2>2, <2>3, LoaderTurnsStay
<1>8. ASSUME UNCHANGED <<session, opened>>
      PROVE  UNCHANGED [r \in 1 .. MaxSessions |-> Turn(r)]
  BY <1>8 DEF Turn, Sessions
<1>9. ASSUME NEW s \in Sessions, DoRead(s) \/ DoWrite(s) \/ DoFlush(s) \/ ServeOk(s) \/ ServeFails(s)
      PROVE  UNCHANGED <<session, opened>>
  BY <1>9 DEF DoRead, DoWrite, DoFlush, Request, ServeOk, ServeFails
<1>10. UNCHANGED loaderVars => UNCHANGED <<session, opened>>
  BY DEF loaderVars, userVars
<1> QED
  BY <1>2, <1>3, <1>4, <1>5, <1>6, <1>7, <1>8, <1>9, <1>10 DEF LoaderNext, LoaderStep

\* Of all the targets one at a time has the device, whoever opens, drops and closes: the
\* task and its channel of commands implement taking turns (rockusb_task of rockusb.rs).
THEOREM LoaderImplementsExclusiveUse == LoaderSpec => OneTargetAtATime
<1>1. LoaderInit => LoaderUse!Init
  BY DEF LoaderInit, LoaderUse!Init, Turn, Sessions
<1> QED
  BY <1>1, LoaderInitInv, LoaderStepInv, LoaderStepTurns, PTL DEF LoaderSpec, OneTargetAtATime, LoaderUse!Spec

-----------------------------------------------------------------------------
(* Uploads. *)

Buffers == [data : Seq(Nat), capacity : 0 .. MostCapacity]
Uploads == [image : Seq(Nat), accepted : Nat, result : Results]
Executions == [result : Results, ran : {Damaged} \cup DOMAIN uploads, after : SUBSET DOMAIN uploads]

\* What a target has is the start of an image, as far as writes were accepted.
BufferOK(t) == serving[t] # Dropped => buffer[t].data = Bytes(0, accepted[t])

\* A command is in the channel or carried out once, while its caller waits for it.
StateOf(k) == IF k.op = "upload" THEN uploads[k.id].result ELSE executes[k.id].result

LinedUp ==
  /\ \A i \in DOMAIN queue : StateOf(queue[i]) = "queued" /\ queue[i] # inTask
  /\ inTask # NoCommand => StateOf(inTask) = "queued"
  /\ \A i, j \in DOMAIN queue : queue[i] = queue[j] => i = j

\* The device has got the uploads that were answered with Ok, each once.
ReceivedOK(u) ==
  /\ uploads[u].result = "ok" <=> \E i \in DOMAIN received : received[i] = u
  /\ \A i, j \in DOMAIN received : received[i] = u /\ received[j] = u => i = j

AfterOK(c) == \A u \in executes[c].after : uploads[u].result = "ok"

UploadIInv ==
  /\ UploadTypeOK
  /\ buffer \in Seq(Buffers) /\ uploads \in Seq(Uploads) /\ executes \in Seq(Executions)
  /\ \A t \in Targets : BufferOK(t)
  /\ LinedUp
  /\ \A u \in DOMAIN uploads : ReceivedOK(u)
  /\ \A c \in DOMAIN executes : AfterOK(c)
  /\ ImagesAreWhole /\ ExecutesNoOlder

LEMMA UploadInitInv == UploadInit => UploadIInv
<1> SUFFICES ASSUME UploadInit PROVE UploadIInv
  OBVIOUS
<1> USE UploadAssumption DEF UploadInit
<1>1. \A S : << >> \in Seq(S) /\ Len(<< >>) = 0 /\ DOMAIN << >> = {} /\ << >> \in [{} -> S]
  OBVIOUS
<1>2. Room[kind] \in Nat
  OBVIOUS
<1>3. UploadTypeOK
  BY <1>1, <1>2 DEF UploadTypeOK, Targets, Kinds
<1> QED
  BY <1>1, <1>3 DEF UploadIInv, Targets, LinedUp, ImagesAreWhole, ExecutesNoOlder

LEMMA UploadFacts ==
  ASSUME UploadIInv
  PROVE  /\ Targets = 1 .. Len(buffer) /\ Len(buffer) \in Nat
         /\ DOMAIN uploads = 1 .. Len(uploads) /\ Len(uploads) \in Nat
         /\ DOMAIN executes = 1 .. Len(executes) /\ Len(executes) \in Nat
         /\ DOMAIN queue = 1 .. Len(queue) /\ Len(queue) \in Nat
         /\ DOMAIN received = 1 .. Len(received) /\ Len(received) \in Nat
         /\ \A t \in Targets : /\ buffer[t] \in Buffers /\ accepted[t] \in Nat
                               /\ serving[t] \in {Idle, Dropped} \cup DOMAIN uploads
         /\ \A u \in DOMAIN uploads : uploads[u] \in Uploads
         /\ \A c \in DOMAIN executes : executes[c] \in Executions
         /\ \A i \in DOMAIN queue : queue[i] \in Commands
         /\ MaxTargets \in Nat /\ MaxUploads \in Nat /\ MaxExecutes \in Nat /\ MaxFaults \in Nat
         /\ kind \in Kinds /\ Room[kind] \in Nat \ {0}
  BY UploadAssumption DEF UploadIInv, UploadTypeOK, Targets

\* The steps of targets leave everything else alone.
LEMMA TargetsFrame ==
  ASSUME UploadIInv, UNCHANGED <<kind, callVars, taskVars, received, faults>>,
         buffer' \in Seq(Buffers), Len(buffer') <= MaxTargets,
         serving' \in [Targets' -> {Idle, Dropped} \cup DOMAIN uploads], accepted' \in [Targets' -> Nat],
         \A t \in Targets' : Len(buffer'[t].data) <= buffer'[t].capacity /\ BufferOK(t)'
  PROVE  UploadIInv'
<1> USE DEF UploadIInv, callVars, taskVars
<1>1. \A t \in Targets' : buffer'[t].data \in Seq(Nat) /\ buffer'[t].capacity \in 0 .. MostCapacity
  <2>1. \A S : \A s \in Seq(S) : \A t \in DOMAIN s : s[t] \in S
    OBVIOUS
  <2>2. \A t \in Targets' : buffer'[t] \in Buffers
    BY <2>1, Zenon DEF Targets
  <2> QED
    BY <2>2 DEF Buffers
<1>2. UploadTypeOK'
  BY <1>1 DEF UploadTypeOK, Commands
<1>3. LinedUp' /\ ImagesAreWhole' /\ ExecutesNoOlder'
  BY DEF LinedUp, ImagesAreWhole, ExecutesNoOlder, StateOf
<1>4. /\ \A u \in DOMAIN uploads' : ReceivedOK(u)'
      /\ \A c \in DOMAIN executes' : AfterOK(c)'
  BY DEF ReceivedOK, AfterOK
<1>5. uploads' \in Seq(Uploads') /\ executes' \in Seq(Executions')
  BY DEF Uploads, Executions
<1> QED
  BY <1>2, <1>3, <1>4, <1>5 DEF Buffers

LEMMA BytesGoOn ==
  ASSUME NEW n \in Nat, NEW k \in Nat
  PROVE  /\ Bytes(0, n) \in Seq(Nat) /\ Len(Bytes(0, n)) = n
         /\ Bytes(0, n) \o Bytes(n, k) = Bytes(0, n + k)
<1> DEFINE a == Bytes(0, n)
           b == Bytes(n, k)
           ab == Bytes(0, n + k)
<1>1. /\ a \in Seq(Nat) /\ Len(a) = n /\ \A i \in 1 .. n : a[i] = i - 1
  BY DEF Bytes
<1>2. /\ b \in Seq(Nat) /\ Len(b) = k /\ \A i \in 1 .. k : b[i] = n + i - 1
  BY DEF Bytes
<1>3. /\ ab \in Seq(Nat) /\ Len(ab) = n + k /\ \A i \in 1 .. n + k : ab[i] = i - 1
  BY DEF Bytes
<1> HIDE DEF a, b, ab
<1>4. a \o b \in Seq(Nat) /\ Len(a \o b) = n + k
  <2>1. \A s, t \in Seq(Nat) : s \o t \in Seq(Nat) /\ Len(s \o t) = Len(s) + Len(t)
    OBVIOUS
  <2> QED
    BY <1>1, <1>2, <2>1
<1>5. ASSUME NEW i \in 1 .. n + k PROVE (a \o b)[i] = i - 1
  <2>1. CASE i <= n
    BY <1>1, <1>2, <2>1
  <2>2. CASE i > n
    <3>1. (a \o b)[i] = b[i - n] /\ i - n \in 1 .. k
      BY <1>1, <1>2, <2>2
    <3>2. n + (i - n) - 1 = i - 1
      OBVIOUS
    <3> QED
      BY <1>2, <3>1, <3>2
  <2>3. i <= n \/ i > n
    OBVIOUS
  <2> QED
    BY <2>1, <2>2, <2>3
<1>6. a \o b = ab
  <2>1. \A s, t \in Seq(Nat) : Len(s) = Len(t) /\ (\A i \in 1 .. Len(s) : s[i] = t[i]) => s = t
    OBVIOUS
  <2> QED
    BY <1>3, <1>4, <1>5, <2>1
<1> QED
  BY <1>1, <1>6 DEF a, b, ab

LEMMA NoBytes == Bytes(0, 0) = << >>
<1>1. Bytes(0, 0) \in Seq(Nat) /\ Len(Bytes(0, 0)) = 0
  BY BytesGoOn
<1>2. \A s \in Seq(Nat) : Len(s) = 0 => s = << >>
  OBVIOUS
<1> QED
  BY <1>1, <1>2

LEMMA OpenTargetInv ==
  ASSUME UploadIInv, OpenTarget
  PROVE  UploadIInv'
<1> PICK n : n = Len(buffer)
  OBVIOUS
<1>1. n \in Nat /\ n < MaxTargets /\ Targets = 1 .. n /\ MaxTargets \in Nat
  BY UploadFacts DEF OpenTarget
<1>2. PICK hint \in Hints \cup {NoHint} :
        /\ buffer' = Append(buffer, [data |-> << >>, capacity |-> Granted(hint)])
        /\ serving' = Append(serving, Idle) /\ accepted' = Append(accepted, 0)
        /\ UNCHANGED <<kind, callVars, taskVars, received, faults>>
  BY DEF OpenTarget
<1>3. [data |-> << >>, capacity |-> Granted(hint)] \in Buffers
  <2>1. Granted(hint) \in 0 .. MostCapacity
    BY UploadAssumption DEF Granted, Smaller
  <2> QED
    BY <2>1 DEF Buffers
<1> PICK b : b = [data |-> << >>, capacity |-> Granted(hint)]
  OBVIOUS
<1>4. /\ buffer' \in Seq(Buffers) /\ Len(buffer') = n + 1 /\ buffer'[n + 1] = b
      /\ \A t \in 1 .. n : buffer'[t] = buffer[t]
  <2>1. buffer \in Seq(Buffers)
    BY DEF UploadIInv
  <2> QED
    BY <1>2, <1>3, <2>1, AppendGrows
<1>5. Targets' = 1 .. n + 1
  BY <1>4 DEF Targets
<1>10. \A S, f : f \in [1 .. n -> S] => f \in Seq(S) /\ Len(f) = n
  BY <1>1
<1>6. /\ serving' \in [1 .. n + 1 -> {Idle, Dropped} \cup DOMAIN uploads] /\ serving'[n + 1] = Idle
      /\ \A t \in 1 .. n : serving'[t] = serving[t]
  <2> DEFINE S == {Idle, Dropped} \cup DOMAIN uploads
  <2>1. serving \in [1 .. n -> S]
    BY <1>1 DEF UploadIInv, UploadTypeOK
  <2>2. Idle \in S
    OBVIOUS
  <2> HIDE DEF S
  <2>3. serving \in Seq(S) /\ Len(serving) = n
    BY <1>10, <2>1, Zenon
  <2>4. /\ serving' \in Seq(S) /\ Len(serving') = n + 1 /\ serving'[n + 1] = Idle
        /\ \A t \in 1 .. n : serving'[t] = serving[t]
    BY <1>2, <2>2, <2>3, AppendGrows
  <2>5. serving' \in [1 .. n + 1 -> S]
    BY <2>4, SeqIsFunction
  <2> QED
    BY <2>4, <2>5 DEF S
<1>7. /\ accepted' \in [1 .. n + 1 -> Nat] /\ accepted'[n + 1] = 0
      /\ \A t \in 1 .. n : accepted'[t] = accepted[t]
  <2>1. accepted \in [1 .. n -> Nat]
    BY <1>1 DEF UploadIInv, UploadTypeOK
  <2>2. accepted \in Seq(Nat) /\ Len(accepted) = n
    BY <1>10, <2>1, Zenon
  <2>3. /\ accepted' \in Seq(Nat) /\ Len(accepted') = n + 1 /\ accepted'[n + 1] = 0
        /\ \A t \in 1 .. n : accepted'[t] = accepted[t]
    BY <1>2, <2>2, AppendGrows
  <2>4. accepted' \in [1 .. n + 1 -> Nat]
    BY <2>3, SeqIsFunction
  <2> QED
    BY <2>3, <2>4
<1>8. ASSUME NEW t \in Targets' PROVE Len(buffer'[t].data) <= buffer'[t].capacity /\ BufferOK(t)'
  <2>1. CASE t = n + 1
    <3>1. buffer'[t].data = << >> /\ buffer'[t].capacity \in Nat
      BY <1>3, <1>4, <2>1 DEF Buffers
    <3> QED
      BY <1>7, <2>1, <3>1, NoBytes DEF BufferOK, Bytes
  <2>2. CASE t \in 1 .. n
    <3>1. Len(buffer[t].data) <= buffer[t].capacity /\ BufferOK(t)
      BY <1>1, <2>2 DEF UploadIInv, UploadTypeOK
    <3> QED
      BY <1>4, <1>6, <1>7, <2>2, <3>1 DEF BufferOK, Bytes
  <2> QED
    BY <1>1, <1>5, <2>1, <2>2
<1>9. Len(buffer') <= MaxTargets
  BY <1>1, <1>4
<1> QED
  BY <1>2, <1>4, <1>5, <1>6, <1>7, <1>8, <1>9, TargetsFrame

LEMMA WriteBytesInv ==
  ASSUME UploadIInv, NEW t \in Targets, WriteBytes(t)
  PROVE  UploadIInv'
<1> USE DEF UploadIInv
<1>1. PICK at \in 0 .. MostCapacity, len \in Lengths :
        /\ serving[t] = Idle /\ Fits(buffer[t], at, len)
        /\ buffer' = [buffer EXCEPT ![t].data = @ \o Bytes(at, len)]
        /\ accepted' = [accepted EXCEPT ![t] = @ + len]
        /\ UNCHANGED <<kind, serving, callVars, taskVars, received, faults>>
  BY DEF WriteBytes
<1>2. buffer[t] \in Buffers /\ accepted[t] \in Nat /\ len \in Nat /\ BufferOK(t) /\ MaxTargets \in Nat
  BY UploadFacts, UploadAssumption
<1>3. buffer[t].data = Bytes(0, accepted[t]) /\ at = accepted[t] /\ accepted[t] + len <= buffer[t].capacity
  <2>1. serving[t] # Dropped
    BY <1>1 DEF Idle, Dropped
  <2>2. buffer[t].data = Bytes(0, accepted[t])
    BY <1>2, <2>1 DEF BufferOK
  <2>3. Len(buffer[t].data) = accepted[t]
    BY <1>2, <2>2, BytesGoOn
  <2> QED
    BY <1>1, <2>2, <2>3 DEF Fits
<1> PICK b : b = [buffer[t] EXCEPT !.data = Bytes(0, accepted[t] + len)]
  OBVIOUS
<1>4. buffer' = [buffer EXCEPT ![t] = b]
  <2>1. buffer[t].data \o Bytes(at, len) = Bytes(0, accepted[t] + len)
    BY <1>2, <1>3, BytesGoOn
  <2> QED
    BY <1>1, <2>1
<1>5. /\ b \in Buffers /\ b.data = Bytes(0, accepted[t] + len) /\ Len(b.data) = accepted[t] + len
      /\ b.capacity = buffer[t].capacity
  <2>1. accepted[t] + len \in Nat
    BY <1>2
  <2>2. Bytes(0, accepted[t] + len) \in Seq(Nat) /\ Len(Bytes(0, accepted[t] + len)) = accepted[t] + len
    BY <2>1, BytesGoOn
  <2> QED
    BY <1>2, <2>2 DEF Buffers
<1>6. /\ buffer' \in Seq(Buffers) /\ Len(buffer') = Len(buffer) /\ DOMAIN buffer' = DOMAIN buffer
  BY <1>4, <1>5, Changes DEF Targets
<1>7. Targets' = Targets /\ buffer'[t] = b /\ \A r \in Targets \ {t} : buffer'[r] = buffer[r]
  BY <1>4, <1>6 DEF Targets
<1>8. /\ accepted' \in [Targets -> Nat] /\ accepted'[t] = accepted[t] + len
      /\ \A r \in Targets \ {t} : accepted'[r] = accepted[r]
  BY <1>1, <1>2 DEF UploadTypeOK
<1>9. ASSUME NEW r \in Targets PROVE Len(buffer'[r].data) <= buffer'[r].capacity /\ BufferOK(r)'
  <2>1. CASE r = t
    BY <1>1, <1>3, <1>5, <1>7, <1>8, <2>1 DEF BufferOK, Bytes
  <2>2. CASE r # t
    <3>1. Len(buffer[r].data) <= buffer[r].capacity /\ BufferOK(r)
      BY DEF UploadTypeOK
    <3> QED
      BY <1>1, <1>7, <1>8, <2>2, <3>1 DEF BufferOK, Bytes
  <2> QED
    BY <2>1, <2>2
<1>10. Len(buffer') <= MaxTargets /\ serving' \in [Targets' -> {Idle, Dropped} \cup DOMAIN uploads]
  BY <1>1, <1>6, <1>7 DEF UploadTypeOK
<1> QED
  BY <1>1, <1>6, <1>7, <1>8, <1>9, <1>10, TargetsFrame

LEMMA DropInv ==
  ASSUME UploadIInv, NEW t \in Targets, Drop(t)
  PROVE  UploadIInv'
<1> USE DEF UploadIInv
<1> PICK b : b = [data |-> << >>, capacity |-> 0]
  OBVIOUS
<1>1. /\ buffer' = [buffer EXCEPT ![t] = b] /\ serving' = [serving EXCEPT ![t] = Dropped]
      /\ UNCHANGED <<kind, accepted, callVars, taskVars, received, faults>>
  BY DEF Drop
<1>2. b \in Buffers /\ Len(b.data) <= b.capacity
  BY UploadAssumption DEF Buffers
<1>3. buffer' \in Seq(Buffers) /\ Len(buffer') = Len(buffer) /\ DOMAIN buffer' = DOMAIN buffer
  BY <1>1, <1>2, Changes DEF Targets
<1>4. Targets' = Targets /\ buffer'[t] = b /\ \A r \in Targets \ {t} : buffer'[r] = buffer[r]
  BY <1>1, <1>3 DEF Targets
<1>5. /\ serving' \in [Targets' -> {Idle, Dropped} \cup DOMAIN uploads] /\ serving'[t] = Dropped
      /\ \A r \in Targets \ {t} : serving'[r] = serving[r]
  BY <1>1, <1>4 DEF UploadTypeOK
<1>6. ASSUME NEW r \in Targets PROVE Len(buffer'[r].data) <= buffer'[r].capacity /\ BufferOK(r)'
  <2>1. CASE r = t
    BY <1>2, <1>4, <1>5, <2>1 DEF BufferOK
  <2>2. CASE r # t
    <3>1. Len(buffer[r].data) <= buffer[r].capacity /\ BufferOK(r)
      BY DEF UploadTypeOK
    <3> QED
      BY <1>1, <1>4, <1>5, <2>2, <3>1 DEF BufferOK, Bytes
  <2> QED
    BY <2>1, <2>2
<1>7. Len(buffer') <= MaxTargets /\ accepted' \in [Targets' -> Nat]
  BY <1>1, <1>3, <1>4 DEF UploadTypeOK
<1> QED
  BY <1>1, <1>3, <1>4, <1>5, <1>6, <1>7, TargetsFrame

\* The steps of commits and of the task.
LEMMA CommandsFrame ==
  ASSUME UploadIInv, UNCHANGED <<kind, buffer, accepted>>,
         serving' \in [Targets -> {Idle, Dropped} \cup DOMAIN uploads],
         \A t \in Targets : serving'[t] # Dropped => serving[t] # Dropped,
         uploads' \in Seq(Uploads), DOMAIN uploads' = DOMAIN uploads,
         \A u \in DOMAIN uploads :
           uploads'[u].image = uploads[u].image /\ uploads'[u].accepted = uploads[u].accepted,
         executes' \in Seq(Executions), queue' \in Seq(Commands'), Len(queue') <= Room[kind],
         inTask' \in Commands' \cup {NoCommand},
         received' \in Seq({Damaged} \cup DOMAIN uploads), faults' \in 0 .. MaxFaults,
         LinedUp', ExecutesNoOlder', \A u \in DOMAIN uploads : ReceivedOK(u)',
         \A c \in DOMAIN executes' : AfterOK(c)'
  PROVE  UploadIInv'
<1> USE DEF UploadIInv
<1>1. Targets' = Targets /\ Executions' = Executions /\ Uploads' = Uploads /\ Buffers' = Buffers
  BY DEF Targets, Executions, Uploads, Buffers
<1>2. \A S : \A s \in Seq(S) : \A i \in DOMAIN s : s[i] \in S
  OBVIOUS
<1>3. \A u \in DOMAIN uploads' : uploads'[u].result \in Results
  <2>1. \A u \in DOMAIN uploads' : uploads'[u] \in Uploads
    BY <1>2, Zenon
  <2> QED
    BY <2>1 DEF Uploads
<1>4. \A c \in DOMAIN executes' : executes'[c].result \in Results /\ executes'[c].ran \in {Damaged} \cup DOMAIN uploads
  <2>1. \A c \in DOMAIN executes' : executes'[c] \in Executions
    BY <1>2, Zenon
  <2> QED
    BY <2>1 DEF Executions
<1>5. UploadTypeOK'
  BY <1>1, <1>3, <1>4 DEF UploadTypeOK
<1>6. \A t \in Targets : BufferOK(t)'
  <2> SUFFICES ASSUME NEW t \in Targets PROVE BufferOK(t)'
    OBVIOUS
  <2>1. BufferOK(t)
    OBVIOUS
  <2> QED
    BY <2>1 DEF BufferOK, Bytes
<1>7. ImagesAreWhole'
  BY DEF ImagesAreWhole, Bytes
<1> QED
  BY <1>1, <1>5, <1>6, <1>7

\* What is executed is as new as before when the device gets more.
LEMMA StillNoOlder ==
  ASSUME UploadIInv, DOMAIN received \subseteq DOMAIN received',
         \A i \in DOMAIN received : received'[i] = received[i],
         \A c \in DOMAIN executes' : executes'[c].result = "ok" =>
           c \in DOMAIN executes /\ executes'[c] = executes[c]
  PROVE  ExecutesNoOlder'
<1> SUFFICES ASSUME NEW c \in DOMAIN executes', executes'[c].result = "ok", NEW u \in executes'[c].after
             PROVE  \E i, j \in DOMAIN received' : i <= j /\ received'[i] = u /\ received'[j] = executes'[c].ran
  BY DEF ExecutesNoOlder
<1>1. c \in DOMAIN executes /\ executes'[c] = executes[c]
  OBVIOUS
<1>2. PICK i \in DOMAIN received, j \in DOMAIN received :
        i <= j /\ received[i] = u /\ received[j] = executes[c].ran
  BY <1>1 DEF UploadIInv, ExecutesNoOlder
<1> QED
  BY <1>1, <1>2

LEMMA ExecuteInv ==
  ASSUME UploadIInv, Execute
  PROVE  UploadIInv'
<1> USE DEF UploadIInv
<1> PICK e : e = [result |-> "waiting", ran |-> Damaged, after |-> AnsweredUploads]
  OBVIOUS
<1> PICK n : n = Len(executes)
  OBVIOUS
<1>1. /\ executes' = Append(executes, e)
      /\ UNCHANGED <<kind, targetsVars, uploads, taskVars, received, faults>>
  BY DEF Execute
<1>2. e \in Executions /\ e.result = "waiting" /\ e.after = AnsweredUploads
  BY DEF Executions, AnsweredUploads, Results
<1>3. /\ executes' \in Seq(Executions) /\ DOMAIN executes = 1 .. n /\ DOMAIN executes' = 1 .. n + 1
      /\ n \in Nat /\ executes'[n + 1] = e /\ \A c \in 1 .. n : executes'[c] = executes[c]
  BY <1>1, <1>2, AppendGrows
<1>4. Commands \subseteq Commands'
  BY <1>1, <1>3 DEF Commands
<1>5. queue' \in Seq(Commands')
  <2>1. queue \in Seq(Commands) /\ queue' = queue
    BY <1>1 DEF UploadTypeOK, taskVars
  <2> QED
    BY <1>4, <2>1, SeqWidens
<1>6. LinedUp'
  <2>1. \A k \in Commands : StateOf(k)' = StateOf(k)
    BY <1>1, <1>3 DEF Commands, StateOf
  <2>2. \A i \in DOMAIN queue : queue[i] \in Commands
    BY UploadFacts
  <2> QED
    BY <1>1, <2>1, <2>2 DEF LinedUp, taskVars, UploadTypeOK
<1>7. ExecutesNoOlder'
  <2>1. \A c \in DOMAIN executes' : executes'[c].result = "ok" => c \in DOMAIN executes /\ executes'[c] = executes[c]
    <3>1. \A c \in 1 .. n + 1 : c \in 1 .. n \/ c = n + 1
      BY <1>3
    <3> QED
      BY <1>2, <1>3, <3>1
  <2> QED
    BY <1>1, <2>1, StillNoOlder
<1>8. \A u \in DOMAIN uploads : ReceivedOK(u)'
  BY <1>1 DEF ReceivedOK
<1>9. ASSUME NEW c \in DOMAIN executes' PROVE AfterOK(c)'
  <2>1. CASE c = n + 1
    BY <1>1, <1>2, <1>3, <2>1 DEF AfterOK, AnsweredUploads
  <2>2. CASE c \in 1 .. n
    <3>1. AfterOK(c)
      BY <1>3, <2>2
    <3> QED
      BY <1>1, <1>3, <2>2, <3>1 DEF AfterOK
  <2> QED
    BY <1>3, <2>1, <2>2
<1>10. serving' \in [Targets -> {Idle, Dropped} \cup DOMAIN uploads] /\ serving' = serving
  BY <1>1 DEF targetsVars, UploadTypeOK
<1>11. inTask' \in Commands' \cup {NoCommand} /\ Len(queue') <= Room[kind]
  BY <1>1, <1>4 DEF taskVars, UploadTypeOK
<1> QED
  BY <1>1, <1>3, <1>5, <1>6, <1>7, <1>8, <1>9, <1>10, <1>11, CommandsFrame DEF targetsVars, UploadTypeOK

LEMMA ShutdownInv ==
  ASSUME UploadIInv, NEW t \in Targets, Shutdown(t)
  PROVE  UploadIInv'
<1> USE DEF UploadIInv
<1> PICK n : n = Len(uploads)
  OBVIOUS
<1> PICK b : b = [data |-> << >>, capacity |-> Left(buffer[t])]
  OBVIOUS
<1> PICK e : e = [image |-> buffer[t].data, accepted |-> accepted[t], result |-> "waiting"]
  OBVIOUS
<1>1. /\ serving[t] = Idle /\ n < MaxUploads
      /\ uploads' = Append(uploads, e) /\ buffer' = [buffer EXCEPT ![t] = b]
      /\ serving' = [serving EXCEPT ![t] = n + 1] /\ accepted' = [accepted EXCEPT ![t] = 0]
      /\ UNCHANGED <<kind, executes, queue, inTask, received, faults>>
  BY DEF Shutdown, taskVars
<1>2. buffer[t] \in Buffers /\ accepted[t] \in Nat /\ BufferOK(t) /\ Len(buffer[t].data) <= buffer[t].capacity
  BY UploadFacts DEF UploadTypeOK
<1>3. b \in Buffers /\ b.data = << >> /\ Len(b.data) <= b.capacity
  <2>1. Left(buffer[t]) \in 0 .. MostCapacity
    <3>1. Len(buffer[t].data) \in Nat /\ buffer[t].capacity \in 0 .. MostCapacity /\ MostCapacity \in Nat
      BY <1>2, UploadAssumption DEF Buffers
    <3> QED
      BY <1>2, <3>1 DEF Left
  <2> QED
    BY <2>1 DEF Buffers
<1>4. e \in Uploads /\ e.image = Bytes(0, e.accepted) /\ e.result = "waiting"
  BY <1>1, <1>2 DEF Uploads, Results, Buffers, BufferOK, Idle, Dropped
<1>5. /\ uploads' \in Seq(Uploads) /\ n \in Nat /\ DOMAIN uploads = 1 .. n /\ DOMAIN uploads' = 1 .. n + 1
      /\ uploads'[n + 1] = e /\ \A u \in 1 .. n : uploads'[u] = uploads[u]
  BY <1>1, <1>4, AppendGrows
<1>6. /\ buffer' \in Seq(Buffers) /\ Len(buffer') = Len(buffer) /\ Targets' = Targets
      /\ buffer'[t] = b /\ \A r \in Targets \ {t} : buffer'[r] = buffer[r]
  <2>1. buffer' \in Seq(Buffers) /\ Len(buffer') = Len(buffer) /\ DOMAIN buffer' = DOMAIN buffer
    BY <1>1, <1>3, Changes DEF Targets
  <2> QED
    BY <1>1, <2>1 DEF Targets
<1>7. /\ serving' \in [Targets' -> {Idle, Dropped} \cup DOMAIN uploads'] /\ serving'[t] = n + 1
      /\ \A r \in Targets \ {t} : serving'[r] = serving[r]
  BY <1>1, <1>5, <1>6 DEF UploadTypeOK
<1>8. /\ accepted' \in [Targets' -> Nat] /\ accepted'[t] = 0
      /\ \A r \in Targets \ {t} : accepted'[r] = accepted[r]
  BY <1>1, <1>6 DEF UploadTypeOK
<1>9. DOMAIN uploads \subseteq DOMAIN uploads'
  BY <1>5
<1>10. Executions \subseteq Executions' /\ Commands \subseteq Commands' /\ Uploads' = Uploads /\ Buffers' = Buffers
  <2>1. Executions \subseteq Executions'
    BY <1>9 DEF Executions
  <2>2. Commands \subseteq Commands'
    BY <1>1, <1>9 DEF Commands
  <2> QED
    BY <2>1, <2>2 DEF Uploads, Buffers
<1>11. executes' \in Seq(Executions') /\ queue' \in Seq(Commands') /\ received' \in Seq({Damaged} \cup DOMAIN uploads')
  <2>1. executes' \in Seq(Executions')
    BY <1>1, <1>10, SeqWidens
  <2>2. queue' \in Seq(Commands')
    BY <1>1, <1>10, SeqWidens DEF UploadTypeOK
  <2>3. received' \in Seq({Damaged} \cup DOMAIN uploads')
    <3>1. {Damaged} \cup DOMAIN uploads \subseteq {Damaged} \cup DOMAIN uploads'
      BY <1>9
    <3> QED
      BY <1>1, <3>1, SeqWidens DEF UploadTypeOK
  <2> QED
    BY <2>1, <2>2, <2>3
<1>12. ASSUME NEW r \in Targets'
       PROVE  /\ buffer'[r].data \in Seq(Nat) /\ buffer'[r].capacity \in 0 .. MostCapacity
              /\ Len(buffer'[r].data) <= buffer'[r].capacity /\ BufferOK(r)'
  <2>1. CASE r = t
    BY <1>3, <1>6, <1>7, <1>8, <2>1, NoBytes DEF BufferOK, Bytes, Buffers
  <2>2. CASE r # t
    <3>1. /\ Len(buffer[r].data) <= buffer[r].capacity /\ BufferOK(r)
          /\ buffer[r].data \in Seq(Nat) /\ buffer[r].capacity \in 0 .. MostCapacity
      BY <1>6 DEF UploadTypeOK
    <3> QED
      BY <1>6, <1>7, <1>8, <2>2, <3>1 DEF BufferOK, Bytes
  <2> QED
    BY <2>1, <2>2
<1>13. ASSUME NEW u \in DOMAIN uploads'
       PROVE  /\ uploads'[u].result \in Results /\ ReceivedOK(u)' /\ uploads'[u].image = Bytes(0, uploads'[u].accepted)
  <2>1. CASE u = n + 1
    <3>1. \A i \in DOMAIN received : received[i] # n + 1
      <4>1. \A i \in DOMAIN received : received[i] \in {Damaged} \cup 1 .. n
        BY <1>5 DEF UploadTypeOK
      <4> QED
        BY <1>5, <4>1 DEF Damaged
    <3> QED
      BY <1>1, <1>4, <1>5, <2>1, <3>1 DEF ReceivedOK, Results
  <2>2. CASE u \in 1 .. n
    <3>1. uploads[u].result \in Results /\ ReceivedOK(u) /\ uploads[u].image = Bytes(0, uploads[u].accepted)
      BY <1>5, <2>2 DEF UploadTypeOK, ImagesAreWhole
    <3> QED
      BY <1>1, <1>5, <2>2, <3>1 DEF ReceivedOK
  <2> QED
    BY <1>5, <2>1, <2>2
<1>14. UploadTypeOK'
  <2>1. inTask' \in Commands' \cup {NoCommand}
    BY <1>1, <1>10 DEF UploadTypeOK
  <2>2. \A c \in DOMAIN executes' : executes'[c].result \in Results /\ executes'[c].ran \in {Damaged} \cup DOMAIN uploads'
    BY <1>1, <1>9 DEF UploadTypeOK
  <2> QED
    BY <1>1, <1>6, <1>7, <1>8, <1>11, <1>12, <1>13, <2>1, <2>2 DEF UploadTypeOK
<1>15. LinedUp'
  <2>1. \A k \in Commands : StateOf(k)' = StateOf(k)
    BY <1>1, <1>5 DEF Commands, StateOf
  <2>2. \A i \in DOMAIN queue : queue[i] \in Commands
    BY UploadFacts
  <2> QED
    BY <1>1, <2>1, <2>2 DEF LinedUp, UploadTypeOK
<1>16. ASSUME NEW c \in DOMAIN executes' PROVE AfterOK(c)'
  <2>1. AfterOK(c) /\ executes[c].after \subseteq 1 .. n
    BY <1>1, <1>5, UploadFacts DEF Executions
  <2> QED
    BY <1>1, <1>5, <2>1 DEF AfterOK
<1>17. ExecutesNoOlder' /\ ImagesAreWhole'
  BY <1>1, <1>13 DEF ExecutesNoOlder, ImagesAreWhole
<1> QED
  BY <1>5, <1>6, <1>10, <1>11, <1>12, <1>13, <1>14, <1>15, <1>16, <1>17

\* A command that is sent is not in the channel yet, and not carried out.
LEMMA EnqueueLinesUp ==
  ASSUME UploadIInv, NEW k \in Commands, StateOf(k) = "waiting", Enqueue(k), inTask' = inTask,
         Commands' = Commands, StateOf(k)' = "queued", \A l \in Commands \ {k} : StateOf(l)' = StateOf(l)
  PROVE  LinedUp' /\ queue' \in Seq(Commands') /\ Len(queue') <= Room[kind]
<1> USE DEF UploadIInv
<1> PICK n : n = Len(queue)
  OBVIOUS
<1>1. queue \in Seq(Commands) /\ n < Room[kind] /\ queue' = Append(queue, k) /\ Room[kind] \in Nat
  BY UploadFacts DEF Enqueue, UploadTypeOK
<1>2. /\ queue' \in Seq(Commands) /\ Len(queue') = n + 1 /\ n \in Nat
      /\ DOMAIN queue = 1 .. n /\ DOMAIN queue' = 1 .. n + 1
      /\ queue'[n + 1] = k /\ \A i \in 1 .. n : queue'[i] = queue[i]
  BY <1>1, AppendGrows
<1>3. \A i \in 1 .. n : queue[i] \in Commands \ {k} /\ StateOf(queue[i]) = "queued" /\ queue[i] # inTask
  <2>1. \A i \in 1 .. n : queue[i] \in Commands /\ StateOf(queue[i]) = "queued" /\ queue[i] # inTask
    BY <1>2, UploadFacts DEF LinedUp
  <2> QED
    BY <2>1
<1>4. inTask # k /\ (inTask # NoCommand => inTask \in Commands \ {k} /\ StateOf(inTask) = "queued")
  <2>1. NoCommand \notin Commands
    BY DEF NoCommand, Commands
  <2> QED
    BY <2>1 DEF LinedUp, UploadTypeOK
<1> DEFINE ResultOf(l) == IF l.op = "upload" THEN uploads'[l.id].result ELSE executes'[l.id].result
<1>5. \A l \in Commands : StateOf(l) = "queued" => ResultOf(l) = "queued"
  <2>1. \A l \in Commands : StateOf(l)' = ResultOf(l)
    BY DEF StateOf
  <2> QED
    BY <2>1
<1>9. ResultOf(k) = "queued"
  BY DEF StateOf
<1> HIDE DEF ResultOf
<1>6. ASSUME NEW i \in DOMAIN queue' PROVE ResultOf(queue'[i]) = "queued" /\ queue'[i] # inTask'
  <2>1. CASE i = n + 1
    BY <1>2, <1>4, <1>9, <2>1
  <2>2. CASE i \in 1 .. n
    BY <1>2, <1>3, <1>5, <2>2
  <2> QED
    BY <1>2, <2>1, <2>2
<1>7. \A i, j \in DOMAIN queue' : queue'[i] = queue'[j] => i = j
  <2>1. \A i, j \in 1 .. n : queue[i] = queue[j] => i = j
    BY <1>2 DEF LinedUp
  <2>2. \A i \in 1 .. n + 1 : i \in 1 .. n \/ i = n + 1
    BY <1>2
  <2> QED
    BY <1>2, <1>3, <2>1, <2>2
<1>8. inTask' # NoCommand => ResultOf(inTask') = "queued"
  BY <1>4, <1>5
<1> QED
  BY <1>1, <1>2, <1>6, <1>7, <1>8 DEF LinedUp, StateOf, ResultOf

LEMMA SendUploadInv ==
  ASSUME UploadIInv, NEW u \in DOMAIN uploads, SendUpload(u)
  PROVE  UploadIInv'
<1> USE DEF UploadIInv
<1> PICK k : k = [op |-> "upload", id |-> u]
  OBVIOUS
<1> PICK e : e = [uploads[u] EXCEPT !.result = "queued"]
  OBVIOUS
<1>1. /\ uploads[u].result = "waiting" /\ Enqueue(k) /\ uploads' = [uploads EXCEPT ![u] = e]
      /\ UNCHANGED <<kind, buffer, serving, accepted, executes, inTask, received, faults>>
  BY DEF SendUpload, targetsVars
<1>2. uploads[u] \in Uploads
  BY UploadFacts
<1>3. e \in Uploads /\ e.result = "queued" /\ e.image = uploads[u].image /\ e.accepted = uploads[u].accepted
  BY <1>2 DEF Uploads, Results
<1>4. /\ uploads' \in Seq(Uploads) /\ DOMAIN uploads' = DOMAIN uploads
      /\ uploads'[u] = e /\ \A v \in DOMAIN uploads \ {u} : uploads'[v] = uploads[v]
  <2>1. uploads' \in Seq(Uploads) /\ DOMAIN uploads' = DOMAIN uploads
    BY <1>1, <1>3, Changes
  <2> QED
    BY <1>1, <2>1
<1>5. Commands' = Commands /\ k \in Commands /\ StateOf(k) = "waiting" /\ StateOf(k)' = "queued"
  BY <1>1, <1>3, <1>4 DEF Commands, StateOf
<1>6. \A l \in Commands \ {k} : StateOf(l)' = StateOf(l)
  BY <1>1, <1>4 DEF Commands, StateOf
<1>7. LinedUp' /\ queue' \in Seq(Commands') /\ Len(queue') <= Room[kind]
  BY <1>1, <1>5, <1>6, EnqueueLinesUp
<1>8. ExecutesNoOlder'
  BY <1>1, StillNoOlder
<1>9. ASSUME NEW v \in DOMAIN uploads PROVE ReceivedOK(v)' /\ (uploads[v].result = "ok" => uploads'[v].result = "ok")
  BY <1>1, <1>3, <1>4 DEF ReceivedOK
<1>10. ASSUME NEW c \in DOMAIN executes' PROVE AfterOK(c)'
  <2>1. AfterOK(c) /\ executes[c].after \subseteq DOMAIN uploads
    BY <1>1, UploadFacts DEF Executions
  <2> QED
    BY <1>1, <1>9, <2>1 DEF AfterOK
<1>11. \A v \in DOMAIN uploads : uploads'[v].image = uploads[v].image /\ uploads'[v].accepted = uploads[v].accepted
  BY <1>3, <1>4
<1> QED
  BY <1>1, <1>4, <1>5, <1>7, <1>8, <1>9, <1>10, <1>11, CommandsFrame DEF UploadTypeOK

LEMMA SendExecuteInv ==
  ASSUME UploadIInv, NEW c \in DOMAIN executes, SendExecute(c)
  PROVE  UploadIInv'
<1> USE DEF UploadIInv
<1> PICK k : k = [op |-> "execute", id |-> c]
  OBVIOUS
<1> PICK e : e = [executes[c] EXCEPT !.result = "queued"]
  OBVIOUS
<1>1. /\ executes[c].result = "waiting" /\ Enqueue(k) /\ executes' = [executes EXCEPT ![c] = e]
      /\ UNCHANGED <<kind, buffer, serving, accepted, uploads, inTask, received, faults>>
  BY DEF SendExecute, targetsVars
<1>2. executes[c] \in Executions
  BY UploadFacts
<1>3. e \in Executions /\ e.result = "queued" /\ e.after = executes[c].after
  BY <1>2 DEF Executions, Results
<1>4. /\ executes' \in Seq(Executions) /\ DOMAIN executes' = DOMAIN executes
      /\ executes'[c] = e /\ \A d \in DOMAIN executes \ {c} : executes'[d] = executes[d]
  <2>1. executes' \in Seq(Executions) /\ DOMAIN executes' = DOMAIN executes
    BY <1>1, <1>3, Changes
  <2> QED
    BY <1>1, <2>1
<1>5. Commands' = Commands /\ k \in Commands /\ StateOf(k) = "waiting" /\ StateOf(k)' = "queued"
  BY <1>1, <1>3, <1>4 DEF Commands, StateOf
<1>6. \A l \in Commands \ {k} : StateOf(l)' = StateOf(l)
  BY <1>1, <1>4 DEF Commands, StateOf
<1>7. LinedUp' /\ queue' \in Seq(Commands') /\ Len(queue') <= Room[kind]
  BY <1>1, <1>5, <1>6, EnqueueLinesUp
<1>8. ExecutesNoOlder'
  <2>1. \A d \in DOMAIN executes' : executes'[d].result = "ok" => d \in DOMAIN executes /\ executes'[d] = executes[d]
    BY <1>3, <1>4
  <2> QED
    BY <1>1, <2>1, StillNoOlder
<1>9. \A v \in DOMAIN uploads : ReceivedOK(v)'
  BY <1>1 DEF ReceivedOK
<1>10. ASSUME NEW d \in DOMAIN executes' PROVE AfterOK(d)'
  <2>1. AfterOK(d) /\ executes'[d].after = executes[d].after
    BY <1>3, <1>4
  <2> QED
    BY <1>1, <2>1 DEF AfterOK
<1> QED
  BY <1>1, <1>4, <1>5, <1>7, <1>8, <1>9, <1>10, CommandsFrame DEF UploadTypeOK

\* Two uploads in the channel are of two shutdowns.
LEMMA UploadsDiffer ==
  ASSUME NEW k \in Commands, NEW l \in Commands, k.op = "upload", l.op = "upload"
  PROVE  k.id \in DOMAIN uploads /\ (k # l => k.id # l.id)
<1>1. PICK u \in DOMAIN uploads : k = [op |-> "upload", id |-> u]
  BY DEF Commands
<1>2. PICK v \in DOMAIN uploads : l = [op |-> "upload", id |-> v]
  BY DEF Commands
<1> QED
  BY <1>1, <1>2

\* What is left in the channel, once nothing is carried out.
LEMMA StillLinedUp ==
  ASSUME UploadIInv, inTask # NoCommand, inTask' = NoCommand, queue' = queue, Commands' = Commands,
         \A l \in Commands \ {inTask} : StateOf(l)' = StateOf(l)
  PROVE  LinedUp' /\ queue' \in Seq(Commands') /\ Len(queue') <= Room[kind] /\ inTask' \in Commands' \cup {NoCommand}
<1> USE DEF UploadIInv
<1>1. \A i \in DOMAIN queue : queue[i] \in Commands \ {inTask} /\ StateOf(queue[i]) = "queued"
  BY UploadFacts DEF LinedUp
<1> DEFINE ResultOf(l) == IF l.op = "upload" THEN uploads'[l.id].result ELSE executes'[l.id].result
<1>2. \A l \in Commands \ {inTask} : StateOf(l) = "queued" => ResultOf(l) = "queued"
  <2>1. \A l \in Commands \ {inTask} : StateOf(l)' = ResultOf(l)
    BY DEF StateOf
  <2> QED
    BY <2>1
<1> HIDE DEF ResultOf
<1>3. \A i \in DOMAIN queue : ResultOf(queue[i]) = "queued"
  BY <1>1, <1>2
<1>4. \A i \in DOMAIN queue : queue[i] # NoCommand
  <2>1. NoCommand \notin Commands
    BY DEF NoCommand, Commands
  <2> QED
    BY <1>1, <2>1
<1>5. \A i, j \in DOMAIN queue : queue[i] = queue[j] => i = j
  BY DEF LinedUp
<1> QED
  BY <1>3, <1>4, <1>5 DEF LinedUp, StateOf, ResultOf, UploadTypeOK

LEMMA TakeCommandInv ==
  ASSUME UploadIInv, TakeCommand
  PROVE  UploadIInv'
<1> USE DEF UploadIInv
<1> PICK n : n = Len(queue)
  OBVIOUS
<1>1. /\ inTask = NoCommand /\ inTask' = Head(queue) /\ queue' = Tail(queue) /\ queue # << >>
      /\ UNCHANGED <<kind, buffer, serving, accepted, uploads, executes, received, faults>>
  BY DEF TakeCommand, targetsVars, callVars
<1>2. queue \in Seq(Commands) /\ n <= Room[kind] /\ Room[kind] \in Nat
  BY UploadFacts DEF UploadTypeOK
<1>3. /\ queue' \in Seq(Commands) /\ Len(queue') = n - 1 /\ n \in Nat \ {0}
      /\ inTask' = queue[1] /\ inTask' \in Commands
      /\ \A i \in DOMAIN queue' : /\ i + 1 \in DOMAIN queue /\ queue'[i] = queue[i + 1] /\ i \in Nat
      /\ 1 \in DOMAIN queue
  BY <1>1, <1>2
<1>4. Commands' = Commands /\ inTask' # NoCommand
  BY <1>1, <1>3 DEF Commands, NoCommand
<1>5. /\ \A i \in DOMAIN queue : StateOf(queue[i]) = "queued"
      /\ \A i, j \in DOMAIN queue : queue[i] = queue[j] => i = j
  BY DEF LinedUp
<1>6. LinedUp'
  <2>1. ASSUME NEW i \in DOMAIN queue' PROVE queue'[i] # inTask'
    <3>1. i + 1 \in DOMAIN queue /\ i + 1 # 1 /\ queue'[i] = queue[i + 1]
      BY <1>3
    <3>2. queue[i + 1] # queue[1]
      BY <1>3, <1>5, <3>1
    <3> QED
      BY <1>3, <3>1, <3>2
  <2>2. \A i, j \in DOMAIN queue' : queue'[i] = queue'[j] => i = j
    BY <1>3, <1>5
  <2> DEFINE Queued(l) == (IF l.op = "upload" THEN uploads[l.id].result ELSE executes[l.id].result) = "queued"
  <2>3. \A i \in DOMAIN queue : Queued(queue[i])
    BY <1>5 DEF StateOf
  <2> HIDE DEF Queued
  <2>4. Queued(inTask') /\ \A i \in DOMAIN queue' : Queued(queue'[i])
    BY <1>3, <2>3
  <2> QED
    BY <1>1, <2>1, <2>2, <2>4 DEF LinedUp, StateOf, Queued
<1>7. ExecutesNoOlder'
  BY <1>1, StillNoOlder
<1>8. \A u \in DOMAIN uploads : ReceivedOK(u)'
  BY <1>1 DEF ReceivedOK
<1>9. \A c \in DOMAIN executes' : AfterOK(c)'
  BY <1>1 DEF AfterOK
<1>10. queue' \in Seq(Commands') /\ Len(queue') <= Room[kind] /\ inTask' \in Commands' \cup {NoCommand}
  BY <1>2, <1>3, <1>4
<1> QED
  BY <1>1, <1>6, <1>7, <1>8, <1>9, <1>10, CommandsFrame DEF UploadTypeOK

\* An upload ends, and with it what its target waits for.
LEMMA UploadStepInv ==
  ASSUME UploadIInv, Upload
  PROVE  UploadIInv'
<1> USE DEF UploadIInv
<1> PICK u : u = inTask.id
  OBVIOUS
<1> PICK n : n = Len(uploads)
  OBVIOUS
<1>1. /\ inTask # NoCommand /\ inTask \in Commands /\ inTask.op = "upload" /\ inTask' = NoCommand
      /\ serving' = [t \in Targets |-> IF serving[t] = u THEN Idle ELSE serving[t]]
      /\ UNCHANGED <<kind, buffer, accepted, executes, queue>>
  BY DEF Upload, NoCommand, UploadTypeOK
<1>2. u \in DOMAIN uploads /\ uploads[u].result = "queued" /\ DOMAIN uploads = 1 .. n /\ n \in Nat
  BY <1>1, UploadFacts DEF LinedUp, StateOf, Commands
<1> PICK m : m = Len(received)
  OBVIOUS
<1>3. /\ received \in Seq({Damaged} \cup DOMAIN uploads) /\ DOMAIN received = 1 .. m /\ m \in Nat
      /\ \A i \in 1 .. m : received[i] # u
  <2>1. \A i \in DOMAIN received : received[i] # u
    BY <1>2 DEF ReceivedOK
  <2> QED
    BY <2>1, UploadFacts DEF UploadTypeOK
<1>4. PICK r \in {"ok", "failed"} :
        /\ uploads' = [uploads EXCEPT ![u].result = r]
        /\ r = "ok" => received' = Append(received, u)
        /\ r = "failed" => received' \in {received, Append(received, Damaged)}
        /\ faults' \in 0 .. MaxFaults
  <2>1. CASE /\ uploads' = [uploads EXCEPT ![inTask.id].result = "ok"]
             /\ received' = Append(received, inTask.id)
             /\ UNCHANGED faults
    BY <2>1 DEF UploadTypeOK
  <2>2. CASE /\ faults < MaxFaults /\ faults' = faults + 1
             /\ uploads' = [uploads EXCEPT ![inTask.id].result = "failed"]
             /\ received' \in {received, Append(received, Damaged)}
    <3>1. faults' \in 0 .. MaxFaults
      BY <2>2, UploadFacts DEF UploadTypeOK
    <3> QED
      BY <2>2, <3>1
  <2> QED
    BY <2>1, <2>2 DEF Upload
<1> PICK e : e = [uploads[u] EXCEPT !.result = r]
  OBVIOUS
<1>5. e \in Uploads /\ e.result = r /\ e.image = uploads[u].image /\ e.accepted = uploads[u].accepted
  <2>1. uploads[u] \in Uploads
    BY <1>2, UploadFacts
  <2> QED
    BY <2>1 DEF Uploads, Results
<1>6. /\ uploads' \in Seq(Uploads) /\ DOMAIN uploads' = DOMAIN uploads
      /\ uploads'[u] = e /\ \A v \in DOMAIN uploads \ {u} : uploads'[v] = uploads[v]
  <2>1. uploads' = [uploads EXCEPT ![u] = e]
    BY <1>4
  <2>2. uploads' \in Seq(Uploads) /\ DOMAIN uploads' = DOMAIN uploads
    BY <1>2, <1>5, <2>1, Changes
  <2> QED
    BY <1>2, <2>1, <2>2
<1>7. /\ received' \in Seq({Damaged} \cup DOMAIN uploads) /\ DOMAIN received \subseteq DOMAIN received'
      /\ \A i \in DOMAIN received : received'[i] = received[i]
      /\ \A i \in DOMAIN received' : i \in DOMAIN received \/ (i = m + 1 /\ received'[i] = IF r = "ok" THEN u ELSE Damaged)
      /\ r = "ok" => m + 1 \in DOMAIN received'
  <2>1. ASSUME NEW d \in {Damaged} \cup DOMAIN uploads
        PROVE  /\ Append(received, d) \in Seq({Damaged} \cup DOMAIN uploads)
               /\ DOMAIN Append(received, d) = 1 .. m + 1
               /\ Append(received, d)[m + 1] = d
               /\ \A i \in 1 .. m : Append(received, d)[i] = received[i]
    BY <1>3, AppendGrows
  <2>2. CASE r = "ok"
    <3>1. u \in {Damaged} \cup DOMAIN uploads /\ received' = Append(received, u)
      BY <1>2, <1>4, <2>2
    <3>2. /\ received' \in Seq({Damaged} \cup DOMAIN uploads) /\ DOMAIN received' = 1 .. m + 1
          /\ received'[m + 1] = u /\ \A i \in 1 .. m : received'[i] = received[i]
      BY <2>1, <3>1
    <3> QED
      BY <1>3, <2>2, <3>2
  <2>3. CASE r = "failed" /\ received' = Append(received, Damaged)
    BY <1>2, <1>3, <1>4, <2>1, <2>3
  <2>4. CASE r = "failed" /\ received' = received
    BY <1>3, <2>4
  <2> QED
    BY <1>4, <2>2, <2>3, <2>4
<1>8. ASSUME NEW v \in DOMAIN uploads PROVE ReceivedOK(v)'
  <2>1. CASE v = u
    <3>1. uploads'[v].result = "ok" <=> \E i \in DOMAIN received' : received'[i] = v
      <4>1. CASE r = "ok"
        <5>1. m + 1 \in DOMAIN received' /\ m + 1 \notin DOMAIN received
          BY <1>3, <1>7, <4>1
        <5>2. received'[m + 1] = u
          BY <1>7, <4>1, <5>1
        <5> QED
          BY <1>5, <1>6, <2>1, <4>1, <5>1, <5>2
      <4>2. CASE r = "failed"
        <5>1. Damaged # u
          BY <1>2 DEF Damaged
        <5> QED
          BY <1>3, <1>5, <1>6, <1>7, <2>1, <4>2, <5>1
      <4> QED
        BY <4>1, <4>2
    <3>2. \A i, j \in DOMAIN received' : received'[i] = v /\ received'[j] = v => i = j
      BY <1>3, <1>7, <2>1
    <3> QED
      BY <3>1, <3>2 DEF ReceivedOK
  <2>2. CASE v # u
    <3>1. /\ uploads[v].result = "ok" <=> \E i \in DOMAIN received : received[i] = v
          /\ \A i, j \in DOMAIN received : received[i] = v /\ received[j] = v => i = j
      BY DEF ReceivedOK
    <3>2. v # Damaged
      BY <1>2 DEF Damaged
    <3>3. \A i \in DOMAIN received' : received'[i] = v => i \in DOMAIN received /\ received[i] = v
      BY <1>7, <2>2, <3>2
    <3>4. uploads'[v].result = "ok" <=> \E i \in DOMAIN received' : received'[i] = v
      BY <1>6, <1>7, <2>2, <3>1, <3>3
    <3> QED
      BY <3>1, <3>3, <3>4 DEF ReceivedOK
  <2> QED
    BY <2>1, <2>2
<1>9. ExecutesNoOlder'
  BY <1>1, <1>7, StillNoOlder
<1>10. ASSUME NEW c \in DOMAIN executes' PROVE AfterOK(c)'
  <2>1. AfterOK(c) /\ executes[c].after \subseteq DOMAIN uploads
    BY <1>1, UploadFacts DEF Executions
  <2>2. \A v \in DOMAIN uploads : uploads[v].result = "ok" => uploads'[v].result = "ok"
    BY <1>2, <1>6
  <2> QED
    BY <1>1, <2>1, <2>2 DEF AfterOK
<1>11. LinedUp' /\ queue' \in Seq(Commands') /\ Len(queue') <= Room[kind] /\ inTask' \in Commands' \cup {NoCommand}
  <2>1. Commands' = Commands
    BY <1>1, <1>6 DEF Commands
  <2>2. ASSUME NEW l \in Commands \ {inTask} PROVE StateOf(l)' = StateOf(l)
    <3>1. CASE l.op = "upload"
      <4>1. l.id \in DOMAIN uploads /\ l.id # u
        BY <1>1, <3>1, UploadsDiffer
      <4> QED
        BY <1>6, <3>1, <4>1 DEF StateOf
    <3>2. CASE l.op # "upload"
      BY <1>1, <3>2 DEF StateOf
    <3> QED
      BY <3>1, <3>2
  <2> QED
    BY <1>1, <2>1, <2>2, StillLinedUp
<1>12. /\ serving' \in [Targets -> {Idle, Dropped} \cup DOMAIN uploads]
       /\ \A t \in Targets : serving'[t] # Dropped => serving[t] # Dropped
  <2>1. \A t \in Targets : serving[t] \in {Idle, Dropped} \cup DOMAIN uploads
    BY UploadFacts
  <2>2. u # Dropped
    BY <1>2 DEF Dropped
  <2> QED
    BY <1>1, <2>1, <2>2
<1>13. \A v \in DOMAIN uploads : uploads'[v].image = uploads[v].image /\ uploads'[v].accepted = uploads[v].accepted
  BY <1>5, <1>6
<1>14. executes' \in Seq(Executions) /\ faults' \in 0 .. MaxFaults
  BY <1>1, <1>4
<1> QED
  BY <1>1, <1>6, <1>7, <1>8, <1>9, <1>10, <1>11, <1>12, <1>13, <1>14, CommandsFrame

LEMMA RunInv ==
  ASSUME UploadIInv, Run
  PROVE  UploadIInv'
<1> USE DEF UploadIInv
<1> PICK c : c = inTask.id
  OBVIOUS
<1> PICK m : m = Len(received)
  OBVIOUS
<1>1. /\ inTask # NoCommand /\ inTask \in Commands /\ inTask.op = "execute" /\ inTask' = NoCommand
      /\ UNCHANGED <<kind, buffer, serving, accepted, uploads, queue, received>>
  BY DEF Run, NoCommand, UploadTypeOK, targetsVars
<1>2. c \in DOMAIN executes /\ executes[c] \in Executions
  BY <1>1, UploadFacts DEF Commands
<1>3. received \in Seq({Damaged} \cup DOMAIN uploads) /\ DOMAIN received = 1 .. m /\ m \in Nat
  BY UploadFacts DEF UploadTypeOK
<1>4. PICK e \in Executions :
        /\ executes' = [executes EXCEPT ![c] = e] /\ e.after = executes[c].after
        /\ e.result = "ok" => m \in DOMAIN received /\ e.ran = received[m]
        /\ faults' \in 0 .. MaxFaults
  <2>1. CASE /\ received # << >>
             /\ executes' = [executes EXCEPT ![inTask.id].result = "ok", ![inTask.id].ran = Last(received)]
             /\ UNCHANGED faults
    <3> PICK e : e = [executes[c] EXCEPT !.result = "ok", !.ran = Last(received)]
      OBVIOUS
    <3>1. m \in DOMAIN received /\ Last(received) = received[m] /\ Last(received) \in {Damaged} \cup DOMAIN uploads
      BY <1>3, <2>1 DEF Last
    <3>2. e \in Executions /\ e.after = executes[c].after /\ e.ran = received[m]
      BY <1>2, <3>1 DEF Executions, Results
    <3>3. executes' = [executes EXCEPT ![c] = e]
      BY <2>1
    <3> QED
      BY <2>1, <3>1, <3>2, <3>3 DEF UploadTypeOK
  <2>2. CASE /\ \/ received = << >> /\ UNCHANGED faults
                \/ faults < MaxFaults /\ faults' = faults + 1
             /\ executes' = [executes EXCEPT ![inTask.id].result = "failed"]
    <3> PICK e : e = [executes[c] EXCEPT !.result = "failed"]
      OBVIOUS
    <3>1. faults' \in 0 .. MaxFaults
      BY <2>2, UploadFacts DEF UploadTypeOK
    <3>2. e \in Executions /\ e.after = executes[c].after /\ e.result = "failed"
      BY <1>2 DEF Executions, Results
    <3>3. executes' = [executes EXCEPT ![c] = e]
      BY <2>2
    <3> QED
      BY <3>1, <3>2, <3>3
  <2> QED
    BY <2>1, <2>2 DEF Run
<1>5. /\ executes' \in Seq(Executions) /\ DOMAIN executes' = DOMAIN executes
      /\ executes'[c] = e /\ \A d \in DOMAIN executes \ {c} : executes'[d] = executes[d]
  <2>1. executes' \in Seq(Executions) /\ DOMAIN executes' = DOMAIN executes
    BY <1>2, <1>4, Changes
  <2> QED
    BY <1>2, <1>4, <2>1
<1>6. LinedUp' /\ queue' \in Seq(Commands') /\ Len(queue') <= Room[kind] /\ inTask' \in Commands' \cup {NoCommand}
  <2>1. Commands' = Commands
    BY <1>1, <1>5 DEF Commands
  <2>2. \A l \in Commands \ {inTask} : StateOf(l)' = StateOf(l)
    BY <1>1, <1>5 DEF Commands, StateOf
  <2> QED
    BY <1>1, <2>1, <2>2, StillLinedUp
<1>7. ExecutesNoOlder'
  <2> SUFFICES ASSUME NEW d \in DOMAIN executes', executes'[d].result = "ok", NEW u \in executes'[d].after
               PROVE  \E i, j \in DOMAIN received' : i <= j /\ received'[i] = u /\ received'[j] = executes'[d].ran
    BY DEF ExecutesNoOlder
  <2>1. CASE d = c
    <3>1. m \in DOMAIN received /\ executes'[d].ran = received[m] /\ u \in executes[c].after
      BY <1>4, <1>5, <2>1
    <3>2. u \in DOMAIN uploads /\ uploads[u].result = "ok"
      BY <1>2, <3>1 DEF AfterOK, Executions
    <3>3. PICK i \in DOMAIN received : received[i] = u
      BY <3>2 DEF ReceivedOK
    <3>4. i <= m
      BY <1>3
    <3> QED
      BY <1>1, <3>1, <3>3, <3>4
  <2>2. CASE d # c
    <3>1. d \in DOMAIN executes /\ executes'[d] = executes[d]
      BY <1>5, <2>2
    <3>2. executes[d].result = "ok" /\ u \in executes[d].after
      BY <3>1
    <3>3. PICK i \in DOMAIN received, j \in DOMAIN received :
            i <= j /\ received[i] = u /\ received[j] = executes[d].ran
      BY <3>1, <3>2 DEF ExecutesNoOlder
    <3> QED
      BY <1>1, <3>1, <3>3
  <2> QED
    BY <2>1, <2>2
<1>8. \A v \in DOMAIN uploads : ReceivedOK(v)'
  BY <1>1 DEF ReceivedOK
<1>9. ASSUME NEW d \in DOMAIN executes' PROVE AfterOK(d)'
  <2>1. AfterOK(d) /\ executes'[d].after = executes[d].after
    BY <1>4, <1>5
  <2> QED
    BY <1>1, <2>1 DEF AfterOK
<1> QED
  BY <1>1, <1>3, <1>4, <1>5, <1>6, <1>7, <1>8, <1>9, CommandsFrame DEF UploadTypeOK

LEMMA UploadKeepsInv == UploadIInv /\ [UploadNext]_uploadVars => UploadIInv'
<1> SUFFICES ASSUME UploadIInv, [UploadNext]_uploadVars PROVE UploadIInv'
  OBVIOUS
<1>1. CASE \E t \in Targets : WriteBytes(t) \/ Shutdown(t) \/ Drop(t)
  BY <1>1, WriteBytesInv, ShutdownInv, DropInv
<1>2. CASE SendUploadStep
  BY <1>2, SendUploadInv, SendExecuteInv DEF SendUploadStep
<1>3. CASE UploadStep
  BY <1>3, TakeCommandInv, UploadStepInv, RunInv DEF UploadStep
<1>4. CASE OpenTarget \/ Execute
  BY <1>4, OpenTargetInv, ExecuteInv
<1>5. CASE UNCHANGED uploadVars
  <2>1. UNCHANGED <<kind, buffer, serving, accepted, uploads, executes, queue, inTask, received, faults>>
    BY <1>5 DEF uploadVars, targetsVars, callVars, taskVars
  <2>2. UploadTypeOK' /\ LinedUp' /\ ImagesAreWhole' /\ ExecutesNoOlder'
    BY <2>1 DEF UploadIInv, UploadTypeOK, LinedUp, StateOf, ImagesAreWhole, ExecutesNoOlder, Targets, Commands
  <2>3. /\ \A t \in Targets' : BufferOK(t)'
        /\ \A u \in DOMAIN uploads' : ReceivedOK(u)'
        /\ \A c \in DOMAIN executes' : AfterOK(c)'
    BY <2>1 DEF UploadIInv, BufferOK, ReceivedOK, AfterOK, Targets, Bytes
  <2> QED
    BY <2>1, <2>2, <2>3 DEF UploadIInv, Buffers, Uploads, Executions
<1> QED
  BY <1>1, <1>2, <1>3, <1>4, <1>5 DEF UploadNext

LEMMA ReceivedOnce == UploadIInv => OkIsReceived
<1> SUFFICES ASSUME UploadIInv, NEW u \in DOMAIN uploads
             PROVE  Cardinality({i \in DOMAIN received : received[i] = u}) = IF uploads[u].result = "ok" THEN 1 ELSE 0
  BY DEF OkIsReceived
<1> DEFINE S == {i \in DOMAIN received : received[i] = u}
<1>1. ReceivedOK(u)
  BY DEF UploadIInv
<1>2. CASE uploads[u].result = "ok"
  <2>1. PICK i \in DOMAIN received : received[i] = u
    BY <1>1, <1>2 DEF ReceivedOK
  <2>2. S = {i}
    BY <1>1, <2>1 DEF ReceivedOK
  <2>3. Cardinality(S) = 1
    BY <2>2, FS_Singleton
  <2> QED
    BY <1>2, <2>3
<1>3. CASE uploads[u].result # "ok"
  <2>1. S = {}
    BY <1>1, <1>3 DEF ReceivedOK
  <2>2. Cardinality(S) = 0
    BY <2>1, FS_EmptySet
  <2> QED
    BY <1>3, <2>2
<1> QED
  BY <1>2, <1>3

\* What a shutdown sends is one whole image, of the bytes accepted since the
\* shutdown before; the device has the uploads answered with Ok, each once; and a
\* commit executes nothing older than what was answered before it was called
\* (Target of rockusb.rs and mediatek_brom.rs, and the task of each device).
THEOREM UploadSafe == UploadSpec => []UploadInv
<1>1. UploadIInv => UploadInv
  BY ReceivedOnce DEF UploadIInv, UploadInv
<1> QED
  BY UploadInitInv, UploadKeepsInv, <1>1, PTL DEF UploadSpec

-----------------------------------------------------------------------------
(* All callers of a fastboot device. *)

VolumeCommands == [op : {"flash", "ping", "probe", "erase", "continue"}, of : Nat, name : Names,
                   data : Seq(Nat), state : {"calling", "queued", "ok", "failed"}]

\* The writes of a command, in the buffer of a handle, and on the board.
DataOf(i) == ToSet(asked[i].data)
Buffered(h) == ToSet(pending[h])
Stored(n) == ToSet(partition[n])

VolumeTypes ==
  /\ handle \in Seq(Names) /\ Len(handle) <= MaxHandles
  /\ busy \in [Handles -> Int] /\ pending \in [Handles -> Seq(Nat)]
  /\ items \in Seq([of : Nat, flash : Nat]) /\ Len(items) <= MaxItems
  /\ asked \in Seq(VolumeCommands)
  /\ line \in Seq(Nat) /\ Len(line) <= 2
  /\ partition \in [Names -> Seq(Nat)] /\ loaded \in Seq(Nat)
  /\ booted \in BOOLEAN /\ refusals \in 0 .. MaxRefusals

\* What is referred to is there.
VolumeRefers ==
  /\ \A h \in Handles : busy[h] \in {Ready, Lost} \cup Ids /\ Buffered(h) \subseteq DOMAIN items
  /\ \A w \in DOMAIN items : items[w].of \in Handles /\ items[w].flash \in {0} \cup Ids
  /\ \A i \in Ids : asked[i].of \in {0} \cup Handles /\ DataOf(i) \subseteq DOMAIN items
  /\ \A n \in Names : Stored(n) \subseteq DOMAIN items
  /\ erased \subseteq DOMAIN items /\ ToSet(loaded) \subseteq DOMAIN items

\* Commands are sent in their order, and come to an end in it.
InTurn ==
  /\ \A i, j \in Ids : i < j => /\ asked[i].state = "calling" => asked[j].state = "calling"
                                /\ Ended(j) => Ended(i)
  /\ \A k \in DOMAIN line : line[k] \in Ids /\ asked[line[k]].state = "queued"
  /\ \A i \in Ids : asked[i].state = "queued" => \E k \in DOMAIN line : line[k] = i
  /\ \A k, l \in DOMAIN line : k < l => line[k] < line[l]

Rising(s) == \A k, l \in DOMAIN s : k < l => s[k] < s[l]
Below(S, R) == \A v \in S, w \in R : v < w

\* What a handle has written goes to its commands in order, and what is left is later.
OwnData ==
  /\ \A i \in Ids : /\ asked[i].op # "flash" => asked[i].data = << >>
                    /\ Rising(asked[i].data)
                    /\ \A w \in DataOf(i) : items[w].of = asked[i].of
  /\ \A h \in Handles : Rising(pending[h]) /\ \A w \in Buffered(h) : items[w].of = h
  /\ \A i, j \in Ids : i < j /\ asked[i].of = asked[j].of => Below(DataOf(i), DataOf(j))
  /\ \A i \in Ids, h \in Handles : asked[i].of = h => Below(DataOf(i), Buffered(h))

\* What is on the board is older than what its handle is still to flash.
Older ==
  \A n \in Names : \A w \in Stored(n) :
    /\ \A i \in Ids : ~ Ended(i) /\ asked[i].of = items[w].of => Below({w}, DataOf(i))
    /\ \A h \in Handles : items[w].of = h => Below({w}, Buffered(h))

\* What was flashed is on the board, or was erased.
IsStored ==
  \A i \in Ids : asked[i].op = "flash" /\ asked[i].state = "ok" /\ asked[i].name # Stage =>
    DataOf(i) \subseteq Stored(asked[i].name) \cup erased

VolumeIInv ==
  VolumeTypes /\ VolumeRefers /\ InTurn /\ OwnData /\ Older /\ InOrder /\ IsStored

\* The elements of a sequence that has grown, and one whose elements are known.
LEMMA Elements ==
  /\ \A S : \A s, t \in Seq(S) : s \o t \in Seq(S) /\ ToSet(s \o t) = ToSet(s) \cup ToSet(t)
  /\ \A S : \A s \in Seq(S) : \A e \in S : Append(s, e) \in Seq(S) /\ ToSet(Append(s, e)) = ToSet(s) \cup {e}
  /\ ToSet(<< >>) = {}
  /\ \A e : ToSet(<<e>>) = {e}
<1>1. ASSUME NEW S, NEW s \in Seq(S), NEW t \in Seq(S)
      PROVE  s \o t \in Seq(S) /\ ToSet(s \o t) = ToSet(s) \cup ToSet(t)
  <2>1. PICK m \in Nat, n \in Nat : /\ m = Len(s) /\ n = Len(t) /\ DOMAIN s = 1 .. m /\ DOMAIN t = 1 .. n
                                    /\ DOMAIN (s \o t) = 1 .. m + n
    OBVIOUS
  <2>2. /\ s \o t \in Seq(S)
        /\ \A k \in 1 .. m + n : (s \o t)[k] = IF k <= m THEN s[k] ELSE t[k - m]
    BY <2>1
  <2>3. ToSet(s \o t) \subseteq ToSet(s) \cup ToSet(t)
    <3>1. \A k \in 1 .. m + n : IF k <= m THEN k \in 1 .. m ELSE k - m \in 1 .. n
      OBVIOUS
    <3> QED
      BY <2>1, <2>2, <3>1 DEF ToSet
  <2>4. ToSet(s) \subseteq ToSet(s \o t)
    <3>1. \A k \in 1 .. m : k \in 1 .. m + n /\ k <= m
      OBVIOUS
    <3> QED
      BY <2>1, <2>2, <3>1 DEF ToSet
  <2>5. ToSet(t) \subseteq ToSet(s \o t)
    <3>1. \A k \in 1 .. n : k + m \in 1 .. m + n /\ ~ k + m <= m /\ (k + m) - m = k
      OBVIOUS
    <3> QED
      BY <2>1, <2>2, <3>1 DEF ToSet
  <2> QED
    BY <2>2, <2>3, <2>4, <2>5
<1>2. ASSUME NEW S, NEW s \in Seq(S), NEW e \in S
      PROVE  Append(s, e) \in Seq(S) /\ ToSet(Append(s, e)) = ToSet(s) \cup {e}
  <2>1. PICK n \in Nat : /\ n = Len(s) /\ DOMAIN s = 1 .. n /\ DOMAIN Append(s, e) = 1 .. n + 1
    BY AppendGrows
  <2>2. /\ Append(s, e) \in Seq(S) /\ Append(s, e)[n + 1] = e
        /\ \A k \in 1 .. n : Append(s, e)[k] = s[k]
    BY <2>1, AppendGrows
  <2>3. \A k \in 1 .. n + 1 : k \in 1 .. n \/ k = n + 1
    OBVIOUS
  <2>4. n + 1 \in 1 .. n + 1 /\ \A k \in 1 .. n : k \in 1 .. n + 1
    OBVIOUS
  <2> QED
    BY <2>1, <2>2, <2>3, <2>4 DEF ToSet
<1>3. ToSet(<< >>) = {} /\ \A e : ToSet(<<e>>) = {e}
  BY DEF ToSet
<1> QED
  BY <1>1, <1>2, <1>3

LEMMA ElementOf ==
  ASSUME NEW S, NEW s \in Seq(S), NEW i \in DOMAIN s
  PROVE  s[i] \in S
  OBVIOUS

LEMMA SeqNarrows ==
  ASSUME NEW S, NEW R, NEW s \in Seq(S), ToSet(s) \subseteq R
  PROVE  s \in Seq(R)
<1>1. PICK n \in Nat : n = Len(s) /\ s \in [1 .. n -> S] /\ DOMAIN s = 1 .. n
  OBVIOUS
<1>2. s \in [1 .. n -> R]
  BY <1>1 DEF ToSet
<1> QED
  BY <1>2

\* The types that are checked follow from those that are proved.
LEMMA VolumeTypesEnough == VolumeTypes /\ VolumeRefers /\ InTurn => VolumeTypeOK
<1> SUFFICES ASSUME VolumeTypes, VolumeRefers, InTurn PROVE VolumeTypeOK
  OBVIOUS
<1>1. busy \in [Handles -> {Ready, Lost} \cup Ids]
  BY DEF VolumeTypes, VolumeRefers
<1>2. items \in Seq([of : Handles, flash : {0} \cup Ids])
  <2>1. items \in Seq([of : Nat, flash : Nat])
    BY DEF VolumeTypes
  <2>2. ASSUME NEW w \in DOMAIN items PROVE items[w] \in [of : Handles, flash : {0} \cup Ids]
    <3>1. items[w] \in [of : Nat, flash : Nat]
      BY <2>1, ElementOf
    <3> QED
      BY <3>1 DEF VolumeRefers
  <2>3. ToSet(items) \subseteq [of : Handles, flash : {0} \cup Ids]
    BY <2>2 DEF ToSet
  <2> QED
    BY <2>1, <2>3, SeqNarrows
<1>3. pending \in [Handles -> Seq(DOMAIN items)]
  <2>1. \A h \in Handles : pending[h] \in Seq(DOMAIN items)
    BY SeqNarrows DEF VolumeTypes, VolumeRefers, Buffered
  <2> QED
    BY <2>1 DEF VolumeTypes
<1>4. ASSUME NEW i \in Ids
      PROVE  /\ asked[i].op \in {"flash", "ping", "probe", "erase", "continue"}
             /\ asked[i].of \in {0} \cup Handles /\ asked[i].name \in Names
             /\ asked[i].data \in Seq(DOMAIN items)
             /\ asked[i].state \in {"calling", "queued", "ok", "failed"}
  <2>1. asked[i] \in VolumeCommands
    BY ElementOf DEF VolumeTypes, Ids
  <2>2. asked[i].data \in Seq(DOMAIN items)
    BY <2>1, SeqNarrows DEF VolumeRefers, VolumeCommands, DataOf
  <2> QED
    BY <2>1, <2>2 DEF VolumeRefers, VolumeCommands
<1>5. partition \in [Names -> Seq(DOMAIN items)]
  <2>1. \A n \in Names : partition[n] \in Seq(DOMAIN items)
    BY SeqNarrows DEF VolumeTypes, VolumeRefers, Stored
  <2> QED
    BY <2>1 DEF VolumeTypes
<1>6. loaded \in Seq(DOMAIN items)
  BY SeqNarrows DEF VolumeTypes, VolumeRefers
<1>7. line \in Seq(Ids)
  <2>1. ToSet(line) \subseteq Ids
    BY DEF InTurn, ToSet
  <2> QED
    BY <2>1, SeqNarrows DEF VolumeTypes
<1> QED
  BY <1>1, <1>2, <1>3, <1>4, <1>5, <1>6, <1>7 DEF VolumeTypes, VolumeRefers, VolumeTypeOK

\* A command that is asked for comes after those that were.
LEMMA AskedGrows ==
  ASSUME VolumeTypes, NEW c \in VolumeCommands, asked' = Append(asked, c)
  PROVE  /\ asked' \in Seq(VolumeCommands) /\ Len(asked) \in Nat
         /\ Len(asked) + 1 \notin Ids /\ Ids' = Ids \cup {Len(asked) + 1}
         /\ asked'[Len(asked) + 1] = c
         /\ \A i \in Ids : asked'[i] = asked[i] /\ i \in Nat /\ i < Len(asked) + 1
<1>1. asked \in Seq(VolumeCommands)
  BY DEF VolumeTypes
<1>2. PICK n \in Nat : n = Len(asked) /\ DOMAIN asked = 1 .. n
  BY <1>1
<1>3. /\ asked' \in Seq(VolumeCommands) /\ DOMAIN asked' = 1 .. n + 1
      /\ asked'[n + 1] = c /\ \A i \in 1 .. n : asked'[i] = asked[i]
  BY <1>1, <1>2, AppendGrows
<1>4. /\ n + 1 \notin 1 .. n /\ 1 .. n + 1 = 1 .. n \cup {n + 1}
      /\ \A i \in 1 .. n : i \in Nat /\ i < n + 1
  OBVIOUS
<1> QED
  BY <1>2, <1>3, <1>4 DEF Ids

\* A write that is new comes after those that were.
LEMMA ItemsGrow ==
  ASSUME VolumeTypes, NEW x \in [of : Nat, flash : Nat], items' = Append(items, x)
  PROVE  /\ items' \in Seq([of : Nat, flash : Nat]) /\ Len(items) \in Nat /\ Len(items') = Len(items) + 1
         /\ Len(items) + 1 \notin DOMAIN items /\ DOMAIN items' = DOMAIN items \cup {Len(items) + 1}
         /\ items'[Len(items) + 1] = x
         /\ \A w \in DOMAIN items : items'[w] = items[w] /\ w \in Nat /\ w < Len(items) + 1
<1>1. items \in Seq([of : Nat, flash : Nat])
  BY DEF VolumeTypes
<1>2. PICK n \in Nat : n = Len(items) /\ DOMAIN items = 1 .. n
  BY <1>1
<1>3. /\ items' \in Seq([of : Nat, flash : Nat]) /\ DOMAIN items' = 1 .. n + 1 /\ Len(items') = n + 1
      /\ items'[n + 1] = x /\ \A i \in 1 .. n : items'[i] = items[i]
  BY <1>1, <1>2, AppendGrows
<1>4. /\ n + 1 \notin 1 .. n /\ 1 .. n + 1 = 1 .. n \cup {n + 1}
      /\ \A i \in 1 .. n : i \in Nat /\ i < n + 1
  OBVIOUS
<1> QED
  BY <1>2, <1>3, <1>4

\* What a handle may put into a command or its buffer: what was there, or a new write.
Newer(h, w) == (h \in Handles /\ w \in Buffered(h)) \/ (w \in Nat /\ \A v \in DOMAIN items : v < w)

\* What callers do leaves the order of what they have asked for, if what they ask for,
\* and keep, is what they had in their buffer and what is new.
LEMMA CallerKeeps ==
  ASSUME VolumeIInv, VolumeTypes', UNCHANGED <<line, fastbootBoardVars>>,
         Handles \subseteq Handles',
         \A w \in DOMAIN items : w \in DOMAIN items' /\ items'[w].of = items[w].of,
         NEW c \in VolumeCommands, asked' \in {asked, Append(asked, c)},
         \A h \in Handles' : busy'[h] \in {Ready, Lost} \cup Ids' /\ Buffered(h)' \subseteq DOMAIN items',
         \A w \in DOMAIN items' : items'[w].of \in Handles' /\ items'[w].flash \in {0} \cup Ids',
         asked' # asked =>
           /\ c.of \in {0} \cup Handles' /\ ToSet(c.data) \subseteq DOMAIN items'
           /\ c.state = "calling" /\ (c.op # "flash" => c.data = << >>) /\ Rising(c.data)
           /\ \A w \in ToSet(c.data) : items'[w].of = c.of /\ Newer(c.of, w)
           /\ \A h \in Handles' : c.of = h => Below(ToSet(c.data), Buffered(h)'),
         \A h \in Handles' : /\ Rising(pending'[h])
                             /\ \A w \in Buffered(h)' : items'[w].of = h /\ Newer(h, w)
  PROVE  VolumeIInv'
<1>1. VolumeTypes /\ VolumeRefers /\ InTurn /\ OwnData /\ Older /\ InOrder /\ IsStored
  BY DEF VolumeIInv
<1>n. PICK n \in Nat : n = Len(asked) + 1
  BY <1>1 DEF VolumeTypes
<1>2. /\ Ids \subseteq Ids' /\ n \notin Ids /\ \A i \in Ids : asked'[i] = asked[i] /\ i < n
      /\ asked' = asked => Ids' = Ids
      /\ asked' # asked => Ids' = Ids \cup {n} /\ asked'[n] = c
      /\ Ids' \subseteq Nat
  <2>1. CASE asked' = asked
    <3>1. PICK l \in Nat : l = Len(asked) /\ DOMAIN asked = 1 .. l
      BY <1>1 DEF VolumeTypes, Ids
    <3>2. l + 1 \notin 1 .. l /\ 1 .. l \subseteq Nat /\ \A i \in 1 .. l : i < l + 1
      OBVIOUS
    <3> QED
      BY <2>1, <3>1, <3>2, <1>n DEF Ids
  <2>2. CASE asked' = Append(asked, c)
    <3>1. /\ Len(asked) \in Nat
          /\ n \notin Ids /\ Ids' = Ids \cup {n}
          /\ asked'[n] = c
          /\ \A i \in Ids : asked'[i] = asked[i] /\ i \in Nat /\ i < n
      BY <1>1, <1>n, <2>2, AskedGrows
    <3>2. asked' # asked
      BY <3>1 DEF Ids
    <3>3. Ids' \subseteq Nat
      BY <3>1
    <3> QED
      BY <3>1, <3>2, <3>3
  <2> QED
    BY <2>1, <2>2
<1>3. ASSUME NEW i \in Ids' PROVE i \in Ids \/ (i = n /\ asked' # asked /\ asked'[i] = c /\ ~ i \in Ids)
  BY <1>2
<1>4. UNCHANGED <<line, partition, erased>>
  BY DEF fastbootBoardVars
<1>5. \A i \in Ids : DataOf(i)' = DataOf(i) /\ DataOf(i) \subseteq DOMAIN items /\ (Ended(i)' <=> Ended(i))
  BY <1>1, <1>2 DEF DataOf, VolumeRefers, Ended
<1>6. asked' # asked => DataOf(n)' = ToSet(c.data) /\ ~ Ended(n)'
  BY <1>2 DEF DataOf, Ended
<1>7. \A m \in Names : Stored(m)' = Stored(m) /\ Stored(m) \subseteq DOMAIN items
  BY <1>1, <1>4 DEF Stored, VolumeRefers
<1>8. InTurn'
  <2>1. ASSUME NEW i \in Ids', NEW j \in Ids', i < j
        PROVE  /\ asked'[i].state = "calling" => asked'[j].state = "calling"
               /\ Ended(j)' => Ended(i)'
    <3>1. CASE j \in Ids
      <4>1. i \in Ids
        <5>1. j < n
          BY <1>2, <1>3, <3>1
        <5>2. i \in Nat /\ j \in Nat
          BY <1>2
        <5> QED
          BY <1>3, <2>1, <5>1, <5>2
      <4> QED
        BY <1>1, <1>2, <1>5, <2>1, <3>1, <4>1 DEF InTurn
    <3>2. CASE j \notin Ids
      BY <1>3, <1>6, <3>2
    <3> QED
      BY <3>1, <3>2
  <2>2. ASSUME NEW k \in DOMAIN line PROVE line[k] \in Ids' /\ asked'[line[k]].state = "queued"
    <3>1. line[k] \in Ids /\ asked[line[k]].state = "queued"
      BY <1>1 DEF InTurn
    <3> QED
      BY <1>2, <3>1
  <2>3. \A i \in Ids' : asked'[i].state = "queued" => \E k \in DOMAIN line' : line'[k] = i
    BY <1>1, <1>2, <1>3, <1>4 DEF InTurn
  <2>4. \A k, l \in DOMAIN line' : k < l => line'[k] < line'[l]
    BY <1>1, <1>4 DEF InTurn
  <2> QED
    BY <1>4, <2>1, <2>2, <2>3, <2>4 DEF InTurn
<1>9. ASSUME NEW w \in DOMAIN items, NEW h, NEW v, Newer(h, v),
             h \in Handles => \A u \in Buffered(h) : w < u
      PROVE  w < v
  BY <1>9 DEF Newer
<1>10. OwnData'
  <2>1. ASSUME NEW i \in Ids'
        PROVE  /\ asked'[i].op # "flash" => asked'[i].data = << >>
               /\ Rising(asked'[i].data)
               /\ \A w \in DataOf(i)' : items'[w].of = asked'[i].of
    <3>1. CASE i \in Ids
      BY <1>1, <1>2, <1>5, <3>1 DEF OwnData
    <3>2. CASE i \notin Ids
      BY <1>3, <1>6, <3>2
    <3> QED
      BY <3>1, <3>2
  <2>2. ASSUME NEW i \in Ids', NEW j \in Ids', i < j, asked'[i].of = asked'[j].of
        PROVE  Below(DataOf(i)', DataOf(j)')
    <3>1. i \in Ids
      <4>1. i \in Nat /\ j \in Nat
        BY <1>2
      <4>2. CASE j \in Ids
        <5>1. j < n
          BY <1>2, <4>2
        <5> QED
          BY <1>2, <1>3, <2>2, <4>1, <5>1
      <4>3. CASE j \notin Ids
        BY <1>3, <2>2, <4>1, <4>3
      <4> QED
        BY <4>2, <4>3
    <3>2. CASE j \in Ids
      BY <1>1, <1>2, <1>5, <2>2, <3>1, <3>2 DEF OwnData
    <3>3. CASE j \notin Ids
      <4>1. j = n /\ asked' # asked /\ asked[i].of = c.of /\ DataOf(j)' = ToSet(c.data)
        BY <1>2, <1>3, <1>6, <2>2, <3>1, <3>3
      <4>2. ASSUME NEW w \in DataOf(i), NEW v \in ToSet(c.data) PROVE w < v
        BY <1>1, <1>5, <1>9, <3>1, <4>1 DEF OwnData, Below
      <4> QED
        BY <1>5, <3>1, <4>1, <4>2 DEF Below
    <3> QED
      BY <3>2, <3>3
  <2>3. ASSUME NEW i \in Ids', NEW h \in Handles', asked'[i].of = h
        PROVE  Below(DataOf(i)', Buffered(h)')
    <3>1. CASE i \in Ids
      <4>1. ASSUME NEW w \in DataOf(i), NEW v \in Buffered(h)' PROVE w < v
        BY <1>1, <1>2, <1>5, <1>9, <2>3, <3>1 DEF OwnData, Below
      <4> QED
        BY <1>5, <3>1, <4>1 DEF Below
    <3>2. CASE i \notin Ids
      BY <1>3, <1>6, <2>3, <3>2
    <3> QED
      BY <3>1, <3>2
  <2> QED
    BY <2>1, <2>2, <2>3 DEF OwnData
<1>11. Older'
  <2> SUFFICES ASSUME NEW m \in Names, NEW w \in Stored(m)'
               PROVE  /\ \A i \in Ids' : ~ Ended(i)' /\ asked'[i].of = items'[w].of => Below({w}, DataOf(i)')
                      /\ \A h \in Handles' : items'[w].of = h => Below({w}, Buffered(h)')
    BY DEF Older
  <2>1. w \in Stored(m) /\ w \in DOMAIN items /\ items'[w].of = items[w].of
    BY <1>7
  <2>2. ASSUME NEW h, h = items[w].of, NEW v, Newer(h, v) PROVE w < v
    BY <1>1, <1>9, <2>1, <2>2 DEF Older, Below
  <2>3. ASSUME NEW i \in Ids', ~ Ended(i)', asked'[i].of = items'[w].of PROVE Below({w}, DataOf(i)')
    <3>1. CASE i \in Ids
      BY <1>1, <1>2, <1>5, <2>1, <2>3, <3>1 DEF Older
    <3>2. CASE i \notin Ids
      BY <1>3, <1>6, <2>1, <2>2, <2>3, <3>2 DEF Below
    <3> QED
      BY <3>1, <3>2
  <2>4. ASSUME NEW h \in Handles', items'[w].of = h PROVE Below({w}, Buffered(h)')
    BY <2>1, <2>2, <2>4 DEF Below
  <2> QED
    BY <2>3, <2>4
<1>12. InOrder'
  <2>1. ASSUME NEW m \in Names, NEW k \in DOMAIN partition[m]
        PROVE  items'[partition[m][k]].of = items[partition[m][k]].of
    <3>1. partition[m][k] \in Stored(m)
      BY DEF Stored, ToSet
    <3> QED
      BY <1>7, <3>1
  <2> QED
    BY <1>1, <1>4, <2>1 DEF InOrder
<1>13. IsStored'
  <2> SUFFICES ASSUME NEW i \in Ids', asked'[i].op = "flash", asked'[i].state = "ok", asked'[i].name # Stage
               PROVE  ToSet(asked'[i].data) \subseteq ToSet(partition'[asked'[i].name]) \cup erased'
    BY DEF IsStored, DataOf, Stored
  <2>1. i \in Ids /\ asked'[i] = asked[i]
    BY <1>2, <1>3
  <2>2. DataOf(i) \subseteq Stored(asked[i].name) \cup erased
    BY <1>1, <2>1 DEF IsStored
  <2>3. asked[i].name \in Names
    <3>1. asked[i] \in VolumeCommands
      BY <1>1, <2>1, ElementOf DEF VolumeTypes, Ids
    <3> QED
      BY <3>1 DEF VolumeCommands
  <2> QED
    BY <1>4, <2>1, <2>2, <2>3 DEF Stored, DataOf
<1>14. VolumeRefers'
  <2>1. ASSUME NEW i \in Ids' PROVE asked'[i].of \in {0} \cup Handles' /\ DataOf(i)' \subseteq DOMAIN items'
    <3>1. CASE i \in Ids
      BY <1>1, <1>2, <1>5, <3>1 DEF VolumeRefers
    <3>2. CASE i \notin Ids
      BY <1>3, <1>6, <3>2
    <3> QED
      BY <3>1, <3>2
  <2>2. \A m \in Names : Stored(m)' \subseteq DOMAIN items'
    BY <1>7
  <2>3. erased' \subseteq DOMAIN items' /\ ToSet(loaded') \subseteq DOMAIN items'
    BY <1>1 DEF VolumeRefers, fastbootBoardVars
  <2> QED
    BY <2>1, <2>2, <2>3 DEF VolumeRefers
<1> QED
  BY <1>8, <1>10, <1>11, <1>12, <1>13, <1>14 DEF VolumeIInv

LEMMA HandlesAre ==
  ASSUME VolumeTypes
  PROVE  /\ Len(handle) \in Nat /\ Handles = 1 .. Len(handle) /\ 0 \notin Handles /\ Handles \subseteq Nat
         /\ \A h \in Handles : handle[h] \in Names /\ pending[h] \in Seq(Nat)
<1>1. handle \in Seq(Names)
  BY DEF VolumeTypes
<1>2. PICK n \in Nat : n = Len(handle) /\ handle \in [1 .. n -> Names] /\ DOMAIN handle = 1 .. n
  BY <1>1
<1>3. 0 \notin 1 .. n /\ 1 .. n \subseteq Nat
  OBVIOUS
<1>4. \A h \in Handles : pending[h] \in Seq(Nat)
  BY DEF VolumeTypes
<1> QED
  BY <1>2, <1>3, <1>4 DEF Handles

LEMMA CommandTypes ==
  \A op \in {"flash", "ping", "probe", "erase", "continue"}, h \in Nat, n \in Names, s \in Seq(Nat) :
    /\ Command(op, h, n, s) \in VolumeCommands
    /\ Command(op, h, n, << >>) \in VolumeCommands
<1>1. << >> \in Seq(Nat)
  OBVIOUS
<1> QED
  BY <1>1 DEF Command, VolumeCommands

\* The first command of a handle, and those of nobody, carry no data.
LEMMA OpenHandleKeeps == VolumeIInv /\ OpenHandle => VolumeIInv'
<1> SUFFICES ASSUME VolumeIInv, OpenHandle PROVE VolumeIInv'
  OBVIOUS
<1>1. VolumeTypes /\ VolumeRefers /\ OwnData
  BY DEF VolumeIInv
<1>2. PICK n \in Names :
        /\ Len(handle) < MaxHandles
        /\ handle' = Append(handle, n)
        /\ pending' = Append(pending, << >>)
        /\ IF n \in Known
           THEN busy' = Append(busy, Ready) /\ UNCHANGED asked
           ELSE /\ busy' = Append(busy, Len(asked) + 1)
                /\ Ask(Command("probe", Len(handle) + 1, n, << >>))
        /\ UNCHANGED <<items, line, fastbootBoardVars>>
  BY DEF OpenHandle
<1>3. PICK m \in Nat : m = Len(handle) /\ Handles = 1 .. m /\ m + 1 \in Nat
  BY <1>1, HandlesAre
<1>4. PICK c \in VolumeCommands : c = Command("probe", m + 1, n, << >>)
  BY <1>3, << >> \in Seq(Nat), CommandTypes
<1>5. /\ c.op = "probe" /\ c.of = m + 1 /\ c.data = << >> /\ c.state = "calling" /\ ToSet(c.data) = {}
  BY <1>4, Elements DEF Command
<1>6. asked' \in {asked, Append(asked, c)}
  BY <1>2, <1>3, <1>4 DEF Ask
<1>7. /\ handle' \in Seq(Names) /\ Len(handle') <= MaxHandles /\ Handles' = 1 .. m + 1
  <2>1. /\ handle' \in Seq(Names) /\ Len(handle') = m + 1 /\ DOMAIN handle' = 1 .. m + 1
    BY <1>1, <1>2, <1>3, AppendGrows DEF VolumeTypes
  <2>2. m + 1 <= MaxHandles
    BY <1>2, <1>3, FastbootVolumeAssumption
  <2> QED
    BY <2>1, <2>2 DEF Handles
<1>8. /\ 1 .. m \subseteq 1 .. m + 1 /\ m + 1 \notin 1 .. m /\ m + 1 \in 1 .. m + 1
      /\ \A h \in 1 .. m + 1 : h \in 1 .. m \/ h = m + 1
  OBVIOUS
<1>9. /\ asked' \in Seq(VolumeCommands) /\ Ids \subseteq Ids'
      /\ asked' # asked => asked' = Append(asked, c) /\ Len(asked) + 1 \in Ids'
      /\ Len(asked) \in Nat
  <2>1. CASE asked' = asked
    BY <1>1, <2>1 DEF VolumeTypes, Ids
  <2>2. CASE asked' = Append(asked, c)
    BY <1>1, <2>2, AskedGrows
  <2> QED
    BY <1>6, <2>1, <2>2
<1>10. PICK b \in Int : b \in {Ready, Lost} \cup Ids' /\ busy' = Append(busy, b)
  <2>1. CASE n \in Known
    BY <1>2, <2>1 DEF Ready
  <2>2. CASE n \notin Known
    <3>1. asked' = Append(asked, c) /\ busy' = Append(busy, Len(asked) + 1)
      BY <1>2, <1>3, <1>4, <2>2 DEF Ask
    <3>2. Len(asked) + 1 \in Ids'
      BY <1>1, <3>1, AskedGrows
    <3> QED
      BY <1>9, <3>1, <3>2
  <2> QED
    BY <2>1, <2>2
<1>11. /\ busy' \in [1 .. m + 1 -> Int] /\ busy'[m + 1] = b
       /\ \A h \in 1 .. m : busy'[h] = busy[h]
  <2>1. busy \in [1 .. m -> Int]
    BY <1>1, <1>3 DEF VolumeTypes
  <2>2. busy \in Seq(Int) /\ Len(busy) = m
    BY <1>3, <2>1
  <2>3. /\ busy' \in Seq(Int) /\ Len(busy') = m + 1 /\ busy'[m + 1] = b
        /\ \A h \in 1 .. m : busy'[h] = busy[h]
    BY <1>10, <2>2, AppendGrows
  <2> QED
    BY <2>3, SeqIsFunction
<1>12. /\ pending' \in [1 .. m + 1 -> Seq(Nat)] /\ pending'[m + 1] = << >>
       /\ \A h \in 1 .. m : pending'[h] = pending[h]
  <2>1. pending \in [1 .. m -> Seq(Nat)] /\ << >> \in Seq(Nat)
    BY <1>1, <1>3 DEF VolumeTypes
  <2>2. pending \in Seq(Seq(Nat)) /\ Len(pending) = m
    BY <1>3, <2>1
  <2>3. /\ pending' \in Seq(Seq(Nat)) /\ Len(pending') = m + 1 /\ pending'[m + 1] = << >>
        /\ \A h \in 1 .. m : pending'[h] = pending[h]
    BY <1>2, <2>1, <2>2, AppendGrows
  <2> QED
    BY <2>3, SeqIsFunction
<1>13. VolumeTypes'
  BY <1>1, <1>2, <1>7, <1>9, <1>11, <1>12 DEF VolumeTypes, fastbootBoardVars
<1>14. ASSUME NEW h \in Handles'
       PROVE  /\ busy'[h] \in {Ready, Lost} \cup Ids' /\ Buffered(h)' \subseteq DOMAIN items'
              /\ Rising(pending'[h]) /\ \A w \in Buffered(h)' : items'[w].of = h /\ Newer(h, w)
              /\ h = m + 1 => Buffered(h)' = {}
  <2>1. CASE h \in Handles
    BY <1>1, <1>2, <1>3, <1>8, <1>9, <1>11, <1>12, <2>1 DEF VolumeRefers, OwnData, Buffered, Newer
  <2>2. CASE h = m + 1
    BY <1>10, <1>11, <1>12, <2>2, Elements DEF Buffered, Rising
  <2> QED
    BY <1>3, <1>7, <1>8, <2>1, <2>2
<1>15. \A w \in DOMAIN items' : items'[w].of \in Handles' /\ items'[w].flash \in {0} \cup Ids'
  BY <1>1, <1>2, <1>3, <1>7, <1>8, <1>9 DEF VolumeRefers
<1>16. Rising(c.data) /\ c.of \in Handles' /\ \A h \in Handles' : c.of = h => Below(ToSet(c.data), Buffered(h)')
  BY <1>5, <1>7, <1>8 DEF Rising, Below
<1> QED
  BY <1>2, <1>3, <1>5, <1>6, <1>7, <1>8, <1>13, <1>14, <1>15, <1>16, CallerKeeps

LEMMA ContinueOrEraseKeeps == VolumeIInv /\ ContinueOrErase => VolumeIInv'
<1> SUFFICES ASSUME VolumeIInv, ContinueOrErase PROVE VolumeIInv'
  OBVIOUS
<1>1. VolumeTypes /\ VolumeRefers /\ OwnData
  BY DEF VolumeIInv
<1>2. PICK n \in Names, op \in {"erase", "continue"} :
        asked' = Append(asked, Command(op, 0, n, << >>)) /\ UNCHANGED <<clientVars, line, fastbootBoardVars>>
  BY DEF ContinueOrErase, Ask
<1>3. PICK c \in VolumeCommands : c = Command(op, 0, n, << >>)
  BY << >> \in Seq(Nat), CommandTypes
<1>4. c.op = op /\ c.of = 0 /\ c.data = << >> /\ c.state = "calling" /\ ToSet(c.data) = {}
  BY <1>3, Elements DEF Command
<1>5. asked' \in Seq(VolumeCommands) /\ Ids \subseteq Ids'
  BY <1>1, <1>2, <1>3, AskedGrows
<1>6. UNCHANGED <<handle, busy, pending, items, line, fastbootBoardVars>> /\ Handles' = Handles
  BY <1>2 DEF clientVars, Handles
<1>7. VolumeTypes'
  BY <1>1, <1>5, <1>6 DEF VolumeTypes, fastbootBoardVars
<1>8. ASSUME NEW h \in Handles'
      PROVE  /\ busy'[h] \in {Ready, Lost} \cup Ids' /\ Buffered(h)' \subseteq DOMAIN items'
             /\ Rising(pending'[h]) /\ \A w \in Buffered(h)' : items'[w].of = h /\ Newer(h, w)
  BY <1>1, <1>5, <1>6 DEF VolumeRefers, OwnData, Buffered, Newer
<1>9. \A w \in DOMAIN items' : items'[w].of \in Handles' /\ items'[w].flash \in {0} \cup Ids'
  BY <1>1, <1>5, <1>6 DEF VolumeRefers
<1>10. Rising(c.data) /\ \A h \in Handles' : c.of = h => Below(ToSet(c.data), Buffered(h)')
  BY <1>4 DEF Rising, Below
<1> QED
  BY <1>2, <1>3, <1>4, <1>6, <1>7, <1>8, <1>9, <1>10, CallerKeeps

LEMMA DropHandleKeeps == VolumeIInv /\ (\E h \in Handles : DropHandle(h)) => VolumeIInv'
<1> SUFFICES ASSUME VolumeIInv, NEW d \in Handles, DropHandle(d) PROVE VolumeIInv'
  OBVIOUS
<1>1. VolumeTypes /\ VolumeRefers /\ OwnData
  BY DEF VolumeIInv
<1>2. /\ busy' = [busy EXCEPT ![d] = Lost] /\ pending' = [pending EXCEPT ![d] = << >>]
      /\ UNCHANGED <<handle, items, asked, line, fastbootBoardVars>>
  BY DEF DropHandle
<1>3. Handles' = Handles /\ Ids' = Ids
  BY <1>2 DEF Handles, Ids
<1>4. busy' \in [Handles -> Int] /\ pending' \in [Handles -> Seq(Nat)]
  BY <1>1, <1>2 DEF VolumeTypes, Lost
<1>5. VolumeTypes'
  BY <1>1, <1>2, <1>3, <1>4 DEF VolumeTypes, fastbootBoardVars
<1>6. ASSUME NEW h \in Handles
      PROVE  /\ busy'[h] \in {Ready, Lost} \cup Ids' /\ Buffered(h)' \subseteq DOMAIN items'
             /\ Rising(pending'[h]) /\ \A w \in Buffered(h)' : items'[w].of = h /\ Newer(h, w)
  <2>1. CASE h = d
    <3>1. busy'[h] = Lost /\ pending'[h] = << >>
      BY <1>1, <1>2, <2>1 DEF VolumeTypes
    <3> QED
      BY <3>1, Elements DEF Buffered, Rising
  <2>2. CASE h # d
    <3>1. busy'[h] = busy[h] /\ pending'[h] = pending[h]
      BY <1>1, <1>2, <2>2 DEF VolumeTypes
    <3> QED
      BY <1>1, <1>2, <1>3, <3>1 DEF VolumeRefers, OwnData, Buffered, Newer
  <2> QED
    BY <2>1, <2>2
<1>7. \A w \in DOMAIN items' : items'[w].of \in Handles' /\ items'[w].flash \in {0} \cup Ids'
  BY <1>1, <1>2, <1>3 DEF VolumeRefers
<1>8. PICK c \in VolumeCommands : TRUE
  <2>1. Stage \in Names /\ << >> \in Seq(Nat)
    BY FastbootVolumeAssumption
  <2> QED
    BY <2>1, [op |-> "ping", of |-> 0, name |-> Stage, data |-> << >>, state |-> "calling"] \in VolumeCommands DEF VolumeCommands
<1> QED
  BY <1>2, <1>3, <1>5, <1>6, <1>7, <1>8, CallerKeeps

LEMMA RisingGrows ==
  ASSUME NEW s \in Seq(Nat), NEW w \in Nat, Rising(s), Below(ToSet(s), {w})
  PROVE  Rising(Append(s, w)) /\ Rising(<<w>>) /\ Rising(<< >>)
<1>1. PICK n \in Nat : /\ n = Len(s) /\ DOMAIN s = 1 .. n /\ DOMAIN Append(s, w) = 1 .. n + 1
                       /\ Append(s, w)[n + 1] = w /\ \A k \in 1 .. n : Append(s, w)[k] = s[k]
  BY AppendGrows
<1>2. \A k \in 1 .. n : s[k] < w
  BY <1>1 DEF Below, ToSet
<1>3. ASSUME NEW k \in 1 .. n + 1, NEW l \in 1 .. n + 1, k < l PROVE k \in 1 .. n /\ (l \in 1 .. n \/ l = n + 1)
  BY <1>3
<1>4. Rising(Append(s, w))
  BY <1>1, <1>2, <1>3 DEF Rising
<1> QED
  BY <1>4 DEF Rising

LEMMA FlushItemsKeeps == VolumeIInv /\ (\E h \in Handles : FlushItems(h)) => VolumeIInv'
<1> SUFFICES ASSUME VolumeIInv, NEW d \in Handles, FlushItems(d) PROVE VolumeIInv'
  OBVIOUS
<1>1. VolumeTypes /\ VolumeRefers /\ OwnData
  BY DEF VolumeIInv
<1>2. d \in Nat /\ handle[d] \in Names /\ pending[d] \in Seq(Nat)
  BY <1>1, HandlesAre
<1>3. PICK c \in VolumeCommands : /\ c = Command(IF pending[d] = << >> THEN "ping" ELSE "flash", d, handle[d], pending[d])
                                  /\ asked' = Append(asked, c)
  <2>1. Command(IF pending[d] = << >> THEN "ping" ELSE "flash", d, handle[d], pending[d]) \in VolumeCommands
    BY <1>2, CommandTypes
  <2> QED
    BY <2>1 DEF FlushItems, Ask
<1>4. /\ busy' = [busy EXCEPT ![d] = Len(asked) + 1] /\ pending' = [pending EXCEPT ![d] = << >>]
      /\ UNCHANGED <<handle, items, line, fastbootBoardVars>>
  BY DEF FlushItems
<1>5. c.of = d /\ c.data = pending[d] /\ c.state = "calling" /\ (c.op # "flash" => c.data = << >>)
  BY <1>3 DEF Command
<1>6. /\ asked' \in Seq(VolumeCommands) /\ Ids \subseteq Ids' /\ Len(asked) \in Nat /\ Len(asked) + 1 \in Ids'
  BY <1>1, <1>3, AskedGrows
<1>7. Handles' = Handles
  BY <1>4 DEF Handles
<1>8. /\ busy' \in [Handles -> Int] /\ pending' \in [Handles -> Seq(Nat)]
      /\ busy'[d] = Len(asked) + 1 /\ pending'[d] = << >>
      /\ \A h \in Handles : h # d => busy'[h] = busy[h] /\ pending'[h] = pending[h]
  <2>1. Len(asked) + 1 \in Int /\ << >> \in Seq(Nat)
    BY <1>6
  <2> QED
    BY <1>1, <1>4, <2>1 DEF VolumeTypes
<1>9. VolumeTypes'
  BY <1>1, <1>4, <1>6, <1>7, <1>8 DEF VolumeTypes, fastbootBoardVars
<1>10. ASSUME NEW h \in Handles
       PROVE  /\ busy'[h] \in {Ready, Lost} \cup Ids' /\ Buffered(h)' \subseteq DOMAIN items'
              /\ Rising(pending'[h]) /\ \A w \in Buffered(h)' : items'[w].of = h /\ Newer(h, w)
              /\ h = d => Buffered(h)' = {}
  <2>1. CASE h = d
    BY <1>6, <1>8, <2>1, Elements DEF Buffered, Rising
  <2>2. CASE h # d
    BY <1>1, <1>4, <1>6, <1>8, <2>2 DEF VolumeRefers, OwnData, Buffered, Newer
  <2> QED
    BY <2>1, <2>2
<1>11. \A w \in DOMAIN items' : items'[w].of \in Handles' /\ items'[w].flash \in {0} \cup Ids'
  BY <1>1, <1>4, <1>6, <1>7 DEF VolumeRefers
<1>12. /\ Rising(c.data) /\ ToSet(c.data) = Buffered(d)
       /\ \A w \in Buffered(d) : items[w].of = d /\ Newer(d, w) /\ w \in DOMAIN items
  BY <1>1, <1>5 DEF OwnData, Buffered, Newer, VolumeRefers
<1>13. \A h \in Handles' : c.of = h => Below(ToSet(c.data), Buffered(h)')
  BY <1>5, <1>7, <1>10 DEF Below
<1> QED
  BY <1>3, <1>4, <1>5, <1>7, <1>9, <1>10, <1>11, <1>12, <1>13, CallerKeeps

LEMMA WriteItemKeeps == VolumeIInv /\ (\E h \in Handles : WriteItem(h)) => VolumeIInv'
<1> SUFFICES ASSUME VolumeIInv, NEW d \in Handles, WriteItem(d) PROVE VolumeIInv'
  OBVIOUS
<1>1. VolumeTypes /\ VolumeRefers /\ OwnData
  BY DEF VolumeIInv
<1>2. d \in Nat /\ handle[d] \in Names /\ pending[d] \in Seq(Nat)
  BY <1>1, HandlesAre
<1>3. UNCHANGED <<handle, line, fastbootBoardVars>> /\ Handles' = Handles
  BY DEF WriteItem, Handles
<1>4. PICK w \in Nat : w = Len(items) + 1 /\ w <= MaxItems
  <2>1. items \in Seq([of : Nat, flash : Nat]) /\ Len(items) < MaxItems
    BY <1>1 DEF VolumeTypes, WriteItem
  <2>2. Len(items) \in Nat /\ MaxItems \in Nat
    BY <2>1, FastbootVolumeAssumption
  <2> QED
    BY <2>1, <2>2
\* The writes that the buffer, and a command, may get.
<1>5. /\ Rising(pending[d]) /\ Rising(Append(pending[d], w)) /\ Rising(<<w>>) /\ Rising(<< >>)
      /\ Buffered(d) \subseteq DOMAIN items /\ \A v \in Buffered(d) : items[v].of = d /\ v < w
      /\ ToSet(Append(pending[d], w)) = Buffered(d) \cup {w} /\ ToSet(<<w>>) = {w} /\ ToSet(<< >>) = {}
      /\ Append(pending[d], w) \in Seq(Nat) /\ <<w>> \in Seq(Nat) /\ << >> \in Seq(Nat)
  <2>1. /\ Rising(pending[d]) /\ \A v \in Buffered(d) : items[v].of = d
        /\ Buffered(d) \subseteq DOMAIN items
    BY <1>1 DEF OwnData, VolumeRefers
  <2>2. \A v \in DOMAIN items : v < w
    <3>1. items \in Seq([of : Nat, flash : Nat])
      BY <1>1 DEF VolumeTypes
    <3> QED
      BY <1>4, <3>1
  <2>3. Below(ToSet(pending[d]), {w})
    BY <2>1, <2>2 DEF Below, Buffered
  <2>4. Rising(Append(pending[d], w)) /\ Rising(<<w>>) /\ Rising(<< >>)
    BY <1>2, <2>1, <2>3, RisingGrows
  <2>5. /\ ToSet(Append(pending[d], w)) = Buffered(d) \cup {w} /\ ToSet(<<w>>) = {w} /\ ToSet(<< >>) = {}
        /\ Append(pending[d], w) \in Seq(Nat)
    BY <1>2, Elements DEF Buffered
  <2> QED
    BY <2>1, <2>2, <2>4, <2>5
<1>6. ASSUME NEW f \in Nat, items' = Append(items, [of |-> d, flash |-> f])
      PROVE  /\ items' \in Seq([of : Nat, flash : Nat]) /\ Len(items') <= MaxItems
             /\ DOMAIN items' = DOMAIN items \cup {w} /\ items'[w].of = d /\ items'[w].flash = f
             /\ \A v \in DOMAIN items : items'[v] = items[v] /\ v < w
  <2>1. [of |-> d, flash |-> f] \in [of : Nat, flash : Nat]
    BY <1>2
  <2> QED
    BY <1>1, <1>4, <1>6, <2>1, ItemsGrow
\* Whatever the buffer of the handle is then, it fits.
<1>7. ASSUME NEW p \in Seq(Nat), Rising(p), ToSet(p) \subseteq Buffered(d) \cup {w}, NEW f \in {0} \cup Ids',
             pending' = [pending EXCEPT ![d] = p],
             items' = Append(items, [of |-> d, flash |-> f]), Ids \subseteq Ids', f \in Nat
      PROVE  /\ pending' \in [Handles -> Seq(Nat)] /\ Buffered(d)' = ToSet(p)
             /\ \A h \in Handles : /\ Buffered(h)' \subseteq DOMAIN items' /\ Rising(pending'[h])
                                   /\ \A v \in Buffered(h)' : items'[v].of = h /\ Newer(h, v)
             /\ \A v \in DOMAIN items' : items'[v].of \in Handles' /\ items'[v].flash \in {0} \cup Ids'
             /\ \A v \in DOMAIN items : v \in DOMAIN items' /\ items'[v].of = items[v].of
             /\ w \in DOMAIN items' /\ items'[w].of = d /\ Newer(d, w)
             /\ \A v \in Buffered(d) : v \in DOMAIN items' /\ items'[v].of = d /\ Newer(d, v)
             /\ items' \in Seq([of : Nat, flash : Nat]) /\ Len(items') <= MaxItems
  <2>1. /\ DOMAIN items' = DOMAIN items \cup {w} /\ items'[w].of = d /\ items'[w].flash = f
        /\ items' \in Seq([of : Nat, flash : Nat]) /\ Len(items') <= MaxItems
        /\ \A v \in DOMAIN items : items'[v] = items[v] /\ v < w
    BY <1>6, <1>7
  <2>2. /\ pending' \in [Handles -> Seq(Nat)] /\ pending'[d] = p
        /\ \A h \in Handles : h # d => pending'[h] = pending[h]
    BY <1>1, <1>7 DEF VolumeTypes
  <2>3. Newer(d, w) /\ \A v \in Buffered(d) : v \in DOMAIN items' /\ items'[v].of = d /\ Newer(d, v)
    BY <1>5, <2>1 DEF Newer
  <2>4. ASSUME NEW h \in Handles
        PROVE  /\ Buffered(h)' \subseteq DOMAIN items' /\ Rising(pending'[h])
               /\ \A v \in Buffered(h)' : items'[v].of = h /\ Newer(h, v)
    <3>1. CASE h = d
      BY <1>7, <2>1, <2>2, <2>3, <3>1 DEF Buffered
    <3>2. CASE h # d
      BY <1>1, <2>1, <2>2, <3>2 DEF VolumeRefers, OwnData, Buffered, Newer
    <3> QED
      BY <3>1, <3>2
  <2>5. \A v \in DOMAIN items' : items'[v].of \in Handles' /\ items'[v].flash \in {0} \cup Ids'
    BY <1>1, <1>3, <1>7, <2>1 DEF VolumeRefers
  <2> QED
    BY <2>1, <2>2, <2>3, <2>4, <2>5 DEF Buffered
<1>8. CASE /\ pending' = [pending EXCEPT ![d] = Append(@, w)]
           /\ items' = Append(items, [of |-> d, flash |-> 0])
           /\ UNCHANGED <<busy, asked>>
  <2>1. Ids' = Ids
    BY <1>8 DEF Ids
  <2>2. pending' = [pending EXCEPT ![d] = Append(pending[d], w)]
    BY <1>8
  <2>3. 0 \in {0} \cup Ids' /\ ToSet(Append(pending[d], w)) \subseteq Buffered(d) \cup {w}
    BY <1>5
  <2>4. /\ pending' \in [Handles -> Seq(Nat)]
        /\ \A h \in Handles : /\ Buffered(h)' \subseteq DOMAIN items' /\ Rising(pending'[h])
                              /\ \A v \in Buffered(h)' : items'[v].of = h /\ Newer(h, v)
        /\ \A v \in DOMAIN items' : items'[v].of \in Handles' /\ items'[v].flash \in {0} \cup Ids'
        /\ \A v \in DOMAIN items : v \in DOMAIN items' /\ items'[v].of = items[v].of
        /\ items' \in Seq([of : Nat, flash : Nat]) /\ Len(items') <= MaxItems
    BY <1>5, <1>7, <1>8, <2>1, <2>2, <2>3
  <2>5. VolumeTypes'
    BY <1>1, <1>3, <1>8, <2>1, <2>4 DEF VolumeTypes, fastbootBoardVars, Ids
  <2>6. \A h \in Handles' : busy'[h] \in {Ready, Lost} \cup Ids'
    BY <1>1, <1>3, <1>8, <2>1 DEF VolumeRefers
  <2>7. PICK c \in VolumeCommands : c = Command("ping", d, handle[d], << >>)
    BY <1>2, CommandTypes
  <2> QED
    BY <1>3, <1>8, <2>4, <2>5, <2>6, <2>7, CallerKeeps
<1>9. CASE \E whole \in BOOLEAN :
              /\ whole \/ pending[d] # << >>
              /\ pending' = [pending EXCEPT ![d] = IF whole THEN << >> ELSE <<w>>]
              /\ items' = Append(items, [of |-> d, flash |-> Len(asked) + 1])
              /\ busy' = [busy EXCEPT ![d] = Len(asked) + 1]
              /\ Ask(Command("flash", d, handle[d], IF whole THEN Append(pending[d], w) ELSE pending[d]))
  <2>1. PICK whole \in BOOLEAN, f \in Nat, p \in Seq(Nat), q \in Seq(Nat), c \in VolumeCommands :
          /\ p = (IF whole THEN << >> ELSE <<w>>) /\ q = (IF whole THEN Append(pending[d], w) ELSE pending[d])
          /\ pending' = [pending EXCEPT ![d] = p]
          /\ items' = Append(items, [of |-> d, flash |-> f])
          /\ busy' = [busy EXCEPT ![d] = f] /\ f = Len(asked) + 1
          /\ c = Command("flash", d, handle[d], q) /\ asked' = Append(asked, c)
    <3>1. PICK whole \in BOOLEAN :
              /\ pending' = [pending EXCEPT ![d] = IF whole THEN << >> ELSE <<w>>]
              /\ items' = Append(items, [of |-> d, flash |-> Len(asked) + 1])
              /\ busy' = [busy EXCEPT ![d] = Len(asked) + 1]
              /\ asked' = Append(asked, Command("flash", d, handle[d], IF whole THEN Append(pending[d], w) ELSE pending[d]))
      BY <1>9 DEF Ask
    <3>2. Len(asked) + 1 \in Nat
      BY <1>1 DEF VolumeTypes
    <3>3. (IF whole THEN << >> ELSE <<w>>) \in Seq(Nat) /\ (IF whole THEN Append(pending[d], w) ELSE pending[d]) \in Seq(Nat)
      BY <1>2, <1>5
    <3>4. Command("flash", d, handle[d], IF whole THEN Append(pending[d], w) ELSE pending[d]) \in VolumeCommands
      BY <1>2, <3>3, CommandTypes
    <3> QED
      BY <3>1, <3>2, <3>3, <3>4
  <2>2. c.op = "flash" /\ c.of = d /\ c.data = q /\ c.state = "calling"
    BY <2>1 DEF Command
  <2>3. asked' \in Seq(VolumeCommands) /\ Ids \subseteq Ids' /\ f \in Ids'
    BY <1>1, <2>1, AskedGrows
  <2>4. Rising(p) /\ ToSet(p) \subseteq Buffered(d) \cup {w}
    BY <1>5, <2>1
  <2>5. Rising(q) /\ ToSet(q) \subseteq Buffered(d) \cup {w} /\ Below(ToSet(q), ToSet(p))
    BY <1>5, <2>1 DEF Below, Buffered
  <2>6. /\ pending' \in [Handles -> Seq(Nat)] /\ Buffered(d)' = ToSet(p)
        /\ \A h \in Handles : /\ Buffered(h)' \subseteq DOMAIN items' /\ Rising(pending'[h])
                              /\ \A v \in Buffered(h)' : items'[v].of = h /\ Newer(h, v)
        /\ \A v \in DOMAIN items' : items'[v].of \in Handles' /\ items'[v].flash \in {0} \cup Ids'
        /\ \A v \in DOMAIN items : v \in DOMAIN items' /\ items'[v].of = items[v].of
        /\ \A v \in Buffered(d) \cup {w} : v \in DOMAIN items' /\ items'[v].of = d /\ Newer(d, v)
        /\ items' \in Seq([of : Nat, flash : Nat]) /\ Len(items') <= MaxItems
    BY <1>7, <2>1, <2>3, <2>4
  <2>7. busy' \in [Handles -> Int] /\ \A h \in Handles' : busy'[h] \in {Ready, Lost} \cup Ids'
    <3>1. busy \in [Handles -> Int] /\ f \in Int
      BY <1>1 DEF VolumeTypes
    <3>2. busy' \in [Handles -> Int] /\ \A h \in Handles : busy'[h] = IF h = d THEN f ELSE busy[h]
      BY <2>1, <3>1
    <3> QED
      BY <1>1, <1>3, <2>3, <3>2 DEF VolumeRefers
  <2>8. VolumeTypes'
    BY <1>1, <1>3, <2>3, <2>6, <2>7 DEF VolumeTypes, fastbootBoardVars
  <2>9. \A h \in Handles' : c.of = h => Below(ToSet(c.data), Buffered(h)')
    BY <2>2, <2>5, <2>6
  <2>10. /\ c.of \in Handles' /\ ToSet(c.data) \subseteq DOMAIN items' /\ Rising(c.data)
         /\ \A v \in ToSet(c.data) : items'[v].of = c.of /\ Newer(c.of, v)
    BY <1>3, <2>2, <2>5, <2>6
  <2> QED
    BY <1>3, <2>1, <2>2, <2>6, <2>7, <2>8, <2>9, <2>10, CallerKeeps
<1> QED
  BY <1>4, <1>8, <1>9 DEF WriteItem

\* Only the state of a command changes.
Becomes(i, st) == asked' = [asked EXCEPT ![i].state = st]

LEMMA StateChanges ==
  ASSUME VolumeTypes, NEW i \in Ids, NEW st \in {"queued", "ok", "failed"}, Becomes(i, st)
  PROVE  /\ asked' \in Seq(VolumeCommands) /\ Ids' = Ids /\ Ids \subseteq Nat
         /\ asked'[i].state = st
         /\ \A j \in Ids : /\ asked'[j].op = asked[j].op /\ asked'[j].of = asked[j].of
                           /\ asked'[j].name = asked[j].name /\ asked'[j].data = asked[j].data
                           /\ j # i => asked'[j].state = asked[j].state
<1>1. asked \in Seq(VolumeCommands)
  BY DEF VolumeTypes
<1>2. asked[i] \in VolumeCommands
  BY <1>1, ElementOf DEF Ids
<1>3. PICK e \in VolumeCommands : /\ e = [asked[i] EXCEPT !.state = st] /\ e.state = st
                                  /\ e.op = asked[i].op /\ e.of = asked[i].of /\ e.name = asked[i].name
                                  /\ e.data = asked[i].data
  <2>1. \A r \in VolumeCommands :
          LET e == [r EXCEPT !.state = st]
          IN  /\ e \in VolumeCommands /\ e.state = st
              /\ e.op = r.op /\ e.of = r.of /\ e.name = r.name /\ e.data = r.data
    BY DEF VolumeCommands
  <2> QED
    BY <1>2, <2>1
<1>4. asked' = [asked EXCEPT ![i] = e]
  BY <1>3 DEF Becomes
<1>5. asked' \in Seq(VolumeCommands) /\ DOMAIN asked' = DOMAIN asked
  BY <1>1, <1>4, Changes DEF Ids
<1>6. \A j \in DOMAIN asked : asked'[j] = IF j = i THEN e ELSE asked[j]
  BY <1>4
<1>7. DOMAIN asked \subseteq Nat
  BY <1>1
<1> QED
  BY <1>3, <1>5, <1>6, <1>7 DEF Ids

\* What a step adds to the board; what the commands before i, and i itself, have come to.
Adds(S) == \A n \in Names : Stored(n)' \subseteq Stored(n) \cup S /\ Stored(n) \subseteq Stored(n)' \cup erased'
BeforeEnded(i) == \A j \in Ids : j < i => Ended(j)
Lands(i) ==
  asked[i].op = "flash" /\ asked[i].name # Stage => \A n \in Names : n = asked[i].name => DataOf(i) \subseteq Stored(n)'

\* The step of a command keeps what is known of the others.
LEMMA TaskKeeps ==
  ASSUME VolumeIInv, NEW i \in Ids, NEW st \in {"queued", "ok", "failed"},
         Becomes(i, st), ~ Ended(i),
         UNCHANGED <<handle, pending, items>>, VolumeTypes', InTurn', InOrder',
         \A h \in Handles : busy'[h] \in {Ready, Lost} \cup Ids,
         erased \subseteq erased', erased' \subseteq DOMAIN items, ToSet(loaded') \subseteq DOMAIN items,
         NEW S,
         S = {} \/ (S = DataOf(i) /\ st # "queued" /\ BeforeEnded(i)), Adds(S), st = "ok" => Lands(i)
  PROVE  VolumeIInv'
<1>1. VolumeTypes /\ VolumeRefers /\ InTurn /\ OwnData /\ Older /\ InOrder /\ IsStored
  BY DEF VolumeIInv
<1>2. /\ Ids' = Ids /\ Ids \subseteq Nat /\ asked'[i].state = st
      /\ \A j \in Ids : /\ asked'[j].op = asked[j].op /\ asked'[j].of = asked[j].of
                        /\ asked'[j].name = asked[j].name /\ asked'[j].data = asked[j].data
                        /\ j # i => asked'[j].state = asked[j].state
  BY <1>1, StateChanges
<1>3. \A j \in Ids : DataOf(j)' = DataOf(j) /\ (Ended(j) => Ended(j)') /\ (j # i => (Ended(j)' <=> Ended(j)))
  BY <1>2 DEF DataOf, Ended
<1>4. Handles' = Handles /\ \A h \in Handles : Buffered(h)' = Buffered(h)
  BY DEF Handles, Buffered
<1>5. \A j \in Ids : DataOf(j) \subseteq DOMAIN items
  BY <1>1 DEF VolumeRefers
<1>6. VolumeRefers'
  <2>1. \A h \in Handles' : busy'[h] \in {Ready, Lost} \cup Ids' /\ Buffered(h)' \subseteq DOMAIN items'
    BY <1>1, <1>2, <1>4 DEF VolumeRefers
  <2>2. \A w \in DOMAIN items' : items'[w].of \in Handles' /\ items'[w].flash \in {0} \cup Ids'
    BY <1>1, <1>2, <1>4 DEF VolumeRefers
  <2>3. \A j \in Ids' : asked'[j].of \in {0} \cup Handles' /\ DataOf(j)' \subseteq DOMAIN items'
    BY <1>1, <1>2, <1>3, <1>4 DEF VolumeRefers
  <2>4. \A n \in Names : Stored(n)' \subseteq DOMAIN items'
    BY <1>1, <1>5 DEF VolumeRefers, Adds
  <2> QED
    BY <2>1, <2>2, <2>3, <2>4 DEF VolumeRefers
<1>7. OwnData'
  <2>1. \A j \in Ids' : /\ asked'[j].op # "flash" => asked'[j].data = << >>
                        /\ Rising(asked'[j].data)
                        /\ \A w \in DataOf(j)' : items'[w].of = asked'[j].of
    BY <1>1, <1>2, <1>3 DEF OwnData
  <2>2. \A h \in Handles' : Rising(pending'[h]) /\ \A w \in Buffered(h)' : items'[w].of = h
    BY <1>1, <1>4 DEF OwnData
  <2>3. ASSUME NEW j \in Ids', NEW k \in Ids', j < k, asked'[j].of = asked'[k].of
        PROVE  Below(DataOf(j)', DataOf(k)')
    BY <1>1, <1>2, <1>3, <2>3 DEF OwnData
  <2>4. ASSUME NEW j \in Ids', NEW h \in Handles', asked'[j].of = h PROVE Below(DataOf(j)', Buffered(h)')
    BY <1>1, <1>2, <1>3, <1>4, <2>4 DEF OwnData
  <2> QED
    BY <2>1, <2>2, <2>3, <2>4 DEF OwnData
<1>8. Older'
  <2> SUFFICES ASSUME NEW n \in Names, NEW w \in Stored(n)'
               PROVE  /\ \A j \in Ids' : ~ Ended(j)' /\ asked'[j].of = items'[w].of => Below({w}, DataOf(j)')
                      /\ \A h \in Handles' : items'[w].of = h => Below({w}, Buffered(h)')
    BY DEF Older
  <2>1. CASE w \in Stored(n)
    <3>1. ASSUME NEW j \in Ids, ~ Ended(j)', asked[j].of = items[w].of PROVE Below({w}, DataOf(j))
      BY <1>1, <1>3, <2>1, <3>1 DEF Older
    <3>2. ASSUME NEW h \in Handles, items[w].of = h PROVE Below({w}, Buffered(h))
      BY <1>1, <2>1, <3>2 DEF Older
    <3> QED
      BY <1>2, <1>3, <1>4, <3>1, <3>2
  <2>2. CASE w \notin Stored(n)
    <3>1. w \in DataOf(i) /\ st \in {"ok", "failed"} /\ \A j \in Ids : j < i => Ended(j)
      BY <2>2 DEF Adds, BeforeEnded
    <3>2. items[w].of = asked[i].of
      BY <1>1, <3>1 DEF OwnData
    <3>3. ASSUME NEW j \in Ids, ~ Ended(j)', asked[j].of = items[w].of PROVE Below({w}, DataOf(j))
      <4>1. j # i
        BY <1>2, <3>1, <3>3 DEF Ended
      <4>2. i < j
        <5>1. ~ j < i
          BY <1>3, <3>1, <3>3
        <5>2. i \in Nat /\ j \in Nat
          BY <1>2
        <5> QED
          BY <4>1, <5>1, <5>2
      <4>3. Below(DataOf(i), DataOf(j))
        BY <1>1, <3>2, <3>3, <4>2 DEF OwnData
      <4> QED
        BY <3>1, <4>3 DEF Below
    <3>4. ASSUME NEW h \in Handles, items[w].of = h PROVE Below({w}, Buffered(h))
      <4>1. Below(DataOf(i), Buffered(h))
        BY <1>1, <3>2, <3>4 DEF OwnData
      <4> QED
        BY <3>1, <4>1 DEF Below
    <3> QED
      BY <1>2, <1>3, <1>4, <3>3, <3>4
  <2> QED
    BY <2>1, <2>2
<1>9. IsStored'
  <2> SUFFICES ASSUME NEW j \in Ids', asked'[j].op = "flash", asked'[j].state = "ok", asked'[j].name # Stage
               PROVE  ToSet(asked'[j].data) \subseteq ToSet(partition'[asked'[j].name]) \cup erased'
    BY DEF IsStored, DataOf, Stored
  <2>1. PICK n \in Names : n = asked[j].name
    <3>1. asked[j] \in VolumeCommands
      BY <1>1, <1>2, ElementOf DEF VolumeTypes, Ids
    <3> QED
      BY <3>1 DEF VolumeCommands
  <2>2. DataOf(j) \subseteq Stored(n)' \cup erased'
    <3>1. CASE j = i
      BY <1>2, <2>1, <3>1 DEF Lands
    <3>2. CASE j # i
      <4>1. DataOf(j) \subseteq Stored(n) \cup erased
        BY <1>1, <1>2, <2>1, <3>2 DEF IsStored
      <4> QED
        BY <4>1 DEF Adds
    <3> QED
      BY <3>1, <3>2
  <2> QED
    BY <1>2, <2>1, <2>2 DEF DataOf, Stored
<1> QED
  BY <1>6, <1>7, <1>8, <1>9 DEF VolumeIInv

LEMMA SendCommandKeeps == VolumeIInv /\ (\E i \in Ids : SendCommand(i)) => VolumeIInv'
<1> SUFFICES ASSUME VolumeIInv, NEW i \in Ids, SendCommand(i) PROVE VolumeIInv'
  OBVIOUS
<1>1. VolumeTypes /\ VolumeRefers /\ InTurn /\ InOrder
  BY DEF VolumeIInv
<1>2. /\ asked[i].state = "calling" /\ Len(line) < 2
      /\ \A j \in 1 .. i - 1 : asked[j].state # "calling"
      /\ asked' = [asked EXCEPT ![i].state = "queued"]
      /\ line' = Append(line, i)
      /\ busy' = [h \in Handles |->
                    IF busy[h] = i /\ \E w \in DOMAIN items : items[w].flash = i THEN Ready ELSE busy[h]]
      /\ UNCHANGED <<handle, pending, items, fastbootBoardVars>>
  BY DEF SendCommand
<1>3. /\ asked' \in Seq(VolumeCommands) /\ Ids' = Ids /\ Ids \subseteq Nat
      /\ asked'[i].state = "queued"
      /\ \A j \in Ids : j # i => asked'[j].state = asked[j].state
  <2>1. PICK st \in {"queued", "ok", "failed"} : st = "queued" /\ Becomes(i, st)
    BY <1>2 DEF Becomes
  <2> QED
    BY <1>1, <2>1, StateChanges
<1>4. \A j \in Ids : asked[j].state # "calling" => j < i
  <2>1. ASSUME NEW j \in Ids, asked[j].state # "calling", ~ j < i PROVE FALSE
    <3>1. i < j
      <4>1. i # j /\ i \in Nat /\ j \in Nat
        BY <1>2, <1>3, <2>1
      <4> QED
        BY <2>1, <4>1
    <3> QED
      BY <1>1, <1>2, <2>1, <3>1 DEF InTurn
  <2> QED
    BY <2>1
<1>5. \A j \in Ids : j < i => asked[j].state # "calling"
  <2>1. \A j \in Ids : j \in Nat /\ j # 0
    BY <1>1 DEF VolumeTypes, Ids
  <2>2. \A j \in Ids : j < i => j \in 1 .. i - 1
    BY <1>3, <2>1
  <2> QED
    BY <1>2, <2>2
<1>6. PICK m \in Nat : /\ m = Len(line) /\ m + 1 <= 2 /\ DOMAIN line = 1 .. m /\ DOMAIN line' = 1 .. m + 1
                       /\ line' \in Seq(Nat) /\ Len(line') = m + 1 /\ line'[m + 1] = i
                       /\ \A k \in 1 .. m : line'[k] = line[k]
  <2>1. line \in Seq(Nat) /\ i \in Nat
    BY <1>1, <1>3 DEF VolumeTypes
  <2>2. Len(line) \in Nat /\ Len(line) + 1 <= 2
    BY <1>2, <2>1
  <2> QED
    BY <1>2, <2>1, <2>2, AppendGrows
<1>7. InTurn'
  <2>1. ASSUME NEW j \in Ids', NEW k \in Ids', j < k
        PROVE  /\ asked'[j].state = "calling" => asked'[k].state = "calling"
               /\ Ended(k)' => Ended(j)'
    <3>1. j \in Nat /\ k \in Nat /\ i \in Nat
      BY <1>3
    <3>2. ASSUME asked'[j].state = "calling" PROVE asked'[k].state = "calling"
      <4>1. j # i /\ asked[j].state = "calling"
        BY <1>3, <3>2
      <4>2. ~ j < i
        BY <1>3, <1>5, <4>1
      <4>3. k # i
        BY <2>1, <3>1, <4>2
      <4> QED
        BY <1>1, <1>3, <2>1, <4>1, <4>3 DEF InTurn
    <3>3. ASSUME Ended(k)' PROVE Ended(j)'
      <4>1. k # i /\ Ended(k)
        BY <1>3, <3>3 DEF Ended
      <4>2. Ended(j)
        BY <1>1, <1>3, <2>1, <4>1 DEF InTurn
      <4>3. j # i
        BY <1>2, <4>2 DEF Ended
      <4> QED
        BY <1>3, <4>2, <4>3 DEF Ended
    <3> QED
      BY <3>2, <3>3
  <2>2. \A k \in 1 .. m + 1 : k \in 1 .. m \/ k = m + 1
    OBVIOUS
  <2>3. ASSUME NEW k \in 1 .. m PROVE line[k] \in Ids /\ asked[line[k]].state = "queued" /\ line[k] # i /\ line[k] < i
    <3>1. line[k] \in Ids /\ asked[line[k]].state = "queued"
      BY <1>1, <1>6 DEF InTurn
    <3> QED
      BY <1>2, <1>4, <3>1
  <2>4. ASSUME NEW k \in DOMAIN line' PROVE line'[k] \in Ids' /\ asked'[line'[k]].state = "queued"
    <3>1. CASE k \in 1 .. m
      BY <1>3, <1>6, <2>3, <3>1
    <3>2. CASE k = m + 1
      BY <1>3, <1>6, <3>2
    <3> QED
      BY <1>6, <2>2, <3>1, <3>2
  <2>5. ASSUME NEW j \in Ids', asked'[j].state = "queued" PROVE \E k \in DOMAIN line' : line'[k] = j
    <3>1. 1 .. m \subseteq 1 .. m + 1 /\ m + 1 \in 1 .. m + 1
      OBVIOUS
    <3>2. CASE j = i
      BY <1>6, <3>1, <3>2
    <3>3. CASE j # i
      <4>1. PICK k \in DOMAIN line : line[k] = j
        BY <1>1, <1>3, <2>5, <3>3 DEF InTurn
      <4> QED
        BY <1>6, <3>1, <4>1
    <3> QED
      BY <3>2, <3>3
  <2>6. ASSUME NEW k \in DOMAIN line', NEW l \in DOMAIN line', k < l PROVE line'[k] < line'[l]
    <3>1. k \in 1 .. m /\ (l \in 1 .. m \/ l = m + 1)
      BY <1>6, <2>6
    <3>2. CASE l \in 1 .. m
      BY <1>1, <1>6, <2>6, <3>1, <3>2 DEF InTurn
    <3>3. CASE l = m + 1
      BY <1>6, <2>3, <3>1, <3>3
    <3> QED
      BY <3>1, <3>2, <3>3
  <2> QED
    BY <2>1, <2>4, <2>5, <2>6 DEF InTurn
<1>8. busy' \in [Handles -> Int] /\ \A h \in Handles : busy'[h] \in {Ready, Lost} \cup Ids
  BY <1>1, <1>2 DEF VolumeTypes, VolumeRefers, Ready
<1>9. VolumeTypes'
  BY <1>1, <1>2, <1>3, <1>6, <1>8 DEF VolumeTypes, fastbootBoardVars, Handles
<1>10. /\ UNCHANGED <<partition, erased, loaded>> /\ InOrder'
  BY <1>1, <1>2 DEF InOrder, fastbootBoardVars
<1>11. /\ \A n \in Names : Stored(n)' = Stored(n)
       /\ erased' \subseteq DOMAIN items /\ ToSet(loaded') \subseteq DOMAIN items /\ ~ Ended(i)
  BY <1>1, <1>2, <1>10 DEF Stored, VolumeRefers, Ended
<1>s. PICK S : S = {}
  OBVIOUS
<1>12. PICK st \in {"queued", "ok", "failed"} : st = "queued"
  OBVIOUS
<1>13. /\ Becomes(i, st) /\ st # "ok" /\ erased \subseteq erased'
       /\ Adds(S)
  BY <1>2, <1>10, <1>11, <1>12, <1>s DEF Becomes, Adds
<1> QED
  BY <1>2, <1>7, <1>8, <1>9, <1>10, <1>11, <1>12, <1>13, <1>s, TaskKeeps

\* The task goes on with the next command: those that came before it are over.
LEMMA SettleKeeps ==
  ASSUME VolumeIInv, line # << >>, NEW i, i = Head(line), NEW st \in {"ok", "failed"}, Settle(i, st),
         partition' \in [Names -> Seq(Nat)], loaded' \in Seq(Nat), booted' \in BOOLEAN,
         refusals' \in 0 .. MaxRefusals, InOrder',
         erased \subseteq erased', erased' \subseteq DOMAIN items, ToSet(loaded') \subseteq DOMAIN items,
         \A n \in Names : Stored(n)' \subseteq Stored(n) \cup DataOf(i) /\ Stored(n) \subseteq Stored(n)' \cup erased',
         asked[i].op = "flash" /\ st = "ok" /\ asked[i].name # Stage =>
           \A n \in Names : n = asked[i].name => DataOf(i) \subseteq Stored(n)'
  PROVE  VolumeIInv'
<1>1. VolumeTypes /\ VolumeRefers /\ InTurn /\ InOrder
  BY DEF VolumeIInv
<1>2. /\ asked' = [asked EXCEPT ![i].state = st] /\ line' = Tail(line)
      /\ busy' = [h \in Handles |-> IF busy[h] = i THEN Ready ELSE busy[h]]
      /\ UNCHANGED <<handle, pending, items>>
  BY DEF Settle
<1>3. PICK m \in Nat : /\ m + 1 = Len(line) /\ m + 1 <= 2 /\ DOMAIN line = 1 .. m + 1 /\ DOMAIN line' = 1 .. m
                       /\ line' \in Seq(Nat) /\ Len(line') = m /\ line[1] = i
                       /\ \A k \in 1 .. m : line'[k] = line[k + 1]
  <2>1. line \in Seq(Nat) /\ Len(line) <= 2
    BY <1>1 DEF VolumeTypes
  <2>2. PICK m \in Nat : m + 1 = Len(line)
    <3>1. Len(line) \in Nat /\ Len(line) # 0
      BY <2>1
    <3>2. Len(line) - 1 \in Nat /\ (Len(line) - 1) + 1 = Len(line)
      BY <3>1
    <3> QED
      BY <3>2
  <2> QED
    BY <1>2, <2>1, <2>2
<1>4. 1 \in 1 .. m + 1 /\ \A k \in 1 .. m : k + 1 \in 1 .. m + 1 /\ 1 < k + 1
  OBVIOUS
<1>5. i \in Ids /\ asked[i].state = "queued"
  BY <1>1, <1>3, <1>4 DEF InTurn
<1>6. /\ asked' \in Seq(VolumeCommands) /\ Ids' = Ids /\ Ids \subseteq Nat
      /\ asked'[i].state = st
      /\ \A j \in Ids : j # i => asked'[j].state = asked[j].state
  <2>1. PICK s \in {"queued", "ok", "failed"} : s = st /\ Becomes(i, s)
    BY <1>2 DEF Becomes
  <2> QED
    BY <1>1, <1>5, <2>1, StateChanges
<1>7. ASSUME NEW j \in Ids, j < i PROVE Ended(j)
  <2>1. asked[j].state # "calling"
    BY <1>1, <1>5, <1>7 DEF InTurn
  <2>2. asked[j].state # "queued"
    <3>1. SUFFICES ASSUME asked[j].state = "queued" PROVE FALSE
      OBVIOUS
    <3>2. PICK k \in DOMAIN line : line[k] = j
      BY <1>1, <3>1 DEF InTurn
    <3>3. k # 1
      BY <1>3, <1>6, <1>5, <1>7, <3>2
    <3>4. 1 < k
      BY <1>3, <3>3
    <3>5. i < j
      BY <1>1, <1>3, <1>4, <3>2, <3>4 DEF InTurn
    <3> QED
      BY <1>5, <1>6, <1>7, <3>5
  <2>3. asked[j].state \in {"calling", "queued", "ok", "failed"}
    <3>1. asked[j] \in VolumeCommands
      BY <1>1, ElementOf DEF VolumeTypes, Ids
    <3> QED
      BY <3>1 DEF VolumeCommands
  <2> QED
    BY <2>1, <2>2, <2>3 DEF Ended
<1>8. InTurn'
  <2>1. ASSUME NEW j \in Ids', NEW k \in Ids', j < k
        PROVE  /\ asked'[j].state = "calling" => asked'[k].state = "calling"
               /\ Ended(k)' => Ended(j)'
    <3>1. ASSUME asked'[j].state = "calling" PROVE asked'[k].state = "calling"
      <4>1. asked[j].state = "calling"
        BY <1>6, <3>1
      <4>2. asked[k].state = "calling"
        BY <1>1, <1>6, <2>1, <4>1 DEF InTurn
      <4> QED
        BY <1>5, <1>6, <4>2
    <3>2. ASSUME Ended(k)' PROVE Ended(j)'
      <4>1. CASE j = i
        BY <1>6, <4>1 DEF Ended
      <4>2. CASE j # i
        <5>1. Ended(j)
          <6>1. CASE k = i
            BY <1>6, <1>7, <2>1, <6>1
          <6>2. CASE k # i
            <7>1. Ended(k)
              BY <1>6, <3>2, <6>2 DEF Ended
            <7> QED
              BY <1>1, <1>6, <2>1, <7>1 DEF InTurn
          <6> QED
            BY <6>1, <6>2
        <5> QED
          BY <1>6, <4>2, <5>1 DEF Ended
      <4> QED
        BY <4>1, <4>2
    <3> QED
      BY <3>1, <3>2
  <2>2. ASSUME NEW k \in DOMAIN line' PROVE line'[k] \in Ids' /\ asked'[line'[k]].state = "queued"
    <3>1. line[k + 1] \in Ids /\ asked[line[k + 1]].state = "queued" /\ i < line[k + 1]
      BY <1>1, <1>3, <1>4 DEF InTurn
    <3>2. line[k + 1] # i
      BY <1>5, <1>6, <3>1
    <3> QED
      BY <1>3, <1>6, <3>1, <3>2
  <2>3. ASSUME NEW j \in Ids', asked'[j].state = "queued" PROVE \E k \in DOMAIN line' : line'[k] = j
    <3>1. j # i
      BY <1>6, <2>3
    <3>2. PICK k \in 1 .. m + 1 : line[k] = j
      BY <1>1, <1>3, <1>6, <2>3, <3>1 DEF InTurn
    <3>3. k # 1
      BY <1>3, <3>1, <3>2
    <3>4. k - 1 \in 1 .. m /\ (k - 1) + 1 = k
      BY <3>3
    <3> QED
      BY <1>3, <3>2, <3>4
  <2>4. ASSUME NEW k \in DOMAIN line', NEW l \in DOMAIN line', k < l PROVE line'[k] < line'[l]
    <3>1. k + 1 < l + 1
      BY <1>3, <2>4
    <3> QED
      BY <1>1, <1>3, <1>4, <3>1 DEF InTurn
  <2> QED
    BY <2>1, <2>2, <2>3, <2>4 DEF InTurn
<1>9. busy' \in [Handles -> Int] /\ \A h \in Handles : busy'[h] \in {Ready, Lost} \cup Ids
  BY <1>1, <1>2 DEF VolumeTypes, VolumeRefers, Ready
<1>10. VolumeTypes'
  <2>1. Len(line') <= 2
    BY <1>3
  <2> QED
    BY <1>1, <1>2, <1>3, <1>6, <1>9, <2>1 DEF VolumeTypes, Handles
<1>s. PICK S : S = DataOf(i)
  OBVIOUS
<1>11. PICK s \in {"queued", "ok", "failed"} : s = st
  OBVIOUS
<1>12. /\ Becomes(i, s) /\ ~ Ended(i)
       /\ S = DataOf(i) /\ s # "queued" /\ BeforeEnded(i) /\ Adds(S) /\ (s = "ok" => Lands(i))
  BY <1>2, <1>5, <1>7, <1>11, <1>s DEF Ended, Becomes, BeforeEnded, Adds, Lands
<1> QED
  BY <1>2, <1>5, <1>8, <1>9, <1>10, <1>12, TaskKeeps

\* What a flash adds comes after what the board has of the handle.
LEMMA FlashDoneKeeps == VolumeIInv /\ FlashDone => VolumeIInv'
<1> SUFFICES ASSUME VolumeIInv, FlashDone PROVE VolumeIInv'
  OBVIOUS
<1>1. VolumeTypes /\ VolumeRefers /\ InTurn /\ OwnData /\ Older /\ InOrder
  BY DEF VolumeIInv
<1>2. PICK i : i = Head(line)
  OBVIOUS
<1>3. /\ line # << >> /\ asked[i].op = "flash" /\ Settle(i, "ok") /\ UNCHANGED <<erased, booted, refusals>>
      /\ IF asked[i].data = << >> THEN UNCHANGED <<loaded, partition>>
         ELSE /\ loaded' = asked[i].data
              /\ partition' = IF asked[i].name = Stage THEN partition
                              ELSE [partition EXCEPT ![asked[i].name] = @ \o asked[i].data]
  BY <1>2 DEF FlashDone, Succeeds
<1>4. i \in Ids /\ asked[i].state = "queued" /\ ~ Ended(i)
  <2>1. 1 \in DOMAIN line /\ i = line[1]
    BY <1>1, <1>2, <1>3 DEF VolumeTypes
  <2> QED
    BY <1>1, <2>1 DEF InTurn, Ended
<1>5. PICK n \in Names, d \in Seq(Nat) : n = asked[i].name /\ d = asked[i].data /\ ToSet(d) = DataOf(i)
  <2>1. asked[i] \in VolumeCommands
    BY <1>1, <1>4, ElementOf DEF VolumeTypes, Ids
  <2> QED
    BY <2>1 DEF VolumeCommands, DataOf
<1>6. items' = items
  BY <1>3 DEF Settle
<1>7. CASE d = << >> \/ n = Stage
  <2>1. partition' = partition /\ loaded' \in {loaded, d}
    BY <1>3, <1>5, <1>7
  <2>2. InOrder'
    BY <1>1, <1>6, <2>1 DEF InOrder
  <2>3. \A m \in Names : Stored(m)' = Stored(m)
    BY <2>1 DEF Stored
  <2>4. n # Stage => DataOf(i) = {}
    BY <1>5, <1>7, Elements
  <2>5. ToSet(loaded') \subseteq DOMAIN items /\ erased' \subseteq DOMAIN items
    BY <1>1, <1>3, <1>4, <1>5, <2>1 DEF VolumeRefers
  <2>6. partition' \in [Names -> Seq(Nat)] /\ loaded' \in Seq(Nat) /\ booted' \in BOOLEAN /\ refusals' \in 0 .. MaxRefusals
    BY <1>1, <1>3, <1>5, <2>1 DEF VolumeTypes
  <2>7. PICK st \in {"ok", "failed"} : st = "ok"
    OBVIOUS
  <2> QED
    BY <1>2, <1>3, <1>5, <2>2, <2>3, <2>4, <2>5, <2>6, <2>7, SettleKeeps
<1>8. CASE d # << >> /\ n # Stage
  <2>1. partition' = [partition EXCEPT ![n] = partition[n] \o d] /\ loaded' = d
    BY <1>3, <1>5, <1>8
  <2>2. partition[n] \in Seq(Nat) /\ partition[n] \o d \in Seq(Nat)
    BY <1>1, <1>5 DEF VolumeTypes
  <2>3. /\ partition' \in [Names -> Seq(Nat)] /\ partition'[n] = partition[n] \o d
        /\ \A m \in Names : m # n => partition'[m] = partition[m]
    BY <1>1, <2>1, <2>2 DEF VolumeTypes
  <2>4. ASSUME NEW m \in Names PROVE Stored(m)' = Stored(m) \cup (IF m = n THEN DataOf(i) ELSE {})
    <3>1. ToSet(partition[n] \o d) = ToSet(partition[n]) \cup ToSet(d)
      BY <2>2, Elements
    <3> QED
      BY <1>5, <2>3, <3>1 DEF Stored
  <2>5. InOrder'
    <3>1. ASSUME NEW k \in DOMAIN (partition[n] \o d), NEW l \in DOMAIN (partition[n] \o d), k < l,
                 items[(partition[n] \o d)[k]].of = items[(partition[n] \o d)[l]].of
          PROVE  (partition[n] \o d)[k] < (partition[n] \o d)[l]
      <4>1. PICK p \in Nat, q \in Nat : /\ DOMAIN partition[n] = 1 .. p /\ DOMAIN d = 1 .. q
                                        /\ DOMAIN (partition[n] \o d) = 1 .. p + q
                                        /\ \A e \in 1 .. p + q : (partition[n] \o d)[e] = IF e <= p THEN partition[n][e] ELSE d[e - p]
        <5>1. /\ Len(partition[n]) \in Nat /\ Len(d) \in Nat
              /\ DOMAIN partition[n] = 1 .. Len(partition[n]) /\ DOMAIN d = 1 .. Len(d)
              /\ DOMAIN (partition[n] \o d) = 1 .. Len(partition[n]) + Len(d)
              /\ \A e \in 1 .. Len(partition[n]) + Len(d) :
                   (partition[n] \o d)[e] = IF e <= Len(partition[n]) THEN partition[n][e] ELSE d[e - Len(partition[n])]
          BY <2>2
        <5> QED
          BY <5>1
      <4>2. \A e \in 1 .. p + q : IF e <= p THEN e \in 1 .. p ELSE e - p \in 1 .. q
        OBVIOUS
      <4>3. CASE l <= p
        <5>1. k <= p /\ k \in 1 .. p /\ l \in 1 .. p
          BY <3>1, <4>1, <4>2, <4>3
        <5> QED
          BY <1>1, <3>1, <4>1, <4>3, <5>1 DEF InOrder
      <4>4. CASE k <= p /\ ~ l <= p
        <5>1. partition[n][k] \in Stored(n) /\ d[l - p] \in DataOf(i)
          BY <1>5, <4>1, <4>2, <4>4 DEF Stored, ToSet
        <5>2. (partition[n] \o d)[k] = partition[n][k] /\ (partition[n] \o d)[l] = d[l - p]
          BY <4>1, <4>4
        <5>3. items[d[l - p]].of = asked[i].of
          BY <1>1, <1>4, <5>1 DEF OwnData
        <5>4. Below({partition[n][k]}, DataOf(i))
          BY <1>1, <1>4, <3>1, <5>1, <5>2, <5>3 DEF Older
        <5> QED
          BY <5>1, <5>2, <5>4 DEF Below
      <4>5. CASE ~ k <= p
        <5>1. k \in 1 .. p + q /\ l \in 1 .. p + q
          BY <4>1
        <5>2. ~ l <= p /\ k - p < l - p
          BY <3>1, <4>5, <5>1
        <5>3. k - p \in 1 .. q /\ l - p \in 1 .. q
          BY <4>2, <4>5, <5>1, <5>2
        <5>4. Rising(d)
          BY <1>1, <1>4, <1>5 DEF OwnData
        <5> QED
          BY <4>1, <4>5, <5>1, <5>2, <5>3, <5>4 DEF Rising
      <4> QED
        BY <4>3, <4>4, <4>5
    <3>2. ASSUME NEW m \in Names, NEW k \in DOMAIN partition'[m], NEW l \in DOMAIN partition'[m], k < l,
                 items[partition'[m][k]].of = items[partition'[m][l]].of
          PROVE  partition'[m][k] < partition'[m][l]
      <4>1. CASE m = n
        BY <2>3, <3>1, <3>2, <4>1
      <4>2. CASE m # n
        BY <1>1, <2>3, <3>2, <4>2 DEF InOrder
      <4> QED
        BY <4>1, <4>2
    <3> QED
      BY <1>6, <3>2 DEF InOrder
  <2>6. ToSet(loaded') \subseteq DOMAIN items /\ erased' \subseteq DOMAIN items
    BY <1>1, <1>3, <1>4, <1>5, <2>1 DEF VolumeRefers
  <2>7. loaded' \in Seq(Nat) /\ booted' \in BOOLEAN /\ refusals' \in 0 .. MaxRefusals
    BY <1>1, <1>3, <2>1 DEF VolumeTypes
  <2>8. PICK st \in {"ok", "failed"} : st = "ok"
    OBVIOUS
  <2> QED
    BY <1>2, <1>3, <1>5, <2>3, <2>4, <2>5, <2>6, <2>7, <2>8, SettleKeeps
<1> QED
  BY <1>7, <1>8

\* An erasure removes what it says, and nothing else removes anything.
LEMMA OthersKeep ==
  VolumeIInv /\ (PingDone \/ ProbeDone \/ EraseDone \/ ContinueDone \/ CommandFails) => VolumeIInv'
<1> SUFFICES ASSUME VolumeIInv, PingDone \/ ProbeDone \/ EraseDone \/ ContinueDone \/ CommandFails
             PROVE  VolumeIInv'
  OBVIOUS
<1>1. VolumeTypes /\ VolumeRefers /\ InOrder
  BY DEF VolumeIInv
<1>2. PICK i : i = Head(line)
  OBVIOUS
<1>3. PICK st \in {"ok", "failed"} : line # << >> /\ Settle(i, st) /\ (st = "ok" => asked[i].op # "flash")
  BY <1>2 DEF PingDone, ProbeDone, EraseDone, ContinueDone, CommandFails, Succeeds
<1>4. booted' \in BOOLEAN /\ refusals' \in 0 .. MaxRefusals /\ loaded' \in {loaded, << >>}
  <2>1. \A r, m \in Nat : r <= m /\ r < m => r + 1 \in 0 .. m
    OBVIOUS
  <2>2. refusals \in Nat /\ refusals <= MaxRefusals /\ MaxRefusals \in Nat
    BY <1>1, FastbootVolumeAssumption DEF VolumeTypes
  <2>3. \/ UNCHANGED refusals
        \/ refusals < MaxRefusals /\ refusals' = refusals + 1
    BY DEF PingDone, ProbeDone, EraseDone, ContinueDone, CommandFails, fastbootBoardVars
  <2>4. refusals' \in 0 .. MaxRefusals
    BY <1>1, <2>1, <2>2, <2>3 DEF VolumeTypes
  <2> QED
    BY <1>1, <2>4 DEF VolumeTypes, PingDone, ProbeDone, EraseDone, ContinueDone, CommandFails, fastbootBoardVars
<1>5. loaded' \in Seq(Nat) /\ ToSet(loaded') \subseteq DOMAIN items
  BY <1>1, <1>4, << >> \in Seq(Nat), Elements DEF VolumeTypes, VolumeRefers
<1>6. items' = items
  BY <1>3 DEF Settle
<1>7. CASE UNCHANGED <<partition, erased>>
  <2>1. \A n \in Names : Stored(n)' = Stored(n)
    BY <1>7 DEF Stored
  <2>2. InOrder' /\ partition' \in [Names -> Seq(Nat)] /\ erased' \subseteq DOMAIN items
    BY <1>1, <1>6, <1>7 DEF InOrder, VolumeTypes, VolumeRefers
  <2> QED
    BY <1>2, <1>3, <1>4, <1>5, <1>7, <2>1, <2>2, SettleKeeps
<1>8. CASE EraseDone
  <2>1. PICK n \in Names : n = asked[i].name
    <3>1. 1 \in DOMAIN line /\ i = line[1]
      BY <1>1, <1>2, <1>3 DEF VolumeTypes
    <3>2. i \in Ids
      BY <3>1 DEF InTurn, VolumeIInv
    <3>3. asked[i] \in VolumeCommands
      BY <1>1, <3>2, ElementOf DEF VolumeTypes, Ids
    <3> QED
      BY <3>3 DEF VolumeCommands
  <2>2. partition' = [partition EXCEPT ![n] = << >>] /\ erased' = erased \cup Stored(n)
    BY <1>2, <1>8, <2>1 DEF EraseDone, Stored
  <2>3. /\ partition' \in [Names -> Seq(Nat)] /\ partition'[n] = << >>
        /\ \A m \in Names : m # n => partition'[m] = partition[m]
    BY <1>1, <2>2, << >> \in Seq(Nat) DEF VolumeTypes
  <2>4. \A m \in Names : Stored(m)' = IF m = n THEN {} ELSE Stored(m)
    BY <2>3, Elements DEF Stored
  <2>5. erased' \subseteq DOMAIN items
    BY <1>1, <2>2 DEF VolumeRefers
  <2>6. InOrder'
    <3>1. ASSUME NEW m \in Names, NEW k \in DOMAIN partition'[m], NEW l \in DOMAIN partition'[m], k < l,
                 items[partition'[m][k]].of = items[partition'[m][l]].of
          PROVE  partition'[m][k] < partition'[m][l]
      <4>1. m # n
        BY <2>3, <3>1
      <4> QED
        BY <1>1, <2>3, <3>1, <4>1 DEF InOrder
    <3> QED
      BY <1>6, <3>1 DEF InOrder
  <2> QED
    BY <1>2, <1>3, <1>4, <1>5, <2>2, <2>3, <2>4, <2>5, <2>6, SettleKeeps
<1> QED
  BY <1>7, <1>8 DEF PingDone, ProbeDone, ContinueDone, CommandFails, fastbootBoardVars

\* What is checked follows.
LEMMA VolumeIInvEnough == VolumeIInv => VolumeInv
<1> SUFFICES ASSUME VolumeIInv PROVE VolumeInv
  OBVIOUS
<1>1. VolumeTypes /\ VolumeRefers /\ InTurn /\ InOrder /\ IsStored
  BY DEF VolumeIInv
<1>2. FlushSettles
  <2> SUFFICES ASSUME NEW i \in Ids, asked[i].state = "ok", NEW j \in 1 .. i - 1, asked[j].op = "flash"
               PROVE  /\ Ended(j)
                      /\ asked[j].state = "ok" /\ asked[j].name # Stage =>
                           ToSet(asked[j].data) \subseteq ToSet(partition[asked[j].name]) \cup erased
    BY DEF FlushSettles
  <2>1. j \in Ids /\ j < i
    <3>1. PICK n \in Nat : DOMAIN asked = 1 .. n
      BY <1>1 DEF VolumeTypes
    <3>2. i \in 1 .. n
      BY <3>1 DEF Ids
    <3>3. j \in 1 .. n /\ j < i
      BY <3>2
    <3> QED
      BY <3>1, <3>3 DEF Ids
  <2> QED
    BY <1>1, <2>1 DEF InTurn, Ended, IsStored, DataOf, Stored
<1> QED
  BY <1>1, <1>2, VolumeTypesEnough DEF VolumeInv

LEMMA VolumeInitInv == VolumeInit => VolumeIInv
<1> SUFFICES ASSUME VolumeInit PROVE VolumeIInv
  OBVIOUS
<1>1. /\ handle = << >> /\ busy = << >> /\ pending = << >> /\ items = << >>
      /\ asked = << >> /\ line = << >>
      /\ partition = [n \in Names |-> << >>] /\ erased = {} /\ loaded = << >>
      /\ booted = FALSE /\ refusals = 0
  BY DEF VolumeInit
<1>2. \A S : << >> \in Seq(S) /\ Len(<< >>) = 0 /\ DOMAIN << >> = {} /\ << >> \in [{} -> S]
  OBVIOUS
<1>3. Handles = {} /\ Ids = {} /\ DOMAIN items = {} /\ DOMAIN line = {}
  BY <1>1, <1>2 DEF Handles, Ids
<1>4. \A n \in Names : partition[n] = << >> /\ Stored(n) = {} /\ DOMAIN partition[n] = {}
  BY <1>1, <1>2, Elements DEF Stored
<1>5. VolumeTypes
  <2>1. handle \in Seq(Names) /\ asked \in Seq(VolumeCommands) /\ items \in Seq([of : Nat, flash : Nat])
    BY <1>1, <1>2
  <2>2. busy \in [Handles -> Int] /\ pending \in [Handles -> Seq(Nat)]
    BY <1>1, <1>2, <1>3
  <2>3. line \in Seq(Nat) /\ loaded \in Seq(Nat) /\ partition \in [Names -> Seq(Nat)]
    BY <1>1, <1>2
  <2>4. Len(handle) <= MaxHandles /\ Len(items) <= MaxItems /\ Len(line) <= 2 /\ refusals \in 0 .. MaxRefusals
    BY <1>1, <1>2, FastbootVolumeAssumption
  <2> QED
    BY <1>1, <2>1, <2>2, <2>3, <2>4 DEF VolumeTypes
<1>6. VolumeRefers /\ InTurn /\ OwnData
  BY <1>1, <1>3, <1>4, Elements DEF VolumeRefers, InTurn, OwnData
<1>7. Older /\ InOrder /\ IsStored
  BY <1>3, <1>4 DEF Older, InOrder, IsStored
<1> QED
  BY <1>5, <1>6, <1>7 DEF VolumeIInv

LEMMA VolumeStutters == VolumeIInv /\ UNCHANGED volumeVars => VolumeIInv'
<1> SUFFICES ASSUME VolumeIInv, UNCHANGED volumeVars PROVE VolumeIInv'
  OBVIOUS
<1>1. UNCHANGED <<handle, busy, pending, items, asked, line, partition, erased, loaded, booted, refusals>>
  BY DEF volumeVars, clientVars, fastbootBoardVars
<1>2. /\ Handles' = Handles /\ Ids' = Ids /\ \A n : Stored(n)' = Stored(n)
      /\ \A h : Buffered(h)' = Buffered(h) /\ \A i : DataOf(i)' = DataOf(i) /\ (Ended(i)' <=> Ended(i))
  BY <1>1 DEF Handles, Ids, Stored, Buffered, DataOf, Ended
<1>3. VolumeTypes' /\ VolumeRefers' /\ InTurn'
  BY <1>1, <1>2 DEF VolumeIInv, VolumeTypes, VolumeRefers, InTurn
<1>4. OwnData' /\ Older'
  <2>1. OwnData /\ Older
    BY DEF VolumeIInv
  <2>2. OwnData'
    BY <1>1, <2>1 DEF OwnData, Handles, Ids, DataOf, Buffered, Ended
  <2>3. Older'
    BY <1>1, <2>1 DEF Older, Handles, Ids, DataOf, Buffered, Ended, Stored
  <2> QED
    BY <2>2, <2>3
<1>5. InOrder' /\ IsStored'
  <2>1. InOrder /\ IsStored
    BY DEF VolumeIInv
  <2>2. InOrder'
    BY <1>1, <2>1 DEF InOrder
  <2>3. IsStored'
    BY <1>1, <2>1 DEF IsStored, DataOf, Stored, Ids
  <2> QED
    BY <2>2, <2>3
<1> QED
  BY <1>3, <1>4, <1>5 DEF VolumeIInv

\* Several users of a fastboot device do not take data from each other: what a
\* successful flush stands for is on the board, and in the order it was written.
THEOREM VolumeSafe == VolumeSpec => []VolumeInv
<1>1. ASSUME VolumeIInv, VolumeNext PROVE VolumeIInv'
  BY <1>1, OpenHandleKeeps, ContinueOrEraseKeeps, DropHandleKeeps, FlushItemsKeeps, WriteItemKeeps,
     SendCommandKeeps, FlashDoneKeeps, OthersKeep
     DEF VolumeNext, ProcessStep
<1>2. VolumeIInv /\ [VolumeNext]_volumeVars => VolumeIInv'
  BY <1>1, VolumeStutters
<1> QED
  BY <1>2, VolumeInitInv, VolumeIInvEnough, PTL DEF VolumeSpec

-----------------------------------------------------------------------------
(* Targets of a fastboot volume. *)

Asked == [op : {"flush"}] \cup {[op |-> "write", at |-> w.at, len |-> w.len] : w \in Writes}

AnyReply == {"none", "waiting", "ok", "error"}
AnyResult == {"waiting", "ok", "failed"}

\* The sequences of a target and of its device: each request has its answer and its
\* commands, and whatever is in the channel is there in a sequence.
FlashShapes ==
  /\ requests \in Seq(Asked)
  /\ replies \in Seq(AnyReply) /\ Len(replies) = Len(requests)
  /\ flashes \in Seq(Seq(Nat)) /\ Len(flashes) = Len(requests)
  /\ results \in Seq(AnyResult)
  /\ channel \in Seq(Range(channel))

FlashesAreSent ==
  \A r \in 1 .. Len(requests) : \A i \in Range(flashes[r]) : i \in 1 .. Len(results)

\* While there is data in hand or to be sent, it is that of the current request, which is
\* not answered, nor waited for.
TargetAtWork ==
  /\ inHand # None => Current > 0 /\ replies[Current] = "none" /\ requests[Current].op = "write"
  /\ sending # None => /\ Current > 0 /\ replies[Current] = "none"
                       /\ requests[Current].op = "flush" => flashes[Current] = << >>

\* The commands in the channel have no result yet.
ChannelWaits ==
  \A i \in 1 .. Len(channel) :
    /\ channel[i].id \in 1 .. Len(results) /\ results[channel[i].id] = "waiting"
    /\ \A j \in 1 .. Len(channel) : i # j => channel[i].id # channel[j].id

FlashIInv == FlashShapes /\ FlashesAreSent /\ TargetAtWork /\ ChannelWaits /\ AnswersTellResults

\* A sequence is one of its own elements, and of any that it gains.
LEMMA OwnElements ==
  ASSUME NEW S, NEW s \in Seq(S)
  PROVE  s \in Seq(Range(s))
<1>1. \A i \in 1 .. Len(s) : s[i] \in Range(s)
  BY DEF Range
<1> QED
  BY <1>1

\* What is in a sequence after something is added at its end, or after its head is taken.
LEMMA AppendRange ==
  ASSUME NEW S, NEW s \in Seq(S), NEW e \in S
  PROVE  Append(s, e) \in Seq(S) /\ \A i : i \in Range(Append(s, e)) <=> i \in Range(s) \/ i = e
<1>1. PICK n \in Nat : n = Len(s)
  OBVIOUS
<1>2. PICK t : t = Append(s, e)
  OBVIOUS
<1>3. /\ t \in Seq(S) /\ DOMAIN s = 1 .. n /\ DOMAIN t = 1 .. n + 1 /\ t[n + 1] = e
      /\ \A i \in 1 .. n : t[i] = s[i]
  BY <1>1, <1>2, AppendGrows
<1>4. /\ n + 1 \in 1 .. n + 1 /\ \A i \in 1 .. n + 1 : i \in 1 .. n \/ i = n + 1
      /\ \A i \in 1 .. n : i \in 1 .. n + 1
  OBVIOUS
<1>5. ASSUME NEW i PROVE i \in Range(t) <=> i \in Range(s) \/ i = e
  BY <1>3, <1>4 DEF Range
<1> QED
  BY <1>2, <1>3, <1>5

LEMMA TailShifts ==
  ASSUME NEW S, NEW s \in Seq(S), s # << >>
  PROVE  /\ Tail(s) \in Seq(S) /\ Len(s) \in Nat \ {0} /\ Len(Tail(s)) = Len(s) - 1
         /\ Head(s) = s[1] /\ \A i \in 1 .. Len(s) - 1 : Tail(s)[i] = s[i + 1]
  OBVIOUS

\* The numbers that the sequences of a target go by.
LEMMA FlashFacts ==
  ASSUME FlashShapes
  PROVE  /\ Len(requests) \in Nat /\ Len(results) \in Nat /\ Len(channel) \in Nat
         /\ DOMAIN requests = 1 .. Len(requests) /\ DOMAIN replies = 1 .. Len(requests)
         /\ DOMAIN flashes = 1 .. Len(requests) /\ DOMAIN results = 1 .. Len(results)
         /\ Current = Len(requests)
         /\ Current > 0 => Current \in 1 .. Len(requests)
         /\ \A r \in 1 .. Len(requests) : /\ flashes[r] \in Seq(Nat)
                                          /\ replies[r] \in AnyReply
                                          /\ requests[r] \in Asked
         /\ \A i \in 1 .. Len(results) : results[i] \in AnyResult
  BY DEF FlashShapes, Current

\* A new request has no answer and no commands, and whatever is in hand was done with.
LEMMA ReceiveKeeps ==
  ASSUME FlashIInv, NEW request \in Asked, Receive(request), UNCHANGED <<results, channel>>
  PROVE  /\ inHand = None /\ sending = None
         /\ Current' = Len(requests) + 1 /\ Current' > 0 /\ replies'[Current'] = "none"
         /\ requests'[Current'] = request /\ flashes'[Current'] = << >>
         /\ FlashShapes' /\ FlashesAreSent' /\ ChannelWaits' /\ AnswersTellResults'
<1>1. PICK n \in Nat : /\ n = Len(requests) /\ n = Len(replies) /\ n = Len(flashes) /\ Current = n
                       /\ DOMAIN requests = 1 .. n /\ DOMAIN results = 1 .. Len(results)
  BY FlashFacts DEF FlashIInv, FlashShapes
<1>2. inHand = None /\ sending = None
  BY <1>1 DEF Receive, Returned, FlashIInv, TargetAtWork
<1>3. /\ requests' \in Seq(Asked) /\ Len(requests') = n + 1 /\ requests'[n + 1] = request
      /\ DOMAIN requests' = 1 .. n + 1
      /\ \A r \in 1 .. n : requests'[r] = requests[r]
  <2>1. requests \in Seq(Asked) /\ requests' = Append(requests, request)
    BY DEF FlashIInv, FlashShapes, Receive
  <2> QED
    BY <1>1, <2>1, AppendGrows
<1>4. /\ replies' \in Seq(AnyReply) /\ Len(replies') = n + 1
      /\ replies'[n + 1] = "none" /\ \A r \in 1 .. n : replies'[r] = replies[r]
  <2>1. PICK none \in AnyReply : none = "none"
    BY DEF AnyReply
  <2>2. replies \in Seq(AnyReply) /\ replies' = Append(replies, none)
    BY <2>1 DEF FlashIInv, FlashShapes, Receive
  <2>3. /\ Append(replies, none) \in Seq(AnyReply)
        /\ Len(Append(replies, none)) = Len(replies) + 1
        /\ Append(replies, none)[Len(replies) + 1] = none
        /\ \A r \in 1 .. Len(replies) : Append(replies, none)[r] = replies[r]
    BY <2>2, AppendGrows
  <2> QED
    BY <1>1, <2>1, <2>2, <2>3
<1>5. /\ flashes' \in Seq(Seq(Nat)) /\ Len(flashes') = n + 1
      /\ flashes'[n + 1] = << >> /\ \A r \in 1 .. n : flashes'[r] = flashes[r]
  <2>1. flashes \in Seq(Seq(Nat)) /\ flashes' = Append(flashes, << >>) /\ << >> \in Seq(Nat)
    BY DEF FlashIInv, FlashShapes, Receive
  <2> QED
    BY <1>1, <2>1, AppendGrows
<1>6. Current' = n + 1
  BY <1>3 DEF Current
<1>7. \A r \in 1 .. n + 1 : r \in 1 .. n \/ r = n + 1
  BY <1>1
<1>8. \A i : i \notin Range(flashes'[n + 1])
  BY <1>5 DEF Range
<1>9. FlashShapes'
  BY <1>3, <1>4, <1>5 DEF FlashIInv, FlashShapes
<1>10. FlashesAreSent'
  BY <1>1, <1>3, <1>5, <1>7, <1>8 DEF FlashIInv, FlashesAreSent
<1>11. ChannelWaits'
  BY DEF FlashIInv, ChannelWaits
<1>12. AnswersTellResults'
  <2>1. ASSUME NEW i \in DOMAIN results PROVE \E r \in 1 .. n + 1 : i \in Range(flashes'[r])
    <3>1. PICK r \in 1 .. n : i \in Range(flashes[r])
      BY <1>1 DEF FlashIInv, AnswersTellResults
    <3>2. r \in 1 .. n + 1
      BY <1>1
    <3> QED
      BY <1>5, <3>1, <3>2
  <2>2. ASSUME NEW r \in 1 .. n + 1
        PROVE  /\ replies'[r] = "ok" => \A i \in Range(flashes'[r]) : results[i] = "ok"
               /\ replies'[r] = "error" => \E i \in Range(flashes'[r]) : results[i] = "failed"
    BY <1>1, <1>4, <1>5, <1>7 DEF FlashIInv, AnswersTellResults
  <2> QED
    BY <1>1, <1>3, <2>1, <2>2 DEF AnswersTellResults
<1> QED
  BY <1>1, <1>2, <1>3, <1>4, <1>5, <1>6, <1>9, <1>10, <1>11, <1>12

\* An answer that is that of the commands.
LEMMA ReplyKeeps ==
  ASSUME FlashIInv, NEW r \in 1 .. Len(requests), NEW answer \in {"waiting", "ok", "error"},
         Reply(r, answer), UNCHANGED <<requests, flashes, results, channel>>,
         answer = "ok" => \A i \in Range(flashes[r]) : results[i] = "ok",
         answer = "error" => \E i \in Range(flashes[r]) : results[i] = "failed"
  PROVE  /\ FlashShapes' /\ FlashesAreSent' /\ ChannelWaits' /\ AnswersTellResults'
         /\ \A q \in 1 .. Len(requests) : q # r => replies'[q] = replies[q]
<1>1. /\ replies \in Seq(AnyReply) /\ Len(replies) = Len(requests)
      /\ DOMAIN replies = 1 .. Len(requests) /\ DOMAIN requests = 1 .. Len(requests)
  BY FlashFacts DEF FlashIInv, FlashShapes
<1>2. /\ replies' \in Seq(AnyReply) /\ Len(replies') = Len(requests)
      /\ replies'[r] = answer
      /\ \A q \in 1 .. Len(requests) : q # r => replies'[q] = replies[q]
  <2>1. answer \in AnyReply
    BY DEF AnyReply
  <2> QED
    BY <1>1, <2>1, Changes DEF Reply
<1>3. FlashShapes' /\ FlashesAreSent' /\ ChannelWaits'
  BY <1>2 DEF FlashIInv, FlashShapes, FlashesAreSent, ChannelWaits
<1>4. AnswersTellResults'
  <2>1. ASSUME NEW q \in 1 .. Len(requests)
        PROVE  /\ replies'[q] = "ok" => \A i \in Range(flashes[q]) : results[i] = "ok"
               /\ replies'[q] = "error" => \E i \in Range(flashes[q]) : results[i] = "failed"
    BY <1>1, <1>2 DEF FlashIInv, AnswersTellResults
  <2> QED
    BY <1>1, <2>1 DEF FlashIInv, AnswersTellResults
<1> QED
  BY <1>2, <1>3, <1>4

LEMMA FlashWriteKeeps == ASSUME FlashIInv, Write PROVE FlashIInv'
<1>1. PICK w \in Writes :
        /\ Receive([op |-> "write", at |-> w.at, len |-> w.len])
        /\ UNCHANGED <<sending, results, channel>>
  BY DEF Write, boardVars
<1>2. [op |-> "write", at |-> w.at, len |-> w.len] \in Asked
  BY DEF Asked
<1>3. /\ sending' = None /\ Current' > 0 /\ replies'[Current'] = "none"
      /\ requests'[Current'].op = "write"
      /\ FlashShapes' /\ FlashesAreSent' /\ ChannelWaits' /\ AnswersTellResults'
  BY <1>1, <1>2, ReceiveKeeps
<1>4. TargetAtWork'
  BY <1>3 DEF TargetAtWork
<1> QED
  BY <1>3, <1>4 DEF FlashIInv

LEMMA FlashFlushKeeps == ASSUME FlashIInv, Flush PROVE FlashIInv'
<1>1. Receive([op |-> "flush"]) /\ UNCHANGED <<inHand, results, channel>>
  BY DEF Flush, boardVars
<1>2. [op |-> "flush"] \in Asked
  BY DEF Asked
<1>3. /\ inHand = None /\ Current' > 0 /\ replies'[Current'] = "none" /\ flashes'[Current'] = << >>
      /\ FlashShapes' /\ FlashesAreSent' /\ ChannelWaits' /\ AnswersTellResults'
  BY <1>1, <1>2, ReceiveKeeps
<1>4. TargetAtWork'
  BY <1>1, <1>3 DEF TargetAtWork
<1> QED
  BY <1>3, <1>4 DEF FlashIInv

\* What a target buffers is data of a write, which it goes on with.
LEMMA FlashBufferKeeps == ASSUME FlashIInv, Buffer PROVE FlashIInv'
<1>1. inHand # None /\ UNCHANGED <<requests, replies, flashes, channel, results>>
  BY DEF Buffer, boardVars
<1>2. FlashShapes' /\ FlashesAreSent' /\ ChannelWaits' /\ AnswersTellResults' /\ Current' = Current
  BY <1>1 DEF FlashIInv, FlashShapes, FlashesAreSent, ChannelWaits, AnswersTellResults, Current
<1>3. Current > 0 /\ replies[Current] = "none" /\ requests[Current].op = "write"
  BY <1>1 DEF FlashIInv, TargetAtWork
<1>4. TargetAtWork'
  BY <1>1, <1>2, <1>3 DEF TargetAtWork
<1> QED
  BY <1>2, <1>4 DEF FlashIInv

\* A command is sent for the current request, which has no answer yet.
LEMMA FlashSendKeeps == ASSUME FlashIInv, Send PROVE FlashIInv'
<1> DEFINE id == Len(results) + 1
           command == [id |-> id, chunks |-> sending[1]]
<1>1. /\ sending # None /\ sending' = None
      /\ channel' = Append(channel, command) /\ results' = Append(results, "waiting")
      /\ flashes' = [flashes EXCEPT ![Current] = Append(flashes[Current], id)]
      /\ UNCHANGED <<requests, replies, inHand>>
  BY DEF Send
<1>2. PICK n, m, k \in Nat :
        /\ n = Len(requests) /\ n = Len(replies) /\ n = Len(flashes) /\ Current = n /\ Current' = n
        /\ DOMAIN requests = 1 .. n /\ DOMAIN flashes = 1 .. n
        /\ m = Len(results) /\ DOMAIN results = 1 .. m /\ k = Len(channel) /\ id = m + 1
  BY <1>1, FlashFacts DEF FlashIInv, FlashShapes, Current
<1>3. n \in 1 .. n /\ replies[n] = "none"
  BY <1>1, <1>2 DEF FlashIInv, TargetAtWork
<1>4. /\ results' \in Seq(AnyResult) /\ Len(results') = m + 1 /\ DOMAIN results' = 1 .. m + 1
      /\ results'[m + 1] = "waiting" /\ \A i \in 1 .. m : results'[i] = results[i]
  <2>1. PICK waiting \in AnyResult : waiting = "waiting"
    BY DEF AnyResult
  <2>2. results \in Seq(AnyResult) /\ results' = Append(results, waiting)
    BY <1>1, <2>1 DEF FlashIInv, FlashShapes
  <2>3. /\ Append(results, waiting) \in Seq(AnyResult)
        /\ Len(Append(results, waiting)) = Len(results) + 1
        /\ Append(results, waiting)[Len(results) + 1] = waiting
        /\ \A i \in 1 .. Len(results) : Append(results, waiting)[i] = results[i]
        /\ DOMAIN Append(results, waiting) = 1 .. Len(results) + 1
    BY <2>2, AppendGrows
  <2> QED
    BY <1>2, <2>1, <2>2, <2>3
<1>5. /\ channel' \in Seq(Range(channel')) /\ Len(channel') = k + 1 /\ channel'[k + 1].id = m + 1
      /\ \A i \in 1 .. k : channel'[i] = channel[i]
  <2>1. PICK S : S = Range(channel) \cup {command}
    OBVIOUS
  <2>2. channel \in Seq(S) /\ command \in S
    <3>1. channel \in Seq(Range(channel))
      BY DEF FlashIInv, FlashShapes
    <3>2. Range(channel) \subseteq S
      BY <2>1
    <3> QED
      BY <2>1, <3>1, <3>2, SeqWidens
  <2>3. /\ channel' \in Seq(S) /\ Len(channel') = k + 1 /\ channel'[k + 1] = command
        /\ \A i \in 1 .. k : channel'[i] = channel[i]
    BY <1>1, <1>2, <2>2, AppendGrows
  <2> QED
    BY <1>2, <2>3, OwnElements
<1>6. /\ flashes' \in Seq(Seq(Nat)) /\ Len(flashes') = n
      /\ \A r \in 1 .. n : r # n => flashes'[r] = flashes[r]
      /\ \A i : i \in Range(flashes'[n]) <=> i \in Range(flashes[n]) \/ i = m + 1
  <2>1. /\ flashes \in Seq(Seq(Nat)) /\ flashes[n] \in Seq(Nat) /\ m + 1 \in Nat
        /\ flashes' = [flashes EXCEPT ![n] = Append(flashes[n], m + 1)]
    BY <1>1, <1>2, <1>3, FlashFacts DEF FlashIInv, FlashShapes
  <2>2. PICK f : f = Append(flashes[n], m + 1)
    OBVIOUS
  <2>3. f \in Seq(Nat) /\ \A i : i \in Range(f) <=> i \in Range(flashes[n]) \/ i = m + 1
    BY <2>1, <2>2, AppendRange
  <2>4. /\ [flashes EXCEPT ![n] = f] \in Seq(Seq(Nat)) /\ Len([flashes EXCEPT ![n] = f]) = Len(flashes)
        /\ n \in DOMAIN flashes
    BY <1>2, <1>3, <2>1, <2>3, Changes
  <2> QED
    BY <1>2, <1>3, <2>1, <2>2, <2>3, <2>4
<1>7. \A i \in 1 .. m + 1 : i \in 1 .. m \/ i = m + 1
  BY <1>2
<1>8. \A i \in 1 .. m : i \in 1 .. m + 1 /\ i # m + 1
  BY <1>2
<1>9. FlashShapes'
  BY <1>1, <1>2, <1>4, <1>5, <1>6 DEF FlashIInv, FlashShapes
<1>10. \A r \in 1 .. n : \A i \in Range(flashes[r]) : i \in 1 .. m
  BY <1>2 DEF FlashIInv, FlashesAreSent
<1>11. FlashesAreSent'
  <2>1. ASSUME NEW r \in 1 .. n, NEW i \in Range(flashes'[r]) PROVE i \in 1 .. m + 1
    <3>1. i \in Range(flashes[r]) \/ i = m + 1
      BY <1>6, <2>1
    <3> QED
      BY <1>2, <1>10, <3>1
  <2> QED
    BY <1>1, <1>2, <1>4, <2>1 DEF FlashesAreSent
<1>12. TargetAtWork'
  BY <1>1, <1>2 DEF FlashIInv, TargetAtWork
<1>13. ChannelWaits'
  <2>1. \A i \in 1 .. k + 1 : i \in 1 .. k \/ i = k + 1
    BY <1>2
  <2>2. \A i \in 1 .. k : channel[i].id \in 1 .. m /\ results[channel[i].id] = "waiting"
    BY <1>2 DEF FlashIInv, ChannelWaits
  <2>3. \A i \in 1 .. k + 1 : channel'[i].id \in 1 .. m + 1 /\ results'[channel'[i].id] = "waiting"
    <3>1. \A i \in 1 .. k : channel'[i].id \in 1 .. m + 1 /\ results'[channel'[i].id] = "waiting"
      BY <1>4, <1>5, <1>8, <2>2
    <3>2. channel'[k + 1].id \in 1 .. m + 1 /\ results'[channel'[k + 1].id] = "waiting"
      BY <1>2, <1>4, <1>5
    <3> QED
      BY <2>1, <3>1, <3>2
  <2>4. ASSUME NEW i \in 1 .. k + 1, NEW j \in 1 .. k + 1, i # j
        PROVE  channel'[i].id # channel'[j].id
    <3>1. CASE i \in 1 .. k /\ j \in 1 .. k
      BY <1>2, <1>5, <2>4, <3>1 DEF FlashIInv, ChannelWaits
    <3>2. CASE i \in 1 .. k /\ j = k + 1
      BY <1>5, <1>8, <2>2, <3>2
    <3>3. CASE i = k + 1 /\ j \in 1 .. k
      BY <1>5, <1>8, <2>2, <3>3
    <3> QED
      BY <2>1, <2>4, <3>1, <3>2, <3>3
  <2> QED
    BY <1>4, <1>5, <2>3, <2>4 DEF ChannelWaits
<1>14. AnswersTellResults'
  <2>1. ASSUME NEW i \in 1 .. m + 1 PROVE \E r \in 1 .. n : i \in Range(flashes'[r])
    <3>1. CASE i = m + 1
      BY <1>3, <1>6, <3>1
    <3>2. CASE i \in 1 .. m
      <4>1. PICK r \in 1 .. n : i \in Range(flashes[r])
        BY <1>2, <3>2 DEF FlashIInv, AnswersTellResults
      <4> QED
        BY <1>6, <4>1
    <3> QED
      BY <1>7, <3>1, <3>2
  <2>2. ASSUME NEW r \in 1 .. n
        PROVE  /\ replies[r] = "ok" => \A i \in Range(flashes'[r]) : results'[i] = "ok"
               /\ replies[r] = "error" => \E i \in Range(flashes'[r]) : results'[i] = "failed"
    <3>1. CASE r = n
      BY <1>3, <3>1
    <3>2. CASE r # n
      <4>1. flashes'[r] = flashes[r] /\ \A i \in Range(flashes[r]) : results'[i] = results[i]
        BY <1>4, <1>6, <1>10, <3>2
      <4> QED
        BY <1>2, <4>1 DEF FlashIInv, AnswersTellResults
    <3> QED
      BY <3>1, <3>2
  <2> QED
    BY <1>1, <1>2, <1>4, <2>1, <2>2 DEF AnswersTellResults
<1> QED
  BY <1>9, <1>11, <1>12, <1>13, <1>14 DEF FlashIInv

LEMMA FlashReturnKeeps == ASSUME FlashIInv, WriteReturns PROVE FlashIInv'
<1>1. /\ inHand # None /\ sending = None /\ inHand' = None
      /\ UNCHANGED <<requests, flashes, sending, channel, results>>
  BY DEF WriteReturns, boardVars
<1>2. Current \in 1 .. Len(requests) /\ flashes[Current] \in Seq(Nat)
  BY <1>1, FlashFacts DEF FlashIInv, TargetAtWork
<1>3. PICK answer \in {"waiting", "ok", "error"} :
        /\ answer # "error"
        /\ answer = "ok" => flashes[Current] = << >>
        /\ Reply(Current, answer)
  BY DEF WriteReturns
<1>4. /\ answer = "ok" => \A i \in Range(flashes[Current]) : results[i] = "ok"
      /\ answer = "error" => \E i \in Range(flashes[Current]) : results[i] = "failed"
      /\ UNCHANGED <<requests, flashes, results, channel>>
  BY <1>1, <1>3 DEF Range
<1>5. FlashShapes' /\ FlashesAreSent' /\ ChannelWaits' /\ AnswersTellResults'
  BY <1>2, <1>3, <1>4, ReplyKeeps
<1>6. TargetAtWork'
  BY <1>1 DEF TargetAtWork
<1> QED
  BY <1>5, <1>6 DEF FlashIInv

LEMMA FlashAnswerKeeps ==
  ASSUME FlashIInv, NEW r \in 1 .. Current, Answered(r)
  PROVE  FlashIInv'
<1>1. UNCHANGED <<requests, flashes, inHand, sending, channel, results>>
  BY DEF Answered, targetVars, boardVars
<1>2. /\ r \in 1 .. Len(requests) /\ Current \in 1 .. Len(requests) /\ Current' = Current
      /\ flashes[r] \in Seq(Nat)
  BY <1>1, FlashFacts DEF FlashIInv, Current
<1>3. PICK answer \in {"waiting", "ok", "error"} :
        /\ Reply(r, answer)
        /\ answer = "ok" => \A i \in DOMAIN flashes[r] : results[flashes[r][i]] = "ok"
        /\ answer = "error" => \E i \in DOMAIN flashes[r] : results[flashes[r][i]] = "failed"
  BY DEF Answered
<1>4. /\ answer = "ok" => \A i \in Range(flashes[r]) : results[i] = "ok"
      /\ answer = "error" => \E i \in Range(flashes[r]) : results[i] = "failed"
  BY <1>3 DEF Range
<1>5. /\ FlashShapes' /\ FlashesAreSent' /\ ChannelWaits' /\ AnswersTellResults'
      /\ \A q \in 1 .. Len(requests) : q # r => replies'[q] = replies[q]
  BY <1>1, <1>2, <1>3, <1>4, ReplyKeeps
<1>6. r = Current => inHand = None /\ sending = None
  BY DEF Answered, Awaits, FlashIInv, TargetAtWork
<1>7. TargetAtWork'
  <2>1. CASE r = Current
    BY <1>1, <1>6, <2>1 DEF TargetAtWork
  <2>2. CASE r # Current
    BY <1>1, <1>2, <1>5, <2>2 DEF FlashIInv, TargetAtWork
  <2> QED
    BY <2>1, <2>2
<1> QED
  BY <1>5, <1>7 DEF FlashIInv

\* The result of a command, that it had none before.
LEMMA FinishKeeps ==
  ASSUME FlashIInv, channel # << >>, NEW result \in {"ok", "failed"}, Finish(result)
  PROVE  FlashIInv'
<1> DEFINE id == Head(channel).id
<1>1. /\ channel' = Tail(channel) /\ results' = [results EXCEPT ![id] = result]
      /\ UNCHANGED <<requests, replies, flashes, inHand, sending>>
  BY DEF Finish, targetVars
<1>2. PICK n, m, k \in Nat :
        /\ n = Len(requests) /\ DOMAIN requests = 1 .. n /\ Current' = Current
        /\ m = Len(results) /\ DOMAIN results = 1 .. m /\ k = Len(channel)
  BY <1>1, FlashFacts DEF FlashIInv, Current
<1>3. /\ channel' \in Seq(Range(channel)) /\ k \in 1 .. k /\ 1 \in 1 .. k /\ Len(channel') = k - 1
      /\ Head(channel) = channel[1]
      /\ \A i \in 1 .. k - 1 : channel'[i] = channel[i + 1] /\ i + 1 \in 1 .. k /\ i + 1 # 1
  <2>1. channel \in Seq(Range(channel))
    BY DEF FlashIInv, FlashShapes
  <2> QED
    BY <1>1, <1>2, <2>1, TailShifts
<1>4. id \in 1 .. m /\ results[id] = "waiting"
  BY <1>2, <1>3 DEF FlashIInv, ChannelWaits
<1>5. /\ results' \in Seq(AnyResult) /\ Len(results') = m /\ DOMAIN results' = 1 .. m
      /\ results'[id] = result /\ \A i \in 1 .. m : i # id => results'[i] = results[i]
  <2>1. result \in AnyResult /\ results \in Seq(AnyResult)
    BY DEF FlashIInv, FlashShapes, AnyResult
  <2> QED
    BY <1>1, <1>2, <1>4, <2>1, Changes
<1>6. channel' \in Seq(Range(channel'))
  BY <1>3, OwnElements
<1>7. FlashShapes'
  BY <1>1, <1>5, <1>6 DEF FlashIInv, FlashShapes
<1>8. FlashesAreSent'
  BY <1>1, <1>2, <1>5 DEF FlashIInv, FlashesAreSent
<1>9. TargetAtWork'
  BY <1>1, <1>2 DEF FlashIInv, TargetAtWork
<1>10. ChannelWaits'
  <2>1. ASSUME NEW i \in 1 .. k - 1
        PROVE  channel'[i].id \in 1 .. m /\ results'[channel'[i].id] = "waiting"
    <3>1. /\ channel'[i].id \in 1 .. m /\ results[channel'[i].id] = "waiting"
          /\ channel'[i].id # id
      BY <1>2, <1>3 DEF FlashIInv, ChannelWaits
    <3> QED
      BY <1>5, <3>1
  <2>2. ASSUME NEW i \in 1 .. k - 1, NEW j \in 1 .. k - 1, i # j
        PROVE  channel'[i].id # channel'[j].id
    <3>1. i + 1 # j + 1
      BY <1>2, <2>2
    <3> QED
      BY <1>2, <1>3, <3>1 DEF FlashIInv, ChannelWaits
  <2> QED
    BY <1>3, <1>5, <2>1, <2>2 DEF ChannelWaits
<1>11. AnswersTellResults'
  <2>1. ASSUME NEW i \in 1 .. m PROVE \E r \in 1 .. n : i \in Range(flashes[r])
    BY <1>2 DEF FlashIInv, AnswersTellResults
  <2>2. ASSUME NEW r \in 1 .. n
        PROVE  /\ replies[r] = "ok" => \A i \in Range(flashes[r]) : results'[i] = "ok"
               /\ replies[r] = "error" => \E i \in Range(flashes[r]) : results'[i] = "failed"
    <3>1. \A i \in Range(flashes[r]) : results[i] # "waiting" => results'[i] = results[i]
      BY <1>2, <1>4, <1>5 DEF FlashIInv, FlashesAreSent
    <3> QED
      BY <1>2, <3>1 DEF FlashIInv, AnswersTellResults
  <2> QED
    BY <1>1, <1>2, <1>5, <2>1, <2>2 DEF AnswersTellResults
<1> QED
  BY <1>7, <1>8, <1>9, <1>10, <1>11 DEF FlashIInv

LEMMA FlashStep == FlashIInv /\ [Next]_vars => FlashIInv'
<1> SUFFICES ASSUME FlashIInv, [Next]_vars PROVE FlashIInv'
  OBVIOUS
<1>1. CASE Write
  BY <1>1, FlashWriteKeeps
<1>2. CASE Flush
  BY <1>2, FlashFlushKeeps
<1>3. CASE Buffer
  BY <1>3, FlashBufferKeeps
<1>4. CASE Send
  BY <1>4, FlashSendKeeps
<1>5. CASE WriteReturns
  BY <1>5, FlashReturnKeeps
<1>6. ASSUME NEW r \in 1 .. Current, Answered(r) PROVE FlashIInv'
  BY <1>6, FlashAnswerKeeps
<1>7. CASE FlashOk
  <2>1. channel # << >> /\ Finish("ok")
    BY <1>7 DEF FlashOk
  <2> QED
    BY <2>1, FinishKeeps
<1>8. CASE FlashFails
  <2>1. channel # << >> /\ Finish("failed")
    BY <1>8 DEF FlashFails
  <2> QED
    BY <2>1, FinishKeeps
<1>9. CASE UNCHANGED vars
  BY <1>9 DEF vars, targetVars, boardVars, FlashIInv, FlashShapes, FlashesAreSent, TargetAtWork,
              ChannelWaits, AnswersTellResults, Current
<1> QED
  BY <1>1, <1>2, <1>3, <1>4, <1>5, <1>6, <1>7, <1>8, <1>9 DEF Next, TargetStep, BoardStep

LEMMA FlashStarts == Init => FlashIInv
<1> SUFFICES ASSUME Init PROVE FlashIInv
  OBVIOUS
<1>1. /\ requests = << >> /\ replies = << >> /\ flashes = << >> /\ results = << >> /\ channel = << >>
      /\ inHand = None /\ sending = None
  BY DEF Init
<1>2. FlashShapes
  BY <1>1, OwnElements DEF FlashShapes
<1> QED
  BY <1>1, <1>2 DEF FlashIInv, FlashesAreSent, TargetAtWork, ChannelWaits, AnswersTellResults

\* What a target answers is what the commands that it sent did, of every number of requests
\* and however the two tasks take turns: every command is part of the answer to one of the
\* requests, a success means that all of that request's commands succeeded, and a failure
\* that one of them failed (FastbootVolumeTarget and process()).
THEOREM FlashAnswersTell == Spec => []AnswersTellResults
<1>1. FlashIInv => AnswersTellResults
  BY DEF FlashIInv
<1> QED
  BY <1>1, FlashStarts, FlashStep, PTL DEF Spec
=============================================================================
