--------------------------- MODULE PluginHostProofs ---------------------------
(***************************************************************************)
(* Proofs about PluginHost, for any registrations and any number of         *)
(* plugins: whatever a build is given and wherever it fails or is dropped,  *)
(* plugins are brought down in reverse and none is left up; only what is    *)
(* well formed starts; a dispatch reaches the handlers of every tap, and    *)
(* their patches add up.                                                    *)
(***************************************************************************)
EXTENDS PluginHost, ListLemmas, TLAPS

\* A builder that was given nothing yet satisfies the invariant.
LEMMA NestInvInit == Init => NestInv
<1> SUFFICES ASSUME Init PROVE NestInv
  OBVIOUS
<1>1. plugins = <<>> /\ ups = <<>> /\ downs = <<>> /\ phase = "registering"
  BY DEF Init
<1>2. plugins \in Seq(Plugins) /\ ups \in Seq(Nat) /\ downs \in Seq(Nat)
  BY <1>1
<1>3. Len(plugins) = 0 /\ Len(ups) = 0 /\ Len(downs) = 0
  BY <1>1
<1>4. DOMAIN ups = {} /\ DOMAIN downs = {}
  BY <1>2, <1>3
<1>5. QED
  BY <1>1, <1>2, <1>3, <1>4 DEF NestInv

\* The plugin that goes down next is the last of those that are up.
LEMMA NextDown ==
  ASSUME NestInv, StillUp # <<>>
  PROVE  /\ Len(downs) < Len(ups)
         /\ Head(StillUp) = Len(ups) - Len(downs)
<1> DEFINE n == Len(ups)
           d == Len(downs)
           r == Reverse(ups)
<1>1. n \in Nat /\ d \in Nat /\ ups \in Seq(Nat) /\ DOMAIN ups = 1 .. n
  BY DEF NestInv
<1>2. r \in Seq(Nat) /\ Len(r) = n /\ \A k \in 1 .. n : r[k] = n - k + 1
  <2>1. r = [k \in 1 .. n |-> ups[(n - k) + 1]]
    BY DEF Reverse
  <2>2. \A k \in 1 .. n : (n - k) + 1 \in 1 .. n
    BY <1>1
  <2>3. \A k \in 1 .. n : ups[(n - k) + 1] = (n - k) + 1
    BY <1>1, <2>2 DEF NestInv
  <2> HIDE DEF r, n
  <2>4. r \in [1 .. n -> Nat]
    BY <1>1, <2>1, <2>2, <2>3
  <2>5. r \in Seq(Nat) /\ Len(r) = n
    BY <1>1, <2>4
  <2>6. QED
    BY <2>1, <2>3, <2>5
<1>3. StillUp = SubSeq(r, d + 1, n)
  BY DEF StillUp
<1> HIDE DEF r, n, d
<1>4. d < n
  <2>1. ASSUME d >= n PROVE FALSE
    <3>1. Len(SubSeq(r, d + 1, n)) = 0
      BY <1>1, <1>2, <2>1
    <3>2. SubSeq(r, d + 1, n) \in Seq(Nat)
      BY <1>1, <1>2, <2>1
    <3>3. SubSeq(r, d + 1, n) = <<>>
      BY <3>1, <3>2
    <3>4. QED
      BY <1>3, <3>3
  <2>2. QED
    BY <1>1, <2>1
<1>5. Head(StillUp) = r[d + 1]
  BY <1>1, <1>2, <1>3, <1>4
<1>6. r[d + 1] = n - d
  BY <1>1, <1>2, <1>4
<1>7. QED
  BY <1>4, <1>5, <1>6 DEF n, d

\* Nothing is left up exactly if as many plugins went down as came up.
LEMMA NoneUp ==
  ASSUME NestInv, StillUp = <<>>
  PROVE  Len(downs) = Len(ups)
<1> DEFINE n == Len(ups)
           d == Len(downs)
           r == Reverse(ups)
<1>1. n \in Nat /\ d \in Nat /\ d <= n /\ ups \in Seq(Nat)
  BY DEF NestInv
<1>2. r \in Seq(Nat) /\ Len(r) = n
  <2>1. r = [k \in 1 .. n |-> ups[(n - k) + 1]]
    BY DEF Reverse
  <2>2. \A k \in 1 .. n : (n - k) + 1 \in 1 .. n
    BY <1>1
  <2>3. \A k \in 1 .. n : ups[(n - k) + 1] \in Nat
    BY <1>1, <2>2
  <2> HIDE DEF r, n
  <2>4. r \in [1 .. n -> Nat]
    BY <2>1, <2>3
  <2>5. QED
    BY <1>1, <2>4
<1>3. StillUp = SubSeq(r, d + 1, n)
  BY DEF StillUp
<1> HIDE DEF r, n, d
<1>4. ASSUME d < n PROVE FALSE
  <2>1. Len(SubSeq(r, d + 1, n)) = n - d
    BY <1>1, <1>2, <1>4
  <2>2. QED
    BY <1>1, <1>3, <1>4, <2>1
<1>5. d = n
  BY <1>1, <1>4
<1>6. QED
  BY <1>5 DEF n, d

\* Registering, building, coming up and going down preserve the nesting.
LEMMA NestInvStep == NestInv /\ [Next]_vars => NestInv'
<1> SUFFICES ASSUME NestInv, [Next]_vars PROVE NestInv'
  OBVIOUS
<1> USE DEF registered
<1>1. /\ plugins \in Seq(Plugins) /\ ups \in Seq(Nat) /\ downs \in Seq(Nat)
      /\ Len(ups) \in Nat /\ Len(downs) \in Nat /\ Len(plugins) \in Nat
  BY DEF NestInv
<1>2. CASE RegisterModelProvider \/ RegisterTool \/ RegisterSkill \/ RegisterStorage
  <2>1. UNCHANGED <<plugins, phase, ups, downs>>
    BY <1>2 DEF RegisterModelProvider, RegisterTool, RegisterSkill, RegisterStorage,
       Registering
  <2>2. QED
    BY <2>1 DEF NestInv
<1>3. CASE RegisterPlugin
  <2>1. /\ phase = "registering" /\ UNCHANGED <<phase, ups, downs>>
        /\ \E p \in Plugins : plugins' = Append(plugins, p)
    BY <1>3 DEF RegisterPlugin, Registering
  <2>2. plugins' \in Seq(Plugins) /\ Len(plugins') = Len(plugins) + 1
    BY <1>1, <2>1
  <2>3. QED
    BY <1>1, <2>1, <2>2 DEF NestInv
<1>4. CASE Build
  <2>1. /\ phase = "registering" /\ phase' \in {"initialize", "failed"}
        /\ UNCHANGED <<plugins, ups, downs>> /\ ups = <<>> /\ downs = <<>>
    BY <1>4 DEF Build, NestInv
  <2>2. QED
    BY <2>1 DEF NestInv
<1>5. CASE InitializePlugin
  <2>1. /\ phase = "initialize" /\ downs = <<>> /\ UNCHANGED <<plugins, downs>>
        /\ Len(ups) + 1 <= Len(plugins)
        /\ \/ ups' = Append(ups, Len(ups) + 1) /\ phase' = phase
           \/ phase' = "rollback" /\ ups' = ups
    BY <1>5 DEF InitializePlugin, NestInv
  <2>2. CASE ups' = ups /\ phase' = "rollback"
    BY <2>1, <2>2 DEF NestInv
  <2>3. CASE ups' = Append(ups, Len(ups) + 1) /\ phase' = phase
    <3>1. ups' \in Seq(Nat) /\ Len(ups') = Len(ups) + 1
      BY <1>1, <2>3
    <3>2. \A i \in DOMAIN ups' : ups'[i] = i
      BY <1>1, <2>3 DEF NestInv
    <3>3. Len(downs) = 0 /\ DOMAIN downs = {}
      BY <1>1, <2>1
    <3>4. QED
      BY <1>1, <2>1, <2>3, <3>1, <3>2, <3>3 DEF NestInv
  <2>4. QED
    BY <2>1, <2>2, <2>3
<1>6. CASE ApplyPlugins
  <2>1. /\ phase = "initialize" /\ Len(ups) = Len(plugins)
        /\ phase' \in {"running", "rollback"} /\ UNCHANGED <<plugins, ups, downs>>
    BY <1>6 DEF ApplyPlugins
  <2>2. QED
    BY <2>1 DEF NestInv
<1>7. CASE DropBuild
  <2>1. phase' = "dropped" /\ UNCHANGED <<plugins, ups, downs>>
    BY <1>7 DEF DropBuild
  <2>2. QED
    BY <2>1 DEF NestInv
<1>8. CASE BeginShutdown
  <2>1. phase' = "shutdown" /\ UNCHANGED <<plugins, ups, downs>>
    BY <1>8 DEF BeginShutdown
  <2>2. QED
    BY <2>1 DEF NestInv
<1>9. CASE ShutdownPlugin
  <2>1. /\ phase \in {"rollback", "shutdown"} /\ StillUp # <<>>
        /\ downs' = Append(downs, Head(StillUp)) /\ UNCHANGED <<plugins, ups, phase>>
    BY <1>9 DEF ShutdownPlugin
  <2>2. Len(downs) < Len(ups) /\ Head(StillUp) = Len(ups) - Len(downs)
    BY <2>1, NextDown
  <2>3. Len(ups) - Len(downs) \in Nat
    BY <1>1, <2>2
  <2>4. downs' \in Seq(Nat) /\ Len(downs') = Len(downs) + 1
    BY <1>1, <2>1, <2>2, <2>3
  <2>5. \A k \in DOMAIN downs' : downs'[k] = Len(ups) + 1 - k
    BY <1>1, <2>1, <2>2, <2>3 DEF NestInv
  <2>6. QED
    BY <1>1, <2>1, <2>2, <2>4, <2>5 DEF NestInv
<1>10. CASE EndShutdown
  <2>1. /\ StillUp = <<>> /\ phase' \in {"failed", "stopped"}
        /\ UNCHANGED <<plugins, ups, downs>>
    BY <1>10 DEF EndShutdown
  <2>2. Len(downs) = Len(ups)
    BY <2>1, NoneUp
  <2>3. QED
    BY <2>1, <2>2 DEF NestInv
<1>11. CASE Over \/ UNCHANGED vars
  <2>1. UNCHANGED <<plugins, ups, downs, phase>>
    BY <1>11 DEF Over, vars
  <2>2. QED
    BY <2>1 DEF NestInv
<1>12. QED
  BY <1>2, <1>3, <1>4, <1>5, <1>6, <1>7, <1>8, <1>9, <1>10, <1>11 DEF Next

\* The invariant says what the property says, place by place.
LEMMA NestInvNests == NestInv => PluginsNest
<1> SUFFICES ASSUME NestInv PROVE PluginsNest
  OBVIOUS
<1> DEFINE n == Len(ups)
           d == Len(downs)
           r == Reverse(ups)
<1>1. /\ n \in Nat /\ d \in Nat /\ d <= n /\ ups \in Seq(Nat) /\ downs \in Seq(Nat)
      /\ \A i \in 1 .. n : ups[i] = i
      /\ \A k \in 1 .. d : downs[k] = n + 1 - k
  BY DEF NestInv
<1>2. r \in Seq(Nat) /\ Len(r) = n /\ \A k \in 1 .. n : r[k] = n + 1 - k
  <2>1. r = [k \in 1 .. n |-> ups[(n - k) + 1]]
    BY DEF Reverse
  <2> HIDE DEF r, n
  <2>2. \A k \in 1 .. n : (n - k) + 1 \in 1 .. n /\ (n - k) + 1 = n + 1 - k
    BY <1>1
  <2>3. \A k \in 1 .. n : ups[(n - k) + 1] = n + 1 - k /\ n + 1 - k \in Nat
    BY <1>1, <2>2
  <2>4. r \in [1 .. n -> Nat]
    BY <2>1, <2>3
  <2>5. QED
    BY <1>1, <2>1, <2>3, <2>4
<1>3. ups = [i \in 1 .. Len(ups) |-> i]
  BY <1>1
<1> HIDE DEF r, n, d
<1>4. SubSeq(downs, 1, d) = SubSeq(r, 1, d)
  <2>1. SubSeq(downs, 1, d) = [k \in 1 .. d |-> downs[k]]
    BY <1>1 DEF d
  <2>2. SubSeq(r, 1, d) = [k \in 1 .. d |-> r[k]]
    BY <1>1, <1>2
  <2>3. \A k \in 1 .. d : k \in 1 .. n
    BY <1>1
  <2>4. \A k \in 1 .. d : downs[k] = r[k]
    BY <1>1, <1>2, <2>3
  <2>5. QED
    BY <2>1, <2>2, <2>4
<1>5. IsPrefix(downs, r)
  BY <1>1, <1>2, <1>4 DEF IsPrefix, d
<1>6. ASSUME d = n PROVE downs = r
  <2>1. downs = SubSeq(downs, 1, d)
    BY <1>1 DEF d
  <2>2. r = SubSeq(r, 1, n)
    BY <1>1, <1>2
  <2>3. QED
    BY <1>4, <1>6, <2>1, <2>2
<1>7. QED
  BY <1>3, <1>5, <1>6 DEF PluginsNest, NestInv, r, n, d

\* The nesting holds of a builder, the agent it builds and its shutdown.
THEOREM NestInvariant == HostSpec => []NestInv
<1>1. HostInit => NestInv
  BY NestInvInit DEF HostInit
<1>2. ASSUME NestInv, [HostNext]_hostVars PROVE NestInv'
  <2>1. [Next]_vars
    BY <1>2 DEF HostNext, BuilderStep, Dispatch, CallHandler, hostVars
  <2>2. QED
    BY <1>2, <2>1, NestInvStep
<1>3. QED
  BY <1>1, <1>2, PTL DEF HostSpec

\* PluginManager::build, its rollback and shutdown_plugins bring plugins down
\* in reverse, each once, and leave none up unless the build was dropped.
THEOREM PluginsAreNested == HostSpec => []PluginsNest
<1>1. QED
  BY NestInvariant, NestInvNests, PTL

----------------------------------------------------------------------------
(* Patches                                                                  *)

\* What stands in for a section: itself, or nothing if it is blank.
Unblank == [x \in Nat |-> IF x = 0 THEN <<>> ELSE <<x>>]

\* Dropping the blank sections is replacing each by what stands in for it.
LEMMA UnblankIs ==
  /\ Lists(Unblank, Nat, Nat)
  /\ \A s \in Seq(Nat) : NotBlank(s) = FlatMap(s, Unblank)
<1>1. Lists(Unblank, Nat, Nat)
  <2>1. \A x \in Nat : << >> \in Seq(Nat) /\ <<x>> \in Seq(Nat)
    OBVIOUS
  <2>2. QED
    BY <2>1 DEF Lists, Unblank
<1>2. ASSUME NEW s \in Seq(Nat) PROVE NotBlank(s) = FlatMap(s, Unblank)
  <2>1. \A i \in DOMAIN s : s[i] \in Nat
    OBVIOUS
  <2>2. [i \in DOMAIN s |-> IF s[i] = 0 THEN <<>> ELSE <<s[i]>>]
          = [i \in DOMAIN s |-> Unblank[s[i]]]
    BY <2>1 DEF Unblank
  <2>3. QED
    BY <2>2 DEF NotBlank, FlatMap
<1>3. QED
  BY <1>1, <1>2

\* The halves of a list are cleared of blanks each.
LEMMA NotBlankConcat ==
  \A s, t \in Seq(Nat) : NotBlank(s \o t) = NotBlank(s) \o NotBlank(t)
<1>1. Lists(Unblank, Nat, Nat) /\ \A s \in Seq(Nat) : NotBlank(s) = FlatMap(s, Unblank)
  BY UnblankIs
<1>2. \A s, t \in Seq(Nat) :
        FlatMap(s \o t, Unblank) = FlatMap(s, Unblank) \o FlatMap(t, Unblank)
  BY <1>1, FlatMapConcat
<1>3. \A s, t \in Seq(Nat) : s \o t \in Seq(Nat)
  OBVIOUS
<1>4. QED
  BY <1>1, <1>2, <1>3

\* What is left has no blank, and a list without a blank is left alone.
LEMMA NotBlankIs ==
  /\ NotBlank(<<>>) = << >>
  /\ \A s \in Seq(Nat) : NotBlank(s) \in Seq(Nat) /\ 0 \notin ToSet(NotBlank(s))
  /\ \A s \in Seq(Nat) : 0 \notin ToSet(s) => NotBlank(s) = s
<1>1. Lists(Unblank, Nat, Nat) /\ \A s \in Seq(Nat) : NotBlank(s) = FlatMap(s, Unblank)
  BY UnblankIs
<1>2. NotBlank(<<>>) = << >>
  <2>1. << >> \in Seq(Nat) /\ FlatMap(<<>>, Unblank) = << >>
    BY FlatMapEmpty
  <2>2. QED
    BY <1>1, <2>1
<1>3. \A s \in Seq(Nat) : NotBlank(s) \in Seq(Nat)
  BY <1>1, FlatMapType
<1>4. ASSUME NEW s \in Seq(Nat) PROVE 0 \notin ToSet(NotBlank(s))
  <2>1. ToSet(FlatMap(s, Unblank)) = UNION {ToSet(Unblank[s[i]]) : i \in DOMAIN s}
    BY <1>1, FlatMapRange
  <2>2. \A i \in DOMAIN s : 0 \notin ToSet(Unblank[s[i]])
    <3> TAKE i \in DOMAIN s
    <3>1. s[i] \in Nat
      OBVIOUS
    <3>2. CASE s[i] = 0
      BY <3>2 DEF Unblank, ToSet
    <3>3. CASE s[i] # 0
      BY <3>1, <3>3 DEF Unblank, ToSet
    <3>4. QED
      BY <3>2, <3>3
  <2>3. QED
    BY <1>1, <2>1, <2>2
<1>5. ASSUME NEW s \in Seq(Nat), 0 \notin ToSet(s) PROVE NotBlank(s) = s
  <2>1. \A i \in DOMAIN s : s[i] \in Nat /\ s[i] # 0
    BY <1>5 DEF ToSet
  <2>2. \A i \in DOMAIN s : Unblank[s[i]] = <<s[i]>>
    BY <2>1 DEF Unblank
  <2>3. FlatMap(s, Unblank) = s
    BY <2>2, FlatMapSame
  <2>4. QED
    BY <1>1, <2>3
<1>6. QED
  BY <1>2, <1>3, <1>4, <1>5

\* The bodies of a list of patches.
Bodies(list) == [i \in DOMAIN list |-> list[i].body]

\* One patch more adds its body.
LEMMA BodiesAppend ==
  ASSUME NEW list \in Seq(AnyPatch), NEW p \in AnyPatch
  PROVE  /\ Bodies(list) \in Seq(Seq(Nat)) /\ p.body \in Seq(Nat)
         /\ Bodies(Append(list, p)) = Append(Bodies(list), p.body)
<1> DEFINE D == Seq(Nat)
           b == Bodies(list)
<1>1. p.body \in D /\ \A i \in 1 .. Len(list) : list[i].body \in D
  <2>1. AnyPatch = [for : Patchable, body : D]
    BY DEF AnyPatch
  <2>2. \A i \in 1 .. Len(list) : list[i] \in AnyPatch
    OBVIOUS
  <2> HIDE DEF D
  <2>3. QED
    BY <2>1, <2>2
<1>2. /\ Len(list) \in Nat /\ DOMAIN list = 1 .. Len(list)
      /\ DOMAIN Append(list, p) = 1 .. (Len(list) + 1)
      /\ Append(list, p)[Len(list) + 1] = p
      /\ \A i \in 1 .. Len(list) : Append(list, p)[i] = list[i]
  OBVIOUS
<1>3. b \in [1 .. Len(list) -> D]
  <2> HIDE DEF D
  <2>1. QED
    BY <1>1, <1>2 DEF Bodies
<1>4. b \in Seq(D) /\ Len(b) = Len(list)
  <2> HIDE DEF D, b
  <2>1. QED
    BY <1>2, <1>3
<1>5. Bodies(Append(list, p)) = Append(b, p.body)
  <2> DEFINE c == Append(b, p.body)
             r == Append(list, p)
  <2>1. c = [i \in 1 .. (Len(list) + 1) |->
               IF i = Len(list) + 1 THEN p.body ELSE b[i]]
    <3> HIDE DEF D, b
    <3>1. QED
      BY <1>1, <1>4
  <2>2. \A i \in 1 .. Len(list) : b[i] = list[i].body
    BY <1>2 DEF Bodies
  <2> HIDE DEF r, b
  <2>3. \A i \in 1 .. (Len(list) + 1) :
          r[i].body = IF i = Len(list) + 1 THEN p.body ELSE b[i]
    <3> TAKE i \in 1 .. (Len(list) + 1)
    <3>1. CASE i = Len(list) + 1
      BY <1>2, <3>1 DEF r
    <3>2. CASE i # Len(list) + 1
      <4>1. i \in 1 .. Len(list)
        BY <1>2, <3>2
      <4>2. QED
        BY <1>2, <2>2, <3>2, <4>1 DEF r
    <3>3. QED
      BY <3>1, <3>2
  <2> HIDE DEF c
  <2>4. Bodies(r) = [i \in 1 .. (Len(list) + 1) |-> r[i].body]
    BY <1>2 DEF Bodies, r
  <2>5. QED
    BY <2>1, <2>3, <2>4 DEF c, r
<1>6. QED
  BY <1>1, <1>4, <1>5

\* An agent that has dispatched nothing satisfies the invariant.
LEMMA HookInvInit == NoDispatch => HookInv
<1> SUFFICES ASSUME NoDispatch PROVE HookInv
  OBVIOUS
<1>1. /\ called = << >> /\ returned = << >> /\ data = << >> /\ patch = None
      /\ event = "none"
  BY DEF NoDispatch
<1>2. called \in Seq(Seq(Nat)) /\ returned \in Seq(AnyPatch) /\ data \in Seq(Nat)
  BY <1>1
<1>3. ToSet(<<>>) = {}
  BY DEF ToSet
<1>4. PatchesAddUp
  BY <1>1, <1>3 DEF PatchesAddUp, AllPatches, Seen, Given, None
<1>5. QED
  BY <1>2, <1>4 DEF HookInv

\* Beginning a dispatch leaves nothing of the one before.
LEMMA HookInvBegin ==
  ASSUME HookInv, NEW e, NEW list, BeginDispatch(e, list)
  PROVE  HookInv'
<1>1. /\ called' = << >> /\ returned' = << >> /\ data' = Given(e) /\ patch' = None
      /\ event' = e
  BY DEF BeginDispatch
<1>2. data' \in Seq(Nat)
  <2>1. <<0>> \in Seq(Nat) /\ << >> \in Seq(Nat)
    OBVIOUS
  <2>2. QED
    BY <1>1, <2>1 DEF Given
<1>3. called' \in Seq(Seq(Nat)) /\ returned' \in Seq(AnyPatch)
  BY <1>1
<1>4. ToSet(<<>>) = {}
  BY DEF ToSet
<1>5. PatchesAddUp'
  BY <1>1, <1>4 DEF PatchesAddUp, AllPatches, Seen, Given, None
<1>6. QED
  BY <1>2, <1>3, <1>5 DEF HookInv

\* A patch that fits the event is of a list of numbers, and arguments that a
\* handler gives are not those of the caller.
LEMMA PatchTypes ==
  ASSUME NEW k \in Nat \ {0}, NEW p \in Patches(k), Fits(p)
  PROVE  /\ p \in AnyPatch /\ p.for = event /\ event \in Patchable
         /\ p.body \in Seq(Nat)
         /\ event = "BeforeToolUse" => 0 \notin ToSet(p.body)
<1>1. p.for = event /\ event \in Patchable
  BY DEF Fits
<1>2. << >> \in Seq(Nat) /\ <<0>> \in Seq(Nat) /\ <<k>> \in Seq(Nat) /\ <<0, k>> \in Seq(Nat)
  OBVIOUS
<1>3. p \in [for : Patchable, body : {<<>>, <<0>>, <<k>>, <<0, k>>}]
  BY <1>1 DEF Patches, Patchable
<1>4. p.body \in Seq(Nat)
  BY <1>2, <1>3
<1>5. p \in AnyPatch
  BY <1>3, <1>4 DEF AnyPatch
<1>6. ASSUME event = "BeforeToolUse" PROVE 0 \notin ToSet(p.body)
  <2>1. p.body = <<k>>
    BY <1>1, <1>6 DEF Patches
  <2>2. QED
    BY <2>1 DEF ToSet
<1>7. QED
  BY <1>1, <1>4, <1>5, <1>6

\* A handler's patch adds up with those before it.
LEMMA HookInvPatch ==
  ASSUME HookInv, NEW k \in DOMAIN handlers, HandlerPatches(k)
  PROVE  HookInv'
<1>1. /\ called \in Seq(Seq(Nat)) /\ returned \in Seq(AnyPatch) /\ data \in Seq(Nat)
      /\ PatchesAddUp
  BY DEF HookInv
<1>2. PICK p \in Patches(k) :
        /\ Fits(p) /\ data' = Applied(data, p) /\ patch' = Merged(patch, p)
        /\ returned' = Append(returned, p)
  BY DEF HandlerPatches
<1>3. k \in Nat \ {0} /\ called' = Append(called, data) /\ event' = event
  BY <1>1 DEF HandlerPatches, Calling
<1>4. /\ p \in AnyPatch /\ p.for = event /\ event \in Patchable /\ p.body \in Seq(Nat)
      /\ event = "BeforeToolUse" => 0 \notin ToSet(p.body)
  BY <1>2, <1>3, PatchTypes
<1> DEFINE ret == Append(returned, p)
           b == Bodies(returned)
<1>5. /\ b \in Seq(Seq(Nat)) /\ Bodies(ret) = Append(b, p.body)
      /\ ret \in Seq(AnyPatch) /\ ret # << >>
  <2>1. b \in Seq(Seq(Nat)) /\ Bodies(ret) = Append(b, p.body)
    BY <1>1, <1>4, BodiesAppend, Zenon
  <2>2. ret \in Seq(AnyPatch) /\ ret # << >>
    BY <1>1, <1>4, AppendProperties
  <2>3. QED
    BY <2>1, <2>2
<1>6. called' \in Seq(Seq(Nat)) /\ returned' \in Seq(AnyPatch)
  BY <1>1, <1>2, <1>3, <1>5
<1>7. \A q \in ToSet(ret) : q.for = event
  <2>1. ToSet(ret) = ToSet(returned) \cup {p}
    <3>1. /\ DOMAIN returned = 1 .. Len(returned) /\ Len(returned) \in Nat
          /\ DOMAIN ret = 1 .. (Len(returned) + 1)
          /\ ret[Len(returned) + 1] = p
          /\ \A i \in 1 .. Len(returned) : ret[i] = returned[i]
      BY <1>1, <1>4
    <3> HIDE DEF ret
    <3>2. DOMAIN ret = DOMAIN returned \cup {Len(returned) + 1}
      BY <3>1
    <3>3. QED
      BY <3>1, <3>2 DEF ToSet
  <2>2. \A q \in ToSet(returned) : q.for = event
    BY <1>1 DEF PatchesAddUp
  <2>3. QED
    BY <1>4, <2>1, <2>2
<1>8. CASE event = "TurnStart"
  <2> DEFINE f == FlattenSeq(b)
             new == NotBlank(p.body)
  <2>1. f \in Seq(Nat) /\ FlattenSeq(Append(b, p.body)) = f \o p.body
    BY <1>4, <1>5, FlattenType, FlattenAppend
  <2>2. /\ NotBlank(f) \in Seq(Nat) /\ new \in Seq(Nat) /\ 0 \notin ToSet(new)
        /\ NotBlank(f \o p.body) = NotBlank(f) \o new
        /\ f \o p.body \in Seq(Nat) /\ 0 \notin ToSet(NotBlank(f \o p.body))
    <3>1. NotBlank(f \o p.body) = NotBlank(f) \o new
      BY <1>4, <2>1, NotBlankConcat
    <3>2. f \o p.body \in Seq(Nat)
      BY <1>4, <2>1
    <3> HIDE DEF f
    <3>3. QED
      BY <1>4, <2>1, <3>1, <3>2, NotBlankIs
  <2>3. patch.body = NotBlank(f)
    <3>1. CASE returned = << >>
      <4>1. b = << >>
        BY <3>1 DEF Bodies
      <4>2. f = << >> /\ NotBlank(f) = << >>
        BY <4>1, FlattenEmpty, NotBlankIs
      <4>3. patch.body = << >>
        BY <1>1, <3>1 DEF PatchesAddUp, AllPatches, None
      <4>4. QED
        BY <4>2, <4>3
    <3>2. CASE returned # << >>
      BY <1>1, <1>8, <3>2 DEF PatchesAddUp, AllPatches, Some, Bodies
    <3>3. QED
      BY <3>1, <3>2
  <2>4. data = NotBlank(f)
    <3>1. 0 \notin ToSet(patch.body)
      BY <1>1 DEF PatchesAddUp
    <3>2. NotBlank(patch.body) = patch.body
      BY <2>2, <2>3, <3>1, NotBlankIs
    <3>3. << >> \o NotBlank(f) = NotBlank(f)
      BY <2>2
    <3>4. CASE patch.some
      BY <1>1, <1>8, <2>3, <3>2, <3>3, <3>4 DEF PatchesAddUp, Seen, Applied, Given
    <3>5. CASE ~patch.some
      <4>1. returned = << >>
        BY <1>1, <1>8, <3>5 DEF PatchesAddUp, AllPatches, Some
      <4>2. patch.body = << >>
        BY <1>1, <4>1 DEF PatchesAddUp, AllPatches, None
      <4>3. data = << >>
        BY <1>1, <1>8, <3>5 DEF PatchesAddUp, Seen, Given
      <4>4. QED
        BY <2>3, <4>2, <4>3
    <3>6. QED
      BY <3>4, <3>5
  <2>5. patch' = Some(NotBlank(f) \o new) /\ data' = NotBlank(f) \o new
    BY <1>2, <1>8, <2>3, <2>4 DEF Merged, Applied
  <2> HIDE DEF f, new
  <2>6. patch' = AllPatches(returned)'
    <3>1. AllPatches(returned)' = Some(NotBlank(FlattenSeq(Bodies(ret))))
      BY <1>2, <1>3, <1>5, <1>8 DEF AllPatches, Bodies
    <3>2. QED
      BY <1>5, <2>1, <2>2, <2>5, <3>1
  <2>7. data' = Seen(patch)'
    <3>1. patch'.some /\ patch'.body = NotBlank(f \o p.body)
      BY <2>2, <2>5 DEF Some
    <3>2. NotBlank(patch'.body) = patch'.body /\ << >> \o patch'.body = patch'.body
      <4> DEFINE x == f \o p.body
      <4>1. x \in Seq(Nat) /\ 0 \notin ToSet(NotBlank(x)) /\ patch'.body = NotBlank(x)
        BY <2>2, <3>1
      <4> HIDE DEF x
      <4>2. NotBlank(x) \in Seq(Nat)
        BY <4>1, NotBlankIs
      <4>3. << >> \o NotBlank(x) = NotBlank(x)
        BY <4>2
      <4>4. QED
        BY <4>1, <4>2, <4>3, NotBlankIs
    <3>3. QED
      BY <1>3, <1>8, <2>2, <2>5, <3>1, <3>2 DEF Seen, Applied, Given
  <2>8. 0 \notin ToSet(patch'.body) /\ data' \in Seq(Nat)
    BY <2>2, <2>5 DEF Some
  <2>9. PatchesAddUp'
    BY <1>2, <1>3, <1>7, <2>6, <2>7, <2>8 DEF PatchesAddUp
  <2>10. QED
    BY <1>6, <2>8, <2>9 DEF HookInv
<1>9. CASE event = "BeforeToolUse"
  <2>1. patch' = Some(p.body) /\ data' = p.body
    BY <1>2, <1>9 DEF Merged, Applied
  <2>2. Last(Bodies(ret)) = p.body
    BY <1>4, <1>5 DEF Last
  <2>3. patch' = AllPatches(returned)'
    <3>1. AllPatches(returned)' = Some(Last(Bodies(ret)))
      BY <1>2, <1>3, <1>5, <1>9 DEF AllPatches, Bodies
    <3>2. QED
      BY <2>1, <2>2, <3>1
  <2>4. data' = Seen(patch)'
    BY <1>3, <1>9, <2>1 DEF Seen, Applied, Given, Some
  <2>5. 0 \notin ToSet(patch'.body) /\ data' \in Seq(Nat)
    BY <1>4, <1>9, <2>1 DEF Some
  <2>6. PatchesAddUp'
    BY <1>2, <1>3, <1>7, <2>3, <2>4, <2>5 DEF PatchesAddUp
  <2>7. QED
    BY <1>6, <2>5, <2>6 DEF HookInv
<1>10. QED
  BY <1>4, <1>8, <1>9 DEF Patchable

\* Every step of a dispatch preserves the invariant, and nothing else touches it.
LEMMA HookInvStep == HookInv /\ [HostNext]_hostVars => HookInv'
<1> SUFFICES ASSUME HookInv, [HostNext]_hostVars PROVE HookInv'
  OBVIOUS
<1>1. CASE UNCHANGED hookVars
  BY <1>1 DEF hookVars, HookInv, PatchesAddUp, AllPatches, Seen, Applied, Given
<1>2. CASE Dispatch
  BY <1>2, HookInvBegin DEF Dispatch
<1>3. ASSUME NEW k \in DOMAIN handlers, HandlerContinues(k) \/ HandlerStops(k)
      PROVE  HookInv'
  <2>1. called' = Append(called, data) /\ UNCHANGED <<event, returned, data, patch>>
    BY <1>3 DEF HandlerContinues, HandlerStops, Calling
  <2>2. called' \in Seq(Seq(Nat))
    BY <2>1 DEF HookInv
  <2>3. PatchesAddUp'
    BY <2>1 DEF HookInv, PatchesAddUp, AllPatches, Seen, Applied, Given
  <2>4. QED
    BY <2>1, <2>2, <2>3 DEF HookInv
<1>4. ASSUME NEW k \in DOMAIN handlers, HandlerPatches(k) PROVE HookInv'
  BY <1>4, HookInvPatch
<1>5. QED
  BY <1>1, <1>2, <1>3, <1>4
     DEF HostNext, BuilderStep, CallHandler, DispatchStep, hostVars

\* The patches of a dispatch are lists, and add up.
THEOREM HookInvariant == HostSpec => []HookInv
<1>1. HostInit => HookInv
  BY HookInvInit DEF HostInit
<1>2. QED
  BY <1>1, HookInvStep, PTL DEF HostSpec

\* HookRegistry::dispatch hands each handler, and then the caller, what all
\* accepted patches amount to.
THEOREM PatchesOfHandlersAddUp == HostSpec => []PatchesAddUp
<1>1. HookInv => PatchesAddUp
  BY DEF HookInv
<1>2. QED
  BY <1>1, HookInvariant, PTL

----------------------------------------------------------------------------
(* Taps and handlers                                                        *)

\* A registration, and the registrations of all plugins, plugin by plugin.
Registration == [event : STRING, plugin : Nat]
AllTaps == [i \in DOMAIN plugins |-> Taps(i)]

\* The registrations that stand in for one when only event e is of interest,
\* and the plugins that do.
ForEvent(e)  == [r \in Registration |-> IF r.event = e THEN <<r>> ELSE <<>>]
PluginOf     == [r \in Registration |-> r.plugin]
Tapping(e)   == [r \in Registration |-> IF r.event = e THEN <<r.plugin>> ELSE <<>>]

\* What the plugins tap are lists of registrations.
LEMMA TapsType ==
  ASSUME plugins \in Seq(Plugins)
  PROVE  /\ \A i \in DOMAIN plugins : Taps(i) \in Seq(Registration)
         /\ AllTaps \in Seq(Seq(Registration))
<1>1. /\ DOMAIN plugins = 1 .. Len(plugins) /\ Len(plugins) \in Nat
      /\ \A i \in DOMAIN plugins : plugins[i] \in Plugins
  OBVIOUS
<1>2. ASSUME NEW i \in DOMAIN plugins PROVE Taps(i) \in Seq(Registration)
  <2> DEFINE taps == plugins[i].taps
  <2>1. taps \in Seq(STRING) /\ i \in Nat
    BY <1>1, BuilderAssumption
  <2>2. DOMAIN taps = 1 .. Len(taps) /\ Len(taps) \in Nat /\ \A k \in DOMAIN taps : taps[k] \in STRING
    BY <2>1
  <2>3. Taps(i) = [k \in DOMAIN taps |-> [event |-> taps[k], plugin |-> i]]
    BY DEF Taps
  <2> HIDE DEF taps
  <2>4. \A k \in DOMAIN taps : [event |-> taps[k], plugin |-> i] \in Registration
    BY <2>1, <2>2 DEF Registration
  <2>5. Taps(i) \in [1 .. Len(taps) -> Registration]
    BY <2>2, <2>3, <2>4
  <2>6. QED
    BY <2>2, <2>5
<1>3. AllTaps \in Seq(Seq(Registration))
  <2> DEFINE D == Seq(Registration)
  <2>1. \A i \in DOMAIN plugins : Taps(i) \in D
    BY <1>2
  <2> HIDE DEF D
  <2>2. AllTaps \in [1 .. Len(plugins) -> D]
    BY <1>1, <2>1 DEF AllTaps
  <2>3. AllTaps \in Seq(D)
    BY <1>1, <2>2
  <2>4. QED
    BY <2>3 DEF D
<1>4. QED
  BY <1>2, <1>3

\* The functions replace a registration by lists of their kind.
LEMMA TapFunctions ==
  ASSUME NEW e
  PROVE  /\ Lists(ForEvent(e), Registration, Registration)
         /\ Lists(Tapping(e), Registration, Nat)
         /\ Elements(PluginOf, Registration, Nat)
         /\ ImageOfLists(ForEvent(e), Registration, PluginOf) = Tapping(e)
<1>1. ASSUME NEW r \in Registration
      PROVE  /\ <<r>> \in Seq(Registration) /\ << >> \in Seq(Registration)
             /\ r.plugin \in Nat /\ <<r.plugin>> \in Seq(Nat) /\ << >> \in Seq(Nat)
  <2>1. r.plugin \in Nat
    BY DEF Registration
  <2>2. QED
    BY <2>1
<1>2. Lists(ForEvent(e), Registration, Registration)
  BY <1>1 DEF Lists, ForEvent
<1>3. Lists(Tapping(e), Registration, Nat)
  BY <1>1 DEF Lists, Tapping
<1>4. Elements(PluginOf, Registration, Nat)
  BY <1>1 DEF PluginOf, Elements
<1>5. ASSUME NEW r \in Registration
      PROVE  [k \in DOMAIN ForEvent(e)[r] |-> PluginOf[ForEvent(e)[r][k]]] = Tapping(e)[r]
  <2>1. CASE r.event = e
    <3>1. ForEvent(e)[r] = <<r>> /\ Tapping(e)[r] = <<r.plugin>> /\ PluginOf[r] = r.plugin
      BY <2>1 DEF ForEvent, Tapping, PluginOf
    <3>2. [k \in DOMAIN <<r>> |-> PluginOf[<<r>>[k]]] = <<PluginOf[r]>>
      OBVIOUS
    <3>3. QED
      BY <3>1, <3>2
  <2>2. CASE r.event # e
    <3>1. ForEvent(e)[r] = << >> /\ Tapping(e)[r] = << >>
      BY <2>2 DEF ForEvent, Tapping
    <3>2. [k \in DOMAIN << >> |-> PluginOf[<< >>[k]]] = << >>
      OBVIOUS
    <3>3. QED
      BY <3>1, <3>2
  <2>3. QED
    BY <2>1, <2>2
<1>6. ImageOfLists(ForEvent(e), Registration, PluginOf) = Tapping(e)
  <2>1. Tapping(e) = [x \in Registration |-> Tapping(e)[x]]
    BY DEF Tapping
  <2>2. QED
    BY <1>5, <2>1 DEF ImageOfLists, Image
<1>7. QED
  BY <1>2, <1>3, <1>4, <1>6

\* The registry's handlers for an event are those of the plugins that tap it.
LEMMA HandlersAreTappers ==
  ASSUME plugins \in Seq(Plugins), registry = FlattenSeq(AllTaps), NEW e
  PROVE  /\ HandlersFor(e) \in Seq(Registration)
         /\ [k \in DOMAIN HandlersFor(e) |-> HandlersFor(e)[k].plugin] = Tappers(e)
<1>1. /\ \A i \in DOMAIN plugins : Taps(i) \in Seq(Registration)
      /\ AllTaps \in Seq(Seq(Registration)) /\ registry \in Seq(Registration)
  BY TapsType, FlattenType
<1>2. HandlersFor(e) = FlatMap(registry, ForEvent(e))
  <2>1. \A i \in DOMAIN registry : registry[i] \in Registration
    BY <1>1
  <2>2. [i \in DOMAIN registry |-> IF registry[i].event = e THEN <<registry[i]>> ELSE <<>>]
          = [i \in DOMAIN registry |-> ForEvent(e)[registry[i]]]
    BY <2>1 DEF ForEvent
  <2>3. QED
    BY <2>2 DEF HandlersFor, FlatMap
<1>3. HandlersFor(e) \in Seq(Registration)
  BY <1>1, <1>2, TapFunctions, FlatMapType
<1>4. [k \in DOMAIN HandlersFor(e) |-> HandlersFor(e)[k].plugin]
        = FlatMap(registry, Tapping(e))
  <2> DEFINE list == HandlersFor(e)
  <2>1. [k \in DOMAIN list |-> list[k].plugin] = [k \in DOMAIN list |-> PluginOf[list[k]]]
    <3>1. \A k \in DOMAIN list : list[k] \in Registration
      BY <1>3
    <3> HIDE DEF list
    <3>2. QED
      BY <3>1 DEF PluginOf
  <2>2. \A s \in Seq(Registration) :
          Image(FlatMap(s, ForEvent(e)), PluginOf) = FlatMap(s, Tapping(e))
    <3> DEFINE g == PluginOf
               h == ForEvent(e)
    <3>1. /\ Lists(h, Registration, Registration) /\ Elements(g, Registration, Nat)
          /\ ImageOfLists(h, Registration, g) = Tapping(e)
      BY TapFunctions
    <3> HIDE DEF g, h
    <3>2. \A s \in Seq(Registration) :
            Image(FlatMap(s, h), g) = FlatMap(s, ImageOfLists(h, Registration, g))
      BY <3>1, FlatMapImage
    <3>3. QED
      BY <3>1, <3>2 DEF g, h
  <2>3. QED
    BY <1>1, <1>2, <2>1, <2>2 DEF Image
<1>5. FlatMap(registry, Tapping(e))
        = FlattenSeq([i \in DOMAIN AllTaps |-> FlatMap(AllTaps[i], Tapping(e))])
  <2> DEFINE h == Tapping(e)
  <2>1. Lists(h, Registration, Nat)
    BY TapFunctions
  <2> HIDE DEF h
  <2>2. \A ss \in Seq(Seq(Registration)) :
          FlatMap(FlattenSeq(ss), h) = FlattenSeq([i \in DOMAIN ss |-> FlatMap(ss[i], h)])
    BY <2>1, FlatMapFlatten
  <2>3. QED
    BY <1>1, <2>2 DEF h
<1>6. ASSUME NEW i \in DOMAIN plugins
      PROVE  FlatMap(Taps(i), Tapping(e))
               = LET taps == plugins[i].taps IN
                 FlattenSeq([k \in DOMAIN taps |-> IF taps[k] = e THEN <<i>> ELSE <<>>])
  <2> DEFINE taps == plugins[i].taps
  <2>1. /\ DOMAIN Taps(i) = DOMAIN taps
        /\ \A k \in DOMAIN taps : Taps(i)[k] = [event |-> taps[k], plugin |-> i]
    BY DEF Taps
  <2>2. \A k \in DOMAIN taps : Taps(i)[k] \in Registration
    BY <1>1, <2>1
  <2>3. \A k \in DOMAIN taps :
          Tapping(e)[Taps(i)[k]] = IF taps[k] = e THEN <<i>> ELSE <<>>
    <3> HIDE DEF taps
    <3> TAKE k \in DOMAIN taps
    <3> DEFINE r == Taps(i)[k]
    <3>1. r \in Registration /\ r.event = taps[k] /\ r.plugin = i
      BY <2>1, <2>2
    <3> HIDE DEF r
    <3>2. Tapping(e)[r] = IF r.event = e THEN <<r.plugin>> ELSE <<>>
      BY <3>1 DEF Tapping
    <3>3. QED
      BY <3>1, <3>2 DEF r
  <2> HIDE DEF taps
  <2>4. [k \in DOMAIN Taps(i) |-> Tapping(e)[Taps(i)[k]]]
          = [k \in DOMAIN taps |-> IF taps[k] = e THEN <<i>> ELSE <<>>]
    <3> DEFINE h == Tapping(e)
               t == Taps(i)
               v(k) == IF taps[k] = e THEN <<i>> ELSE <<>>
    <3>1. DOMAIN t = DOMAIN taps /\ \A k \in DOMAIN taps : h[t[k]] = v(k)
      BY <2>1, <2>3
    <3> HIDE DEF h, t, v
    <3>2. [k \in DOMAIN t |-> h[t[k]]] = [k \in DOMAIN taps |-> v(k)]
      BY <3>1
    <3>3. QED
      BY <3>2 DEF h, t, v
  <2>5. QED
    BY <2>4 DEF FlatMap, taps
<1>7. [i \in DOMAIN AllTaps |-> FlatMap(AllTaps[i], Tapping(e))]
        = [i \in DOMAIN plugins |->
             LET taps == plugins[i].taps IN
             FlattenSeq([k \in DOMAIN taps |-> IF taps[k] = e THEN <<i>> ELSE <<>>])]
  BY <1>6 DEF AllTaps
<1>8. QED
  BY <1>3, <1>4, <1>5, <1>7 DEF Tappers

\* A handler of an event is of a plugin that has declared it.
LEMMA HandlersDeclared ==
  ASSUME plugins \in Seq(Plugins), registry = FlattenSeq(AllTaps), AppliesAll,
         NEW e, NEW k \in DOMAIN HandlersFor(e)
  PROVE  e \in plugins[HandlersFor(e)[k].plugin].declares
<1> DEFINE r == HandlersFor(e)[k]
<1>1. registry \in Seq(Registration) /\ AllTaps \in Seq(Seq(Registration))
  BY TapsType, FlattenType
<1>2. r \in ToSet(HandlersFor(e))
  BY DEF ToSet
<1>3. PICK i \in DOMAIN registry : r \in ToSet(ForEvent(e)[registry[i]])
  <2> DEFINE h == ForEvent(e)
  <2>1. HandlersFor(e) = FlatMap(registry, h)
    <3>1. \A i \in DOMAIN registry : registry[i] \in Registration
      BY <1>1
    <3>2. [i \in DOMAIN registry |-> IF registry[i].event = e THEN <<registry[i]>> ELSE <<>>]
            = [i \in DOMAIN registry |-> ForEvent(e)[registry[i]]]
      BY <3>1 DEF ForEvent
    <3>3. QED
      BY <3>2 DEF HandlersFor, FlatMap
  <2>2. Lists(h, Registration, Registration)
    BY TapFunctions
  <2> HIDE DEF h, r
  <2>3. ToSet(FlatMap(registry, h)) = UNION {ToSet(h[registry[i]]) : i \in DOMAIN registry}
    BY <1>1, <2>2, FlatMapRange
  <2>4. QED
    BY <1>2, <2>1, <2>3 DEF h
<1>4. r = registry[i] /\ r.event = e
  <2>1. registry[i] \in Registration
    BY <1>1
  <2>2. CASE registry[i].event = e
    <3>1. ForEvent(e)[registry[i]] = <<registry[i]>>
      BY <2>1, <2>2 DEF ForEvent
    <3>2. r = registry[i]
      BY <1>3, <3>1 DEF ToSet
    <3>3. QED
      BY <2>2, <3>2
  <2>3. CASE registry[i].event # e
    <3>1. ForEvent(e)[registry[i]] = << >>
      BY <2>1, <2>3 DEF ForEvent
    <3>2. QED
      BY <1>3, <3>1 DEF ToSet
  <2>4. QED
    BY <2>2, <2>3
<1>5. r \in ToSet(registry)
  BY <1>4 DEF ToSet
<1>6. PICK j \in DOMAIN plugins : r \in ToSet(Taps(j))
  <2> DEFINE Ix == DOMAIN plugins
             ids == [j \in Ix |-> j]
             h == [j \in Ix |-> Taps(j)]
  <2>1. h = AllTaps /\ [j \in DOMAIN ids |-> h[ids[j]]] = AllTaps
    BY DEF AllTaps
  <2>2. ids \in Seq(Ix)
    <3>1. Ix = 1 .. Len(plugins) /\ Len(plugins) \in Nat
      OBVIOUS
    <3> HIDE DEF Ix
    <3>2. ids \in [1 .. Len(plugins) -> Ix]
      BY <3>1
    <3>3. QED
      BY <3>1, <3>2
  <2>3. Lists(h, Ix, Registration)
    BY TapsType DEF Lists
  <2>4. \A j \in DOMAIN ids : j \in Ix /\ h[ids[j]] = Taps(j)
    OBVIOUS
  <2>5. FlatMap(ids, h) = registry
    BY <2>1 DEF FlatMap
  <2> HIDE DEF ids, h, r
  <2>6. ToSet(FlatMap(ids, h)) = UNION {ToSet(h[ids[j]]) : j \in DOMAIN ids}
    BY <2>2, <2>3, FlatMapRange
  <2>7. PICK j \in DOMAIN ids : r \in ToSet(h[ids[j]])
    BY <1>5, <2>5, <2>6
  <2>8. QED
    BY <2>4, <2>7
<1>7. \E n \in DOMAIN plugins[j].taps : r = [event |-> plugins[j].taps[n], plugin |-> j]
  <2> HIDE DEF r
  <2>1. QED
    BY <1>6 DEF Taps, ToSet
<1>8. r.plugin = j /\ r.event \in ToSet(plugins[j].taps)
  <2> HIDE DEF r
  <2>1. QED
    BY <1>7 DEF ToSet
<1>9. e \in plugins[j].declares
  BY <1>4, <1>8 DEF AppliesAll, BreaksContract
<1>10. QED
  BY <1>8, <1>9

\* Nothing is registered and dispatched yet.
LEMMA TapInvInit == HostInit => TapInv
<1> SUFFICES ASSUME HostInit PROVE TapInv
  OBVIOUS
<1>1. plugins = << >> /\ called = << >> /\ phase = "registering" /\ verdict = "none"
  BY DEF HostInit, Init, NoDispatch
<1>2. plugins \in Seq(Plugins) /\ called \in Seq(Seq(Nat))
  BY <1>1
<1>3. QED
  BY <1>1, <1>2 DEF TapInv

\* Steps of the builder, which dispatches nothing before there is an agent.
LEMMA TapInvBuilder ==
  ASSUME TapInv, Next, UNCHANGED hookVars
  PROVE  TapInv'
<1> USE DEF registered
<1>1. UNCHANGED <<event, handlers, called, verdict>>
  BY DEF hookVars
<1>2. plugins \in Seq(Plugins) /\ called' \in Seq(Seq(Nat)) /\ called' = called
  BY <1>1 DEF TapInv
<1>3. phase \in {"registering", "initialize", "rollback"} => verdict = "none" /\ called = << >>
  BY DEF TapInv
<1>4. ASSUME UNCHANGED <<plugins, registry>>
      PROVE  /\ HandlersFor(event)' = HandlersFor(event) /\ AppliesAll' = AppliesAll
             /\ FlattenSeq([i \in DOMAIN plugins |-> Taps(i)])'
                  = FlattenSeq([i \in DOMAIN plugins |-> Taps(i)])
  BY <1>1, <1>4 DEF HandlersFor, AppliesAll, BreaksContract, Taps
<1>5. ASSUME plugins' \in Seq(Plugins), verdict = "none", called = << >>,
             phase' \notin {"running", "shutdown"}
      PROVE  TapInv'
  BY <1>1, <1>2, <1>5 DEF TapInv
<1>6. CASE RegisterModelProvider \/ RegisterTool \/ RegisterSkill \/ RegisterStorage
           \/ RegisterPlugin
  <2>1. phase = "registering" /\ phase' = phase
    BY <1>6 DEF RegisterModelProvider, RegisterTool, RegisterSkill, RegisterStorage,
       RegisterPlugin, Registering
  <2>2. plugins' = plugins \/ \E p \in Plugins : plugins' = Append(plugins, p)
    BY <1>6 DEF RegisterModelProvider, RegisterTool, RegisterSkill, RegisterStorage,
       RegisterPlugin
  <2>3. plugins' \in Seq(Plugins)
    <3>1. plugins \in Seq(Plugins)
      BY <1>2
    <3>2. QED
      BY <2>2, <3>1
  <2>4. QED
    BY <1>3, <1>5, <2>1, <2>3
<1>7. CASE Build \/ InitializePlugin \/ DropBuild
  <2>1. /\ phase \in {"registering", "initialize", "rollback"} /\ plugins' = plugins
        /\ phase' \in {"initialize", "failed", "rollback", "dropped"}
    BY <1>7 DEF Build, InitializePlugin, DropBuild
  <2>2. QED
    BY <1>2, <1>3, <1>5, <2>1
<1>8. CASE ApplyPlugins
  <2>1. phase = "initialize" /\ plugins' = plugins
    BY <1>8 DEF ApplyPlugins
  <2>2. CASE AppliesAll
    <3>1. registry' = FlattenSeq([i \in DOMAIN plugins |-> Taps(i)]) /\ phase' = "running"
      BY <1>8, <2>2 DEF ApplyPlugins
    <3>2. AppliesAll' /\ registry' = FlattenSeq([i \in DOMAIN plugins |-> Taps(i)])'
      BY <2>1, <2>2, <3>1 DEF AppliesAll, BreaksContract, Taps
    <3>3. QED
      BY <1>1, <1>2, <1>3, <2>1, <3>1, <3>2 DEF TapInv
  <2>3. CASE ~AppliesAll
    <3>1. phase' = "rollback"
      BY <1>8, <2>3 DEF ApplyPlugins
    <3>2. QED
      BY <1>2, <1>3, <1>5, <2>1, <3>1
  <2>4. QED
    BY <2>2, <2>3
<1>9. CASE BeginShutdown
  <2>1. phase = "running" /\ phase' = "shutdown" /\ UNCHANGED <<plugins, registry>>
    BY <1>9 DEF BeginShutdown
  <2>2. QED
    BY <1>1, <1>2, <1>4, <2>1 DEF TapInv
<1>10. CASE ShutdownPlugin \/ Over
  <2>1. UNCHANGED <<plugins, registry, phase>>
    BY <1>10 DEF ShutdownPlugin, Over, vars
  <2>2. QED
    BY <1>1, <1>2, <1>4, <2>1 DEF TapInv
<1>11. CASE EndShutdown
  <2>1. /\ phase \in {"rollback", "shutdown"} /\ UNCHANGED <<plugins, registry>>
        /\ phase' = IF phase = "rollback" THEN "failed" ELSE "stopped"
    BY <1>11 DEF EndShutdown
  <2>2. CASE phase = "rollback"
    BY <1>2, <1>3, <1>5, <2>1, <2>2
  <2>3. CASE phase = "shutdown"
    BY <1>1, <1>2, <1>4, <2>1, <2>3 DEF TapInv
  <2>4. QED
    BY <2>1, <2>2, <2>3
<1>12. QED
  BY <1>6, <1>7, <1>8, <1>9, <1>10, <1>11 DEF Next

\* Steps of a dispatch, which change nothing that was registered.
LEMMA TapInvDispatch ==
  ASSUME TapInv, HookInv, Dispatch \/ CallHandler
  PROVE  TapInv'
<1>1. UNCHANGED <<plugins, registry, phase>>
  BY DEF Dispatch, CallHandler, vars, registered
<1>2. /\ AppliesAll' = AppliesAll
      /\ FlattenSeq([i \in DOMAIN plugins |-> Taps(i)])'
           = FlattenSeq([i \in DOMAIN plugins |-> Taps(i)])
      /\ \A e : HandlersFor(e)' = HandlersFor(e)
  BY <1>1 DEF HandlersFor, AppliesAll, BreaksContract, Taps
<1>3. plugins \in Seq(Plugins) /\ called \in Seq(Seq(Nat)) /\ data \in Seq(Nat)
  BY DEF TapInv, HookInv
<1>4. CASE Dispatch
  <2>1. PICK e \in Events : BeginDispatch(e, HandlersFor(e))
    BY <1>4 DEF Dispatch
  <2>2. /\ phase \in {"running", "shutdown"}
        /\ event' = e /\ handlers' = HandlersFor(e) /\ called' = << >>
        /\ verdict' = IF HandlersFor(e) = << >> THEN "continue" ELSE "running"
    BY <1>4, <2>1 DEF Dispatch, BeginDispatch
  <2>3. AppliesAll /\ registry = FlattenSeq([i \in DOMAIN plugins |-> Taps(i)])
    BY <2>2 DEF TapInv
  <2>4. HandlersFor(e) \in Seq(Registration)
    BY <1>3, <2>3, HandlersAreTappers DEF AllTaps
  <2>5. Len(called') = 0 /\ Len(HandlersFor(e)) \in Nat /\ called' \in Seq(Seq(Nat))
    BY <2>2, <2>4
  <2>6. HandlersFor(e) = << >> => Len(HandlersFor(e)) = 0
    OBVIOUS
  <2> HIDE DEF HandlersFor
  <2>7. handlers' = HandlersFor(event)' /\ Len(called') <= Len(handlers')
    BY <1>2, <2>2, <2>5
  <2>8. verdict' = "continue" => Len(called') = Len(handlers')
    BY <2>2, <2>5, <2>6
  <2>9. QED
    BY <1>1, <1>2, <1>3, <2>2, <2>3, <2>5, <2>7, <2>8 DEF TapInv
<1>5. CASE CallHandler
  <2>1. PICK k \in DOMAIN handlers :
          HandlerContinues(k) \/ HandlerPatches(k) \/ HandlerStops(k)
    BY <1>5 DEF CallHandler, DispatchStep
  <2>2. /\ verdict = "running" /\ k = Len(called) + 1
        /\ called' = Append(called, data) /\ UNCHANGED <<event, handlers>>
        /\ verdict' \in {AfterCall(k), "aborted", "violated"}
    BY <2>1 DEF HandlerContinues, HandlerPatches, HandlerStops, Calling
  <2>3. /\ phase \in {"running", "shutdown", "stopped"} /\ handlers = HandlersFor(event)
        /\ AppliesAll /\ registry = FlattenSeq([i \in DOMAIN plugins |-> Taps(i)])
    BY <2>2 DEF TapInv
  <2>4. handlers \in Seq(Registration)
    BY <1>3, <2>3, HandlersAreTappers DEF AllTaps
  <2>5. called' \in Seq(Seq(Nat)) /\ Len(called') = k /\ k \in 1 .. Len(handlers)
    BY <1>3, <2>2, <2>4
  <2>6. verdict' # "none" /\ (verdict' = "continue" => k = Len(handlers))
    BY <2>2 DEF AfterCall
  <2>7. Len(called') <= Len(handlers') /\ handlers' = HandlersFor(event)'
    BY <1>2, <2>2, <2>3, <2>5
  <2>8. QED
    BY <1>1, <1>2, <1>3, <2>2, <2>3, <2>5, <2>6, <2>7 DEF TapInv
<1>6. QED
  BY <1>4, <1>5

\* The registry and the dispatch agree with what the plugins tapped.
THEOREM TapInvariant == HostSpec => []TapInv
<1>1. TapInv /\ HookInv /\ [HostNext]_hostVars => TapInv'
  <2> SUFFICES ASSUME TapInv, HookInv, [HostNext]_hostVars PROVE TapInv'
    OBVIOUS
  <2>1. CASE UNCHANGED hostVars
    BY <2>1 DEF hostVars, vars, hookVars, registered, TapInv, HandlersFor, AppliesAll,
       BreaksContract, Taps
  <2>2. CASE BuilderStep
    BY <2>2, TapInvBuilder DEF BuilderStep
  <2>3. CASE Dispatch \/ CallHandler
    BY <2>3, TapInvDispatch
  <2>4. QED
    BY <2>1, <2>2, <2>3 DEF HostNext
<1>2. QED
  BY <1>1, TapInvInit, HookInvariant, PTL DEF HostSpec

\* PluginManager::build and HookRegistry::dispatch: every tap of every plugin
\* has its call, in order, and nobody is called about what it did not declare.
THEOREM EveryTapIsCalled == HostSpec => []EveryTapCalled
<1>1. TapInv => EveryTapCalled
  <2> SUFFICES ASSUME TapInv PROVE EveryTapCalled
    OBVIOUS
  <2>1. plugins \in Seq(Plugins) /\ called \in Seq(Seq(Nat))
    BY DEF TapInv
  <2>2. CASE verdict = "none"
    <3>1. DOMAIN called = {} /\ verdict # "continue"
      BY <2>2 DEF TapInv
    <3>2. QED
      BY <2>2, <3>1 DEF EveryTapCalled
  <2>3. CASE verdict # "none"
    <3>1. /\ AppliesAll /\ registry = FlattenSeq(AllTaps)
          /\ handlers = HandlersFor(event) /\ Len(called) <= Len(handlers)
          /\ verdict = "continue" => Len(called) = Len(handlers)
      BY <2>3 DEF TapInv, AllTaps
    <3>2. /\ handlers \in Seq(Registration)
          /\ [k \in DOMAIN handlers |-> handlers[k].plugin] = Tappers(event)
      BY <2>1, <3>1, HandlersAreTappers
    <3>3. DOMAIN Tappers(event) = 1 .. Len(handlers) /\ Len(handlers) \in Nat
      BY <3>2
    <3>4. Len(Tappers(event)) = Len(handlers)
      BY <3>3
    <3>5. \A k \in DOMAIN called : k \in DOMAIN handlers
      BY <2>1, <3>1, <3>2
    <3>6. \A k \in DOMAIN called : event \in plugins[handlers[k].plugin].declares
      BY <2>1, <3>1, <3>5, HandlersDeclared
    <3>7. QED
      BY <3>1, <3>2, <3>4, <3>6 DEF EveryTapCalled
  <2>4. QED
    BY <2>2, <2>3
<1>2. QED
  BY <1>1, TapInvariant, PTL
----------------------------------------------------------------------------
(* Validation, registration by registration                                 *)

Entry(NM)   == [name : NM, fits : BOOLEAN]
Names(NM)   == [names : SUBSET NM, ok : BOOLEAN]

\* A name more leaves a registry of names.
LEMMA AddNameType ==
  ASSUME NEW NM, NEW r \in Names(NM), NEW x \in Entry(NM)
  PROVE  AddName(r, x) \in Names(NM)
BY DEF AddName, Rejected, Names, Entry

\* NamesOf goes through the entries one by one.
LEMMA NamesRun ==
  ASSUME NEW NM, NEW s \in Seq(Entry(NM))
  PROVE  \E f : /\ f[0] = NoNames
                /\ \A i \in 1 .. Len(s) : f[i] = AddName(f[i - 1], s[i])
                /\ NamesOf(s) = f[Len(s)]
<1> DEFINE N == Len(s)
           P == SUBSET (1 .. N)
           S == Names(NM)
           step == [p \in (1 .. N) \X S |-> AddName(p[2], s[p[1]])]
           E(it) == it = [t \in P |->
                      IF t = {} THEN NoNames ELSE AddName(it[t \ {Max(t)}], s[Max(t)])]
           c == CHOOSE it : E(it)
<1>1. N \in Nat /\ DOMAIN s = 1 .. N /\ \A i \in 1 .. N : s[i] \in Entry(NM)
  OBVIOUS
<1>2. NamesOf(s) = c[1 .. N]
  BY <1>1 DEF NamesOf, FoldLeft, MapThenFoldSet
<1>3. step \in Steps(N, S)
  BY <1>1, AddNameType DEF Steps
<1>4. \A i \in 1 .. N, r \in S : step[<<i, r>>] = AddName(r, s[i])
  BY <1>1
<1>5. NoNames \in S
  BY DEF NoNames, Names
<1> HIDE DEF N, S, step
<1>6. PICK it \in DownSets(N, S, NoNames, step) : TRUE
  BY <1>1, <1>3, <1>5, SubsetRecursion
<1>7. it \in [P -> S] /\ it[{}] = NoNames
      /\ \A t \in P : t # {} => it[t] = step[<<Max(t), it[t \ {Max(t)}]>>]
  BY <1>6 DEF DownSets
<1>8. \A t \in P : t # {} => Max(t) \in 1 .. N /\ t \ {Max(t)} \in P
  BY <1>1, MaxOfPlaces
<1>9. \A t \in P : t # {} => it[t] = AddName(it[t \ {Max(t)}], s[Max(t)])
  BY <1>4, <1>7, <1>8
<1>10. E(it)
  <2> HIDE DEF P
  <2> DEFINE r == [t \in P |->
               IF t = {} THEN NoNames ELSE AddName(it[t \ {Max(t)}], s[Max(t)])]
  <2>1. it = [t \in P |-> it[t]]
    BY <1>7
  <2>2. \A t \in P : it[t] = IF t = {} THEN NoNames ELSE AddName(it[t \ {Max(t)}], s[Max(t)])
    BY <1>7, <1>9
  <2>3. it = r
    BY <2>1, <2>2
  <2>4. QED
    BY <2>3
<1>11. E(c)
  <2> HIDE DEF E
  <2>1. QED
    BY <1>10
<1> HIDE DEF c
<1>12. c[{}] = NoNames
  BY <1>11
<1>13. ASSUME NEW i \in 1 .. N PROVE c[1 .. i] = AddName(c[1 .. (i - 1)], s[i])
  <2>1. /\ 1 .. i \in P /\ 1 .. i # {}
        /\ Max(1 .. i) = i /\ (1 .. i) \ {i} = 1 .. (i - 1)
    BY <1>1, FirstPlaces
  <2> DEFINE t == 1 .. i
  <2>2. t \in P /\ t # {} /\ Max(t) = i /\ t \ {i} = 1 .. (i - 1)
    BY <2>1
  <2> HIDE DEF t, P
  <2>3. c[t] = AddName(c[t \ {Max(t)}], s[Max(t)])
    BY <1>11, <2>2
  <2>4. QED
    BY <2>2, <2>3 DEF t
<1> DEFINE g == [i \in 0 .. N |-> c[1 .. i]]
<1>14. g[0] = NoNames
  <2>1. 1 .. 0 = {} /\ 0 \in 0 .. N
    BY <1>1
  <2>2. QED
    BY <1>12, <2>1
<1>15. ASSUME NEW i \in 1 .. N PROVE g[i] = AddName(g[i - 1], s[i])
  <2>1. i \in 0 .. N /\ i - 1 \in 0 .. N
    BY <1>1
  <2>2. g[i] = c[1 .. i] /\ g[i - 1] = c[1 .. (i - 1)]
    BY <2>1
  <2> HIDE DEF g
  <2>3. QED
    BY <1>13, <2>2
<1>16. NamesOf(s) = g[N]
  BY <1>1, <1>2
<1> HIDE DEF g
<1>17. QED
  BY <1>14, <1>15, <1>16 DEF N
\* The first n entries have different names; they all fit; their names.
Differ(s, n)  == \A i, j \in 1 .. n : s[i].name = s[j].name => i = j
Fitting(s, n) == \A i \in 1 .. n : s[i].fits
Upto(s, n)    == {s[i].name : i \in 1 .. n}

\* What a registry of the first n entries is.
Entered(r, s, n) ==
  /\ r.ok <=> Differ(s, n) /\ Fitting(s, n)
  /\ r.names \subseteq Upto(s, n)
  /\ Fitting(s, n) => r.names = Upto(s, n)

\* One entry more.
LEMMA EnteredStep ==
  ASSUME NEW NM, NEW s \in Seq(Entry(NM)), NEW n \in Nat, n + 1 <= Len(s),
         NEW r \in Names(NM), Entered(r, s, n)
  PROVE  Entered(AddName(r, s[n + 1]), s, n + 1)
<1> DEFINE x == s[n + 1]
           q == AddName(r, x)
<1>1. /\ \A i \in 1 .. (n + 1) : i \in 1 .. n \/ i = n + 1
      /\ \A i \in 1 .. n : i \in 1 .. (n + 1) /\ i # n + 1
      /\ n + 1 \in 1 .. (n + 1)
  OBVIOUS
<1>2. x.fits \in BOOLEAN /\ n + 1 \in 1 .. Len(s)
  <2>1. n + 1 \in 1 .. Len(s)
    OBVIOUS
  <2>2. x \in Entry(NM)
    BY <2>1
  <2> HIDE DEF x
  <2>3. QED
    BY <2>1, <2>2 DEF Entry
<1>3. Upto(s, n + 1) = Upto(s, n) \cup {x.name}
  BY <1>1 DEF Upto
<1>4. Fitting(s, n + 1) <=> Fitting(s, n) /\ x.fits
  BY <1>1 DEF Fitting
<1>5. Differ(s, n + 1) <=> Differ(s, n) /\ x.name \notin Upto(s, n)
  <2>1. ASSUME Differ(s, n + 1) PROVE Differ(s, n) /\ x.name \notin Upto(s, n)
    <3>1. \A i \in 1 .. n : s[i].name # x.name
      BY <1>1, <2>1 DEF Differ
    <3>2. x.name \notin Upto(s, n)
      BY <3>1 DEF Upto
    <3>3. Differ(s, n)
      BY <1>1, <2>1 DEF Differ
    <3>4. QED
      BY <3>2, <3>3
  <2>2. ASSUME Differ(s, n), x.name \notin Upto(s, n) PROVE Differ(s, n + 1)
    <3>1. \A i \in 1 .. n : s[i].name # x.name
      BY <2>2 DEF Upto
    <3>2. QED
      BY <1>1, <2>2, <3>1 DEF Differ
  <2>3. QED
    BY <2>1, <2>2
<1>6. r.names \in SUBSET NM /\ r.ok \in BOOLEAN
  BY DEF Names
<1> HIDE DEF x
<1>7. CASE x.name \in r.names \/ ~x.fits
  <2>1. q.ok = FALSE /\ q.names = r.names
    BY <1>7 DEF AddName, Rejected, Names
  <2>2. ~(Differ(s, n + 1) /\ Fitting(s, n + 1))
    BY <1>4, <1>5, <1>7 DEF Entered
  <2>3. Fitting(s, n + 1) => x.name \in r.names
    BY <1>4, <1>7
  <2> HIDE DEF q
  <2>4. QED
    BY <1>3, <1>4, <2>1, <2>2, <2>3 DEF Entered, q, x
<1>8. CASE ~(x.name \in r.names \/ ~x.fits)
  <2>1. q.ok = r.ok /\ q.names = r.names \cup {x.name}
    BY <1>8 DEF AddName, Names
  <2> HIDE DEF q
  <2>2. Fitting(s, n) => Upto(s, n) = r.names
    BY DEF Entered
  <2>3. Differ(s, n + 1) /\ Fitting(s, n + 1) <=> Differ(s, n) /\ Fitting(s, n)
    BY <1>4, <1>5, <1>8, <2>2
  <2>4. q.ok <=> Differ(s, n + 1) /\ Fitting(s, n + 1)
    BY <2>1, <2>3 DEF Entered
  <2>5. QED
    BY <1>3, <1>4, <2>1, <2>2, <2>4 DEF Entered, q, x
<1>9. QED
  BY <1>7, <1>8

\* The registry accepts exactly the entries with different names that fit, and
\* holds the names of entries that fit.
LEMMA NamesAre ==
  ASSUME NEW NM, NEW s \in Seq(Entry(NM))
  PROVE  NamesOf(s) \in Names(NM) /\ Entered(NamesOf(s), s, Len(s))
<1>1. PICK f : /\ f[0] = NoNames
               /\ \A i \in 1 .. Len(s) : f[i] = AddName(f[i - 1], s[i])
               /\ NamesOf(s) = f[Len(s)]
  BY NamesRun
<1> DEFINE A == {n \in Nat : n <= Len(s) => f[n] \in Names(NM) /\ Entered(f[n], s, n)}
<1>2. 0 \in A
  <2>1. NoNames \in Names(NM)
    BY DEF NoNames, Names
  <2>2. \A i : i \notin 1 .. 0
    OBVIOUS
  <2>3. Entered(NoNames, s, 0)
    BY <2>2 DEF NoNames, Entered, Differ, Fitting, Upto
  <2>4. QED
    BY <1>1, <2>1, <2>3
<1>3. ASSUME NEW n \in Nat, n \in A PROVE n + 1 \in A
  <2> SUFFICES ASSUME n + 1 <= Len(s)
               PROVE  f[n + 1] \in Names(NM) /\ Entered(f[n + 1], s, n + 1)
    OBVIOUS
  <2>1. n <= Len(s) /\ n + 1 \in 1 .. Len(s) /\ (n + 1) - 1 = n /\ Len(s) \in Nat
    OBVIOUS
  <2>2. f[n] \in Names(NM) /\ Entered(f[n], s, n)
    BY <1>3, <2>1
  <2>3. f[n + 1] = AddName(f[n], s[n + 1])
    BY <1>1, <2>1
  <2>4. s[n + 1] \in Entry(NM)
    BY <2>1
  <2>5. QED
    BY <2>2, <2>3, <2>4, AddNameType, EnteredStep
<1> HIDE DEF A
<1>4. Nat \subseteq A
  BY <1>2, <1>3, SetInduction
<1>5. Len(s) \in Nat /\ Len(s) <= Len(s)
  OBVIOUS
<1>6. QED
  BY <1>1, <1>4, <1>5 DEF A
----------------------------------------------------------------------------
(* The model registry                                                       *)

ProviderIds == {p.id : p \in Providers}
Tables      == UNION {[D -> ProviderIds] : D \in SUBSET STRING}
Registries  == [ids : SUBSET ProviderIds, models : Tables, ok : BOOLEAN]

\* What is a table of models.
LEMMA TableParts ==
  ASSUME NEW t
  PROVE  t \in Tables <=> /\ t = [m \in DOMAIN t |-> t[m]]
                          /\ DOMAIN t \subseteq STRING
                          /\ \A m \in DOMAIN t : t[m] \in ProviderIds
<1>1. ASSUME t \in Tables
      PROVE  /\ t = [m \in DOMAIN t |-> t[m]]
             /\ DOMAIN t \subseteq STRING
             /\ \A m \in DOMAIN t : t[m] \in ProviderIds
  <2>1. PICK D \in SUBSET STRING : t \in [D -> ProviderIds]
    BY <1>1 DEF Tables
  <2>2. QED
    BY <2>1
<1>2. ASSUME t = [m \in DOMAIN t |-> t[m]], DOMAIN t \subseteq STRING,
             \A m \in DOMAIN t : t[m] \in ProviderIds
      PROVE  t \in Tables
  <2>1. t \in [DOMAIN t -> ProviderIds]
    BY <1>2
  <2>2. DOMAIN t \in SUBSET STRING
    BY <1>2
  <2>3. QED
    BY <2>1, <2>2 DEF Tables
<1>3. QED
  BY <1>1, <1>2

\* One model more: what was in the table stays.
LEMMA AddModelIs ==
  ASSUME NEW r \in Registries, NEW p \in Providers, NEW m \in STRING
  PROVE  LET q == AddModel(r, p, m) IN
         /\ q \in Registries /\ q.ids = r.ids
         /\ q.ok <=> r.ok /\ m \notin DOMAIN r.models
         /\ DOMAIN q.models = DOMAIN r.models \cup {m}
         /\ \A x \in DOMAIN q.models :
              q.models[x] = IF x \in DOMAIN r.models THEN r.models[x] ELSE p.id
<1> DEFINE q == AddModel(r, p, m)
           t == r.models
<1>1. r.ids \in SUBSET ProviderIds /\ t \in Tables /\ r.ok \in BOOLEAN
  BY DEF Registries
<1>2. p.id \in ProviderIds
  BY DEF ProviderIds
<1>3. CASE m \in DOMAIN t
  <2>1. q = [r EXCEPT !.ok = FALSE]
    BY <1>3 DEF AddModel, Rejected
  <2>2. q \in Registries /\ q.ids = r.ids /\ q.ok = FALSE /\ q.models = t
    BY <2>1 DEF Registries
  <2> HIDE DEF q
  <2>3. QED
    BY <1>3, <2>2 DEF q
<1>4. CASE m \notin DOMAIN t
  <2> DEFINE u == [x \in DOMAIN t \cup {m} |-> IF x = m THEN p.id ELSE t[x]]
  <2>1. q = [r EXCEPT !.models = u]
    BY <1>4 DEF AddModel
  <2>2. /\ DOMAIN u = DOMAIN t \cup {m}
        /\ u = [x \in DOMAIN u |-> u[x]]
        /\ \A x \in DOMAIN u : u[x] = IF x \in DOMAIN t THEN t[x] ELSE p.id
    BY <1>4
  <2> HIDE DEF u, t
  <2>3. u \in Tables
    BY <1>1, <1>2, <2>2, TableParts
  <2>4. q \in Registries /\ q.ids = r.ids /\ q.ok = r.ok /\ q.models = u
    BY <2>1, <2>3 DEF Registries
  <2> HIDE DEF q
  <2>5. QED
    BY <1>4, <2>2, <2>4 DEF q, t
<1>5. QED
  BY <1>3, <1>4
\* The registry in which the provider's models are entered.
WithId(r, p) == [r EXCEPT !.ids = @ \cup {p.id}]

\* AddModels goes through the provider's models one by one.
LEMMA AddModelsRun ==
  ASSUME NEW r \in Registries, NEW p \in Providers
  PROVE  \E f : /\ f[0] = WithId(r, p)
                /\ \A i \in 1 .. Len(p.models) : f[i] = AddModel(f[i - 1], p, p.models[i])
                /\ AddModels(r, p) = f[Len(p.models)]
<1> DEFINE s == p.models
           N == Len(s)
           P == SUBSET (1 .. N)
           S == Registries
           b == WithId(r, p)
           step == [x \in (1 .. N) \X S |-> AddModel(x[2], p, s[x[1]])]
           E(it) == it = [t \in P |->
                      IF t = {} THEN b ELSE AddModel(it[t \ {Max(t)}], p, s[Max(t)])]
           c == CHOOSE it : E(it)
<1>1. N \in Nat /\ DOMAIN s = 1 .. N /\ \A i \in 1 .. N : s[i] \in STRING
  <2>1. s \in Seq(STRING)
    BY BuilderAssumption
  <2> HIDE DEF s
  <2>2. QED
    BY <2>1
<1>2. AddModels(r, p) = c[1 .. N]
  BY <1>1 DEF AddModels, FoldLeft, MapThenFoldSet, WithId
<1>3. step \in Steps(N, S)
  BY <1>1, AddModelIs DEF Steps
<1>4. \A i \in 1 .. N, q \in S : step[<<i, q>>] = AddModel(q, p, s[i])
  BY <1>1
<1>5. b \in S
  BY DEF WithId, Registries, ProviderIds
<1> HIDE DEF N, S, step, s, b
<1>6. PICK it \in DownSets(N, S, b, step) : TRUE
  BY <1>1, <1>3, <1>5, SubsetRecursion
<1>7. it \in [P -> S] /\ it[{}] = b
      /\ \A t \in P : t # {} => it[t] = step[<<Max(t), it[t \ {Max(t)}]>>]
  BY <1>6 DEF DownSets
<1>8. \A t \in P : t # {} => Max(t) \in 1 .. N /\ t \ {Max(t)} \in P
  BY <1>1, MaxOfPlaces
<1>9. \A t \in P : t # {} => it[t] = AddModel(it[t \ {Max(t)}], p, s[Max(t)])
  BY <1>4, <1>7, <1>8
<1>10. E(it)
  <2> HIDE DEF P
  <2> DEFINE g == [t \in P |->
               IF t = {} THEN b ELSE AddModel(it[t \ {Max(t)}], p, s[Max(t)])]
  <2>1. it = [t \in P |-> it[t]]
    BY <1>7
  <2>2. \A t \in P : it[t] = IF t = {} THEN b ELSE AddModel(it[t \ {Max(t)}], p, s[Max(t)])
    BY <1>7, <1>9
  <2>3. it = g
    BY <2>1, <2>2
  <2>4. QED
    BY <2>3
<1>11. E(c)
  <2> HIDE DEF E
  <2>1. QED
    BY <1>10
<1> HIDE DEF c
<1>12. c[{}] = b
  BY <1>11
<1>13. ASSUME NEW i \in 1 .. N PROVE c[1 .. i] = AddModel(c[1 .. (i - 1)], p, s[i])
  <2>1. /\ 1 .. i \in P /\ 1 .. i # {}
        /\ Max(1 .. i) = i /\ (1 .. i) \ {i} = 1 .. (i - 1)
    BY <1>1, FirstPlaces
  <2> DEFINE t == 1 .. i
  <2>2. t \in P /\ t # {} /\ Max(t) = i /\ t \ {i} = 1 .. (i - 1)
    BY <2>1
  <2> HIDE DEF t, P
  <2>3. c[t] = AddModel(c[t \ {Max(t)}], p, s[Max(t)])
    BY <1>11, <2>2
  <2>4. QED
    BY <2>2, <2>3 DEF t
<1> DEFINE g == [i \in 0 .. N |-> c[1 .. i]]
<1>14. g[0] = b
  <2>1. 1 .. 0 = {} /\ 0 \in 0 .. N
    BY <1>1
  <2>2. QED
    BY <1>12, <2>1
<1>15. ASSUME NEW i \in 1 .. N PROVE g[i] = AddModel(g[i - 1], p, s[i])
  <2>1. i \in 0 .. N /\ i - 1 \in 0 .. N
    BY <1>1
  <2>2. g[i] = c[1 .. i] /\ g[i - 1] = c[1 .. (i - 1)]
    BY <2>1
  <2> HIDE DEF g
  <2>3. QED
    BY <1>13, <2>2
<1>16. AddModels(r, p) = g[N]
  BY <1>1, <1>2
<1> HIDE DEF g
<1>17. QED
  BY <1>14, <1>15, <1>16 DEF N, s, b

\* The first n models of the provider, each once and new.
ModelsTo(p, n) == {p.models[k] : k \in 1 .. n}
NewTo(r, p, n) ==
  /\ \A k, l \in 1 .. n : p.models[k] = p.models[l] => k = l
  /\ \A k \in 1 .. n : p.models[k] \notin DOMAIN r.models

\* What the registry r is with the first n models of p.
Added(q, r, p, n) ==
  /\ q \in Registries
  /\ q.ids = r.ids \cup {p.id}
  /\ q.ok <=> r.ok /\ NewTo(r, p, n)
  /\ DOMAIN q.models = DOMAIN r.models \cup ModelsTo(p, n)
  /\ \A x \in DOMAIN q.models :
       q.models[x] = IF x \in DOMAIN r.models THEN r.models[x] ELSE p.id

\* One model more.
LEMMA AddedStep ==
  ASSUME NEW r \in Registries, NEW p \in Providers, NEW n \in Nat,
         n + 1 <= Len(p.models), NEW q, Added(q, r, p, n)
  PROVE  Added(AddModel(q, p, p.models[n + 1]), r, p, n + 1)
<1> DEFINE m == p.models[n + 1]
           u == AddModel(q, p, m)
<1>1. /\ \A i \in 1 .. (n + 1) : i \in 1 .. n \/ i = n + 1
      /\ \A i \in 1 .. n : i \in 1 .. (n + 1) /\ i # n + 1
      /\ n + 1 \in 1 .. (n + 1)
  OBVIOUS
<1>2. m \in STRING
  <2> DEFINE s == p.models
  <2>1. s \in Seq(STRING) /\ n + 1 <= Len(s)
    BY BuilderAssumption
  <2> HIDE DEF s
  <2>2. s[n + 1] \in STRING
    BY <2>1
  <2>3. QED
    BY <2>2 DEF s
<1>3. ModelsTo(p, n + 1) = ModelsTo(p, n) \cup {m}
  BY <1>1 DEF ModelsTo
<1>4. NewTo(r, p, n + 1) <=>
        NewTo(r, p, n) /\ m \notin ModelsTo(p, n) /\ m \notin DOMAIN r.models
  <2>1. ASSUME NewTo(r, p, n + 1)
        PROVE  NewTo(r, p, n) /\ m \notin ModelsTo(p, n) /\ m \notin DOMAIN r.models
    BY <1>1, <2>1 DEF NewTo, ModelsTo
  <2>2. ASSUME NewTo(r, p, n), m \notin ModelsTo(p, n), m \notin DOMAIN r.models
        PROVE  NewTo(r, p, n + 1)
    <3>1. \A k \in 1 .. n : p.models[k] # m
      BY <2>2 DEF ModelsTo
    <3>2. QED
      BY <1>1, <2>2, <3>1 DEF NewTo
  <2>3. QED
    BY <2>1, <2>2
<1>5. /\ q \in Registries
      /\ q.ids = r.ids \cup {p.id}
      /\ q.ok <=> r.ok /\ NewTo(r, p, n)
      /\ DOMAIN q.models = DOMAIN r.models \cup ModelsTo(p, n)
      /\ \A x \in DOMAIN q.models :
           q.models[x] = IF x \in DOMAIN r.models THEN r.models[x] ELSE p.id
  BY DEF Added
<1> HIDE DEF m, u
<1>6. /\ u \in Registries /\ u.ids = q.ids
      /\ u.ok <=> q.ok /\ m \notin DOMAIN q.models
      /\ DOMAIN u.models = DOMAIN q.models \cup {m}
      /\ \A x \in DOMAIN u.models :
           u.models[x] = IF x \in DOMAIN q.models THEN q.models[x] ELSE p.id
  BY <1>2, <1>5, AddModelIs DEF u
<1>7. u.ok <=> r.ok /\ NewTo(r, p, n + 1)
  BY <1>4, <1>5, <1>6
<1>8. DOMAIN u.models = DOMAIN r.models \cup ModelsTo(p, n + 1)
  BY <1>3, <1>5, <1>6
<1>9. \A x \in DOMAIN u.models :
        u.models[x] = IF x \in DOMAIN r.models THEN r.models[x] ELSE p.id
  BY <1>5, <1>6
<1>10. QED
  BY <1>5, <1>6, <1>7, <1>8, <1>9 DEF Added, u, m

\* What the registry r is with all models of p.
LEMMA AddModelsAre ==
  ASSUME NEW r \in Registries, NEW p \in Providers
  PROVE  Added(AddModels(r, p), r, p, Len(p.models)) /\ Len(p.models) \in Nat
<1> DEFINE s == p.models
<1>1. PICK f : /\ f[0] = WithId(r, p)
               /\ \A i \in 1 .. Len(s) : f[i] = AddModel(f[i - 1], p, s[i])
               /\ AddModels(r, p) = f[Len(s)]
  BY AddModelsRun
<1>2. Len(s) \in Nat /\ Len(s) <= Len(s)
  <2>1. s \in Seq(STRING)
    BY BuilderAssumption
  <2> HIDE DEF s
  <2>2. QED
    BY <2>1
<1> DEFINE A == {n \in Nat : n <= Len(s) => Added(f[n], r, p, n)}
<1>3. 0 \in A
  <2> DEFINE b == WithId(r, p)
  <2>1. \A i : i \notin 1 .. 0
    OBVIOUS
  <2>2. b \in Registries /\ b.ids = r.ids \cup {p.id} /\ b.ok = r.ok /\ b.models = r.models
    BY DEF WithId, Registries, ProviderIds
  <2> HIDE DEF b
  <2>3. NewTo(r, p, 0) /\ ModelsTo(p, 0) = {}
    BY <2>1 DEF NewTo, ModelsTo
  <2>4. Added(b, r, p, 0)
    BY <2>2, <2>3 DEF Added
  <2>5. QED
    BY <1>1, <2>4 DEF b
<1>4. ASSUME NEW n \in Nat, n \in A PROVE n + 1 \in A
  <2> SUFFICES ASSUME n + 1 <= Len(s) PROVE Added(f[n + 1], r, p, n + 1)
    OBVIOUS
  <2>1. n <= Len(s) /\ n + 1 \in 1 .. Len(s) /\ (n + 1) - 1 = n
    BY <1>2
  <2>2. Added(f[n], r, p, n)
    BY <1>4, <2>1
  <2>3. f[n + 1] = AddModel(f[n], p, s[n + 1])
    BY <1>1, <2>1
  <2>4. QED
    BY <2>2, <2>3, AddedStep
<1> HIDE DEF A
<1>5. Nat \subseteq A
  BY <1>3, <1>4, SetInduction
<1>6. QED
  BY <1>1, <1>2, <1>5 DEF A
\* A provider more leaves a registry.
LEMMA AddProviderType ==
  ASSUME NEW r \in Registries, NEW p \in Providers
  PROVE  AddProvider(r, p) \in Registries
<1>1. AddModels(r, p) \in Registries
  BY AddModelsAre DEF Added
<1>2. Rejected(r) \in Registries
  BY DEF Rejected, Registries
<1>3. QED
  BY <1>1, <1>2 DEF AddProvider

\* build_model_registry goes through the providers one by one.
LEMMA ModelsRun ==
  ASSUME providers \in Seq(Providers)
  PROVE  \E f : /\ f[0] = NoModels
                /\ \A i \in 1 .. Len(providers) : f[i] = AddProvider(f[i - 1], providers[i])
                /\ Models = f[Len(providers)]
<1> DEFINE s == providers
           N == Len(s)
           P == SUBSET (1 .. N)
           S == Registries
           step == [x \in (1 .. N) \X S |-> AddProvider(x[2], s[x[1]])]
           E(it) == it = [t \in P |->
                      IF t = {} THEN NoModels ELSE AddProvider(it[t \ {Max(t)}], s[Max(t)])]
           c == CHOOSE it : E(it)
<1>1. N \in Nat /\ DOMAIN s = 1 .. N /\ \A i \in 1 .. N : s[i] \in Providers
  OBVIOUS
<1>2. Models = c[1 .. N]
  BY <1>1 DEF Models, FoldLeft, MapThenFoldSet
<1>3. step \in Steps(N, S)
  BY <1>1, AddProviderType DEF Steps
<1>4. \A i \in 1 .. N, q \in S : step[<<i, q>>] = AddProvider(q, s[i])
  BY <1>1
<1>5. NoModels \in S
  <2> DEFINE t == <<>>
  <2>1. DOMAIN t = {} /\ t = [m \in DOMAIN t |-> t[m]]
    OBVIOUS
  <2> HIDE DEF t
  <2>2. t \in Tables
    BY <2>1, TableParts
  <2>3. NoModels = [ids |-> {}, models |-> t, ok |-> TRUE]
    BY DEF NoModels, t
  <2>4. QED
    BY <2>2, <2>3 DEF Registries
<1> HIDE DEF N, S, step, s
<1>6. PICK it \in DownSets(N, S, NoModels, step) : TRUE
  BY <1>1, <1>3, <1>5, SubsetRecursion
<1>7. it \in [P -> S] /\ it[{}] = NoModels
      /\ \A t \in P : t # {} => it[t] = step[<<Max(t), it[t \ {Max(t)}]>>]
  BY <1>6 DEF DownSets
<1>8. \A t \in P : t # {} => Max(t) \in 1 .. N /\ t \ {Max(t)} \in P
  BY <1>1, MaxOfPlaces
<1>9. \A t \in P : t # {} => it[t] = AddProvider(it[t \ {Max(t)}], s[Max(t)])
  BY <1>4, <1>7, <1>8
<1>10. E(it)
  <2> HIDE DEF P
  <2> DEFINE g == [t \in P |->
               IF t = {} THEN NoModels ELSE AddProvider(it[t \ {Max(t)}], s[Max(t)])]
  <2>1. it = [t \in P |-> it[t]]
    BY <1>7
  <2>2. \A t \in P : it[t] = IF t = {} THEN NoModels
                             ELSE AddProvider(it[t \ {Max(t)}], s[Max(t)])
    BY <1>7, <1>9
  <2>3. it = g
    BY <2>1, <2>2
  <2>4. QED
    BY <2>3
<1>11. E(c)
  <2> HIDE DEF E
  <2>1. QED
    BY <1>10
<1> HIDE DEF c
<1>12. c[{}] = NoModels
  BY <1>11
<1>13. ASSUME NEW i \in 1 .. N PROVE c[1 .. i] = AddProvider(c[1 .. (i - 1)], s[i])
  <2>1. /\ 1 .. i \in P /\ 1 .. i # {}
        /\ Max(1 .. i) = i /\ (1 .. i) \ {i} = 1 .. (i - 1)
    BY <1>1, FirstPlaces
  <2> DEFINE t == 1 .. i
  <2>2. t \in P /\ t # {} /\ Max(t) = i /\ t \ {i} = 1 .. (i - 1)
    BY <2>1
  <2> HIDE DEF t, P
  <2>3. c[t] = AddProvider(c[t \ {Max(t)}], s[Max(t)])
    BY <1>11, <2>2
  <2>4. QED
    BY <2>2, <2>3 DEF t
<1> DEFINE g == [i \in 0 .. N |-> c[1 .. i]]
<1>14. g[0] = NoModels
  <2>1. 1 .. 0 = {} /\ 0 \in 0 .. N
    BY <1>1
  <2>2. QED
    BY <1>12, <2>1
<1>15. ASSUME NEW i \in 1 .. N PROVE g[i] = AddProvider(g[i - 1], s[i])
  <2>1. i \in 0 .. N /\ i - 1 \in 0 .. N
    BY <1>1
  <2>2. g[i] = c[1 .. i] /\ g[i - 1] = c[1 .. (i - 1)]
    BY <2>1
  <2> HIDE DEF g
  <2>3. QED
    BY <1>13, <2>2
<1>16. Models = g[N]
  BY <1>1, <1>2
<1> HIDE DEF g
<1>17. QED
  BY <1>14, <1>15, <1>16 DEF N, s

\* The models of a provider, of the first n providers, and their ids.
Has(p)     == ModelsTo(p, Len(p.models))
HadBy(n)   == UNION {Has(providers[i]) : i \in 1 .. n}
IdsUpto(n) == {providers[i].id : i \in 1 .. n}

\* The first n providers have different ids, and each model is offered once.
IdsDiffer(n) == \A i, j \in 1 .. n : providers[i].id = providers[j].id => i = j
OfferedOnce(p) ==
  \A k, l \in 1 .. Len(p.models) : p.models[k] = p.models[l] => k = l
EachOnce(n) ==
  /\ \A i \in 1 .. n : OfferedOnce(providers[i])
  /\ \A i, j \in 1 .. n : i # j => Has(providers[i]) \cap Has(providers[j]) = {}

\* What the registry of the first n providers is.
Provided(q, n) ==
  /\ q \in Registries
  /\ q.ok <=> IdsDiffer(n) /\ EachOnce(n)
  /\ q.ok => /\ q.ids = IdsUpto(n)
             /\ DOMAIN q.models = HadBy(n)
             /\ \A i \in 1 .. n : \A x \in Has(providers[i]) : q.models[x] = providers[i].id

\* One provider more.
LEMMA ProvidedStep ==
  ASSUME providers \in Seq(Providers), NEW n \in Nat, n + 1 <= Len(providers),
         NEW q, Provided(q, n)
  PROVE  Provided(AddProvider(q, providers[n + 1]), n + 1)
<1> DEFINE p == providers[n + 1]
           u == AddProvider(q, p)
           w == AddModels(q, p)
<1>1. /\ \A i \in 1 .. (n + 1) : i \in 1 .. n \/ i = n + 1
      /\ \A i \in 1 .. n : i \in 1 .. (n + 1) /\ i # n + 1
      /\ n + 1 \in 1 .. (n + 1)
  OBVIOUS
<1>2. p \in Providers
  OBVIOUS
<1>3. /\ q \in Registries
      /\ q.ok <=> IdsDiffer(n) /\ EachOnce(n)
      /\ q.ok => /\ q.ids = IdsUpto(n)
                 /\ DOMAIN q.models = HadBy(n)
                 /\ \A i \in 1 .. n : \A x \in Has(providers[i]) :
                      q.models[x] = providers[i].id
  BY DEF Provided
<1>4. q.ok \in BOOLEAN
  BY <1>3 DEF Registries
<1>5. IdsUpto(n + 1) = IdsUpto(n) \cup {p.id}
  BY <1>1 DEF IdsUpto
<1>6. HadBy(n + 1) = HadBy(n) \cup Has(p)
  BY <1>1 DEF HadBy
<1>7. IdsDiffer(n + 1) <=> IdsDiffer(n) /\ p.id \notin IdsUpto(n)
  <2>1. ASSUME IdsDiffer(n + 1) PROVE IdsDiffer(n) /\ p.id \notin IdsUpto(n)
    BY <1>1, <2>1 DEF IdsDiffer, IdsUpto
  <2>2. ASSUME IdsDiffer(n), p.id \notin IdsUpto(n) PROVE IdsDiffer(n + 1)
    <3>1. \A i \in 1 .. n : providers[i].id # p.id
      BY <2>2 DEF IdsUpto
    <3>2. QED
      BY <1>1, <2>2, <3>1 DEF IdsDiffer
  <2>3. QED
    BY <2>1, <2>2
<1>8. EachOnce(n + 1) <=> EachOnce(n) /\ OfferedOnce(p) /\ Has(p) \cap HadBy(n) = {}
  <2>1. ASSUME EachOnce(n + 1)
        PROVE  EachOnce(n) /\ OfferedOnce(p) /\ Has(p) \cap HadBy(n) = {}
    <3>1. \A i \in 1 .. n : Has(providers[i]) \cap Has(p) = {}
      BY <1>1, <2>1 DEF EachOnce
    <3>2. Has(p) \cap HadBy(n) = {}
      BY <3>1 DEF HadBy
    <3>3. QED
      BY <1>1, <2>1, <3>2 DEF EachOnce
  <2>2. ASSUME EachOnce(n), OfferedOnce(p), Has(p) \cap HadBy(n) = {} PROVE EachOnce(n + 1)
    <3>1. \A i \in 1 .. n : Has(providers[i]) \cap Has(p) = {}
      BY <2>2 DEF HadBy
    <3>2. QED
      BY <1>1, <2>2, <3>1 DEF EachOnce
  <2>3. QED
    BY <2>1, <2>2
<1>9. /\ w \in Registries
      /\ w.ids = q.ids \cup {p.id}
      /\ w.ok <=> q.ok /\ OfferedOnce(p) /\ Has(p) \cap DOMAIN q.models = {}
      /\ DOMAIN w.models = DOMAIN q.models \cup Has(p)
      /\ \A x \in DOMAIN w.models :
           w.models[x] = IF x \in DOMAIN q.models THEN q.models[x] ELSE p.id
  <2>1. Added(w, q, p, Len(p.models))
    BY <1>2, <1>3, AddModelsAre
  <2>2. NewTo(q, p, Len(p.models)) <=> OfferedOnce(p) /\ Has(p) \cap DOMAIN q.models = {}
    BY DEF NewTo, OfferedOnce, Has, ModelsTo
  <2> HIDE DEF p, w
  <2>3. QED
    BY <2>1, <2>2 DEF Added, Has
<1> HIDE DEF p, w
<1>10. CASE p.id \in q.ids
  <2>1. u = [q EXCEPT !.ok = FALSE]
    BY <1>10 DEF AddProvider, Rejected
  <2>2. u \in Registries /\ u.ok = FALSE
    BY <1>3, <2>1 DEF Registries
  <2>3. ~(IdsDiffer(n + 1) /\ EachOnce(n + 1))
    BY <1>3, <1>7, <1>8, <1>10
  <2> HIDE DEF u
  <2>4. Provided(u, n + 1)
    BY <2>2, <2>3 DEF Provided
  <2>5. QED
    BY <2>4 DEF u, p
<1>11. CASE p.id \notin q.ids
  <2>1. u = w
    BY <1>11 DEF AddProvider, w
  <2>2. u.ok <=> IdsDiffer(n + 1) /\ EachOnce(n + 1)
    <3>1. CASE q.ok
      BY <1>3, <1>7, <1>8, <1>9, <1>11, <2>1, <3>1
    <3>2. CASE ~q.ok
      BY <1>3, <1>7, <1>8, <1>9, <2>1, <3>2
    <3>3. QED
      BY <3>1, <3>2
  <2>3. ASSUME u.ok
        PROVE  /\ u.ids = IdsUpto(n + 1)
               /\ DOMAIN u.models = HadBy(n + 1)
               /\ \A i \in 1 .. (n + 1) : \A x \in Has(providers[i]) :
                    u.models[x] = providers[i].id
    <3>1. q.ok /\ Has(p) \cap DOMAIN q.models = {}
      BY <1>9, <2>1, <2>3
    <3>2. u.ids = IdsUpto(n + 1) /\ DOMAIN u.models = HadBy(n + 1)
      BY <1>3, <1>5, <1>6, <1>9, <2>1, <3>1
    <3>3. ASSUME NEW i \in 1 .. n, NEW x \in Has(providers[i])
          PROVE  u.models[x] = providers[i].id
      <4>1. x \in HadBy(n)
        BY <3>3 DEF HadBy
      <4>2. x \in DOMAIN q.models /\ x \in DOMAIN w.models
        BY <1>3, <1>9, <3>1, <4>1
      <4>3. QED
        BY <1>3, <1>9, <2>1, <3>1, <4>2
    <3>4. \A x \in Has(p) : u.models[x] = p.id
      <4>1. \A x \in Has(p) : x \notin DOMAIN q.models /\ x \in DOMAIN w.models
        BY <1>9, <3>1
      <4>2. QED
        BY <1>9, <2>1, <4>1
    <3> HIDE DEF u
    <3>5. \A i \in 1 .. (n + 1) : \A x \in Has(providers[i]) : u.models[x] = providers[i].id
      <4> SUFFICES ASSUME NEW i \in 1 .. (n + 1), NEW x \in Has(providers[i])
                   PROVE  u.models[x] = providers[i].id
        OBVIOUS
      <4>1. CASE i \in 1 .. n
        BY <3>3, <4>1
      <4>2. CASE i = n + 1
        BY <3>4, <4>2 DEF p
      <4>3. QED
        BY <1>1, <4>1, <4>2
    <3>6. QED
      BY <3>2, <3>5
  <2>4. u \in Registries
    BY <1>9, <2>1
  <2> HIDE DEF u
  <2>5. Provided(u, n + 1)
    BY <2>2, <2>3, <2>4 DEF Provided
  <2>6. QED
    BY <2>5 DEF u, p
<1>12. QED
  BY <1>10, <1>11

\* The registry of all providers.
LEMMA ModelsAre ==
  ASSUME providers \in Seq(Providers)
  PROVE  Provided(Models, Len(providers))
<1>1. PICK f : /\ f[0] = NoModels
               /\ \A i \in 1 .. Len(providers) : f[i] = AddProvider(f[i - 1], providers[i])
               /\ Models = f[Len(providers)]
  BY ModelsRun
<1> DEFINE A == {n \in Nat : n <= Len(providers) => Provided(f[n], n)}
<1>2. 0 \in A
  <2>1. \A i : i \notin 1 .. 0
    OBVIOUS
  <2> DEFINE t == <<>>
  <2>2. DOMAIN t = {} /\ t = [m \in DOMAIN t |-> t[m]]
    OBVIOUS
  <2> HIDE DEF t
  <2>3. t \in Tables
    BY <2>2, TableParts
  <2>4. NoModels = [ids |-> {}, models |-> t, ok |-> TRUE]
    BY DEF NoModels, t
  <2>5. NoModels \in Registries /\ NoModels.ok = TRUE /\ NoModels.ids = {}
        /\ DOMAIN NoModels.models = {}
    BY <2>2, <2>3, <2>4 DEF Registries
  <2>6. IdsDiffer(0) /\ EachOnce(0) /\ IdsUpto(0) = {} /\ HadBy(0) = {}
    BY <2>1 DEF IdsDiffer, EachOnce, IdsUpto, HadBy
  <2>7. Provided(NoModels, 0)
    BY <2>1, <2>5, <2>6 DEF Provided
  <2>8. QED
    BY <1>1, <2>7
<1>3. ASSUME NEW n \in Nat, n \in A PROVE n + 1 \in A
  <2> SUFFICES ASSUME n + 1 <= Len(providers) PROVE Provided(f[n + 1], n + 1)
    OBVIOUS
  <2>1. n <= Len(providers) /\ n + 1 \in 1 .. Len(providers) /\ (n + 1) - 1 = n
    OBVIOUS
  <2>2. Provided(f[n], n)
    BY <1>3, <2>1
  <2>3. f[n + 1] = AddProvider(f[n], providers[n + 1])
    BY <1>1, <2>1
  <2>4. QED
    BY <2>2, <2>3, ProvidedStep
<1> HIDE DEF A
<1>4. Nat \subseteq A
  BY <1>2, <1>3, SetInduction
<1>5. Len(providers) \in Nat /\ Len(providers) <= Len(providers)
  OBVIOUS
<1>6. QED
  BY <1>1, <1>4, <1>5 DEF A
----------------------------------------------------------------------------
(* What validation accepts                                                  *)

\* A list of entries, one for each element of a list.
LEMMA EntriesOf ==
  ASSUME NEW T, NEW NM, NEW s \in Seq(T), NEW e, \A x \in T : e[x] \in Entry(NM)
  PROVE  LET t == [i \in DOMAIN s |-> e[s[i]]] IN
         /\ t \in Seq(Entry(NM)) /\ Len(t) = Len(s) /\ DOMAIN s = 1 .. Len(s)
         /\ \A i \in 1 .. Len(s) : t[i] = e[s[i]]
<1> DEFINE D == Entry(NM)
<1>1. DOMAIN s = 1 .. Len(s) /\ Len(s) \in Nat /\ \A i \in 1 .. Len(s) : e[s[i]] \in D
  OBVIOUS
<1> HIDE DEF D
<1>2. [i \in 1 .. Len(s) |-> e[s[i]]] \in Seq(D)
  BY <1>1
<1>3. Len([i \in 1 .. Len(s) |-> e[s[i]]]) = Len(s)
  BY <1>1
<1>4. QED
  BY <1>1, <1>2, <1>3 DEF D

\* build_tool_registry accepts tools whose names differ, and knows them all.
LEMMA ToolsAre ==
  ASSUME tools \in Seq(Tools)
  PROVE  /\ ToolNames.ok <=> AllDiffer(tools, LAMBDA t : t)
         /\ ToolNames.names = ToSet(tools)
<1> DEFINE e == [t \in Tools |-> [name |-> t, fits |-> TRUE]]
           u == [i \in DOMAIN tools |-> e[tools[i]]]
           N == Len(tools)
<1>1. \A t \in Tools : e[t] \in Entry(Tools) /\ e[t].name = t /\ e[t].fits = TRUE
  BY DEF Entry
<1>2. \A i \in DOMAIN tools : tools[i] \in Tools
  OBVIOUS
<1>3. ToolNames = NamesOf(u)
  BY <1>2 DEF ToolNames
<1> HIDE DEF e
<1>4. /\ u \in Seq(Entry(Tools)) /\ Len(u) = N /\ DOMAIN tools = 1 .. N
      /\ \A i \in 1 .. N : u[i] = e[tools[i]]
  BY <1>1, EntriesOf
<1>5. \A i \in 1 .. N : u[i].name = tools[i] /\ u[i].fits = TRUE
  BY <1>1, <1>2, <1>4
<1> HIDE DEF u
<1>6. ToolNames \in Names(Tools) /\ Entered(ToolNames, u, N)
  BY <1>3, <1>4, NamesAre
<1>7. Fitting(u, N)
  BY <1>5 DEF Fitting
<1>8. Differ(u, N) <=> AllDiffer(tools, LAMBDA t : t)
  BY <1>4, <1>5 DEF Differ, AllDiffer
<1>9. Upto(u, N) = ToSet(tools)
  BY <1>4, <1>5 DEF Upto, ToSet
<1>10. QED
  BY <1>6, <1>7, <1>8, <1>9 DEF Entered

\* build_skill_registry accepts skills whose names differ and whose tools are
\* registered.
LEMMA SkillsAre ==
  ASSUME skills \in Seq(Skills), tools \in Seq(Tools)
  PROVE  SkillNames.ok <=> /\ AllDiffer(skills, LAMBDA s : s.name)
                           /\ \A s \in ToSet(skills) : s.requires \subseteq ToSet(tools)
<1> DEFINE known == ToolNames.names
           NM == {s.name : s \in Skills}
           e == [s \in Skills |-> [name |-> s.name, fits |-> s.requires \subseteq known]]
           u == [i \in DOMAIN skills |-> e[skills[i]]]
           N == Len(skills)
<1>0. known = ToSet(tools)
  BY ToolsAre
<1> HIDE DEF known
<1>1. \A s \in Skills : /\ e[s] \in Entry(NM) /\ e[s].name = s.name
                        /\ e[s].fits <=> s.requires \subseteq known
  BY DEF Entry
<1>2. \A i \in DOMAIN skills : skills[i] \in Skills
  OBVIOUS
<1>3. SkillNames = NamesOf(u)
  BY <1>2 DEF SkillNames, known
<1> HIDE DEF e, NM
<1>4. /\ u \in Seq(Entry(NM)) /\ Len(u) = N /\ DOMAIN skills = 1 .. N
      /\ \A i \in 1 .. N : u[i] = e[skills[i]]
  BY <1>1, EntriesOf
<1>5. \A i \in 1 .. N : /\ u[i].name = skills[i].name
                        /\ u[i].fits <=> skills[i].requires \subseteq known
  BY <1>1, <1>2, <1>4
<1> HIDE DEF u
<1>6. SkillNames \in Names(NM) /\ Entered(SkillNames, u, N)
  BY <1>3, <1>4, NamesAre
<1>7. Fitting(u, N) <=> \A s \in ToSet(skills) : s.requires \subseteq known
  BY <1>4, <1>5 DEF Fitting, ToSet
<1> HIDE DEF N
<1>8. Differ(u, N) <=> AllDiffer(skills, LAMBDA s : s.name)
  <2>1. \A i \in 1 .. N : u[i].name = skills[i].name
    BY <1>5
  <2>2. DOMAIN skills = 1 .. N
    BY <1>4
  <2>3. QED
    BY <2>1, <2>2 DEF Differ, AllDiffer
<1>9. QED
  BY <1>0, <1>6, <1>7, <1>8 DEF Entered

\* collect_plugin_descriptors accepts plugins whose ids differ.
LEMMA DescriptorsAre ==
  ASSUME plugins \in Seq(Plugins)
  PROVE  Descriptors.ok <=> AllDiffer(plugins, LAMBDA p : p.id)
<1> DEFINE NM == {p.id : p \in Plugins}
           e == [p \in Plugins |-> [name |-> p.id, fits |-> TRUE]]
           u == [i \in DOMAIN plugins |-> e[plugins[i]]]
           N == Len(plugins)
<1>1. \A p \in Plugins : e[p] \in Entry(NM) /\ e[p].name = p.id /\ e[p].fits = TRUE
  BY DEF Entry
<1>2. \A i \in DOMAIN plugins : plugins[i] \in Plugins
  OBVIOUS
<1>3. Descriptors = NamesOf(u)
  BY <1>2 DEF Descriptors
<1> HIDE DEF e, NM
<1>4. /\ u \in Seq(Entry(NM)) /\ Len(u) = N /\ DOMAIN plugins = 1 .. N
      /\ \A i \in 1 .. N : u[i] = e[plugins[i]]
  BY <1>1, EntriesOf
<1>5. \A i \in 1 .. N : u[i].name = plugins[i].id /\ u[i].fits = TRUE
  BY <1>1, <1>2, <1>4
<1> HIDE DEF u
<1>6. Entered(Descriptors, u, N)
  BY <1>3, <1>4, NamesAre
<1>7. Fitting(u, N)
  BY <1>5 DEF Fitting
<1>8. Differ(u, N) <=> AllDiffer(plugins, LAMBDA p : p.id)
  BY <1>4, <1>5 DEF Differ, AllDiffer
<1>9. QED
  BY <1>6, <1>7, <1>8 DEF Entered

\* Each model is offered once, place by place.
OnceByPlace ==
  \A i, j \in DOMAIN providers :
    \A k \in DOMAIN providers[i].models, l \in DOMAIN providers[j].models :
      providers[i].models[k] = providers[j].models[l] => i = j /\ k = l

\* build_model_registry accepts providers whose ids differ and whose models do,
\* and knows all their models; each resolves to the provider that offers it.
LEMMA ProvidersAre ==
  ASSUME providers \in Seq(Providers)
  PROVE  /\ Models.ok <=> AllDiffer(providers, LAMBDA p : p.id) /\ OnceByPlace
         /\ Models.ok => DOMAIN Models.models
                           = UNION {ToSet(p.models) : p \in ToSet(providers)}
         /\ Models.ok => \A m \in DOMAIN Models.models, p \in ToSet(providers) :
                           p.id = Resolve(m) <=> m \in ToSet(p.models)
<1> DEFINE s == providers
           N == Len(s)
<1>1. DOMAIN s = 1 .. N /\ \A i \in 1 .. N : s[i] \in Providers
  OBVIOUS
<1>2. \A i \in 1 .. N : DOMAIN s[i].models = 1 .. Len(s[i].models)
  <2> TAKE i \in 1 .. N
  <2> DEFINE m == s[i].models
  <2>1. m \in Seq(STRING)
    BY <1>1, BuilderAssumption
  <2> HIDE DEF m
  <2>2. DOMAIN m = 1 .. Len(m)
    BY <2>1
  <2>3. QED
    BY <2>2 DEF m
<1>3. Provided(Models, N)
  BY ModelsAre
<1> HIDE DEF N
<1>4. \A i \in 1 .. N : Has(s[i]) = ToSet(s[i].models)
  BY <1>2 DEF Has, ModelsTo, ToSet
<1>5. IdsDiffer(N) <=> AllDiffer(s, LAMBDA p : p.id)
  BY <1>1 DEF IdsDiffer, AllDiffer
<1>6. EachOnce(N) <=> OnceByPlace
  <2>1. ASSUME EachOnce(N) PROVE OnceByPlace
    <3> SUFFICES ASSUME NEW i \in DOMAIN s, NEW j \in DOMAIN s,
                        NEW k \in DOMAIN s[i].models, NEW l \in DOMAIN s[j].models,
                        s[i].models[k] = s[j].models[l]
                 PROVE  i = j /\ k = l
      BY DEF OnceByPlace
    <3>1. s[i].models[k] \in Has(s[i]) \cap Has(s[j])
      BY <1>1, <1>4 DEF ToSet
    <3>2. i = j
      BY <1>1, <2>1, <3>1 DEF EachOnce
    <3>3. OfferedOnce(s[i])
      BY <1>1, <2>1 DEF EachOnce
    <3>4. QED
      BY <1>1, <1>2, <3>2, <3>3 DEF OfferedOnce
  <2>2. ASSUME OnceByPlace PROVE EachOnce(N)
    <3>1. \A i \in 1 .. N : OfferedOnce(s[i])
      BY <1>1, <1>2, <2>2 DEF OnceByPlace, OfferedOnce
    <3>2. ASSUME NEW i \in 1 .. N, NEW j \in 1 .. N, i # j
          PROVE  Has(s[i]) \cap Has(s[j]) = {}
      BY <1>1, <1>4, <2>2, <3>2 DEF OnceByPlace, ToSet
    <3>3. QED
      BY <3>1, <3>2 DEF EachOnce
  <2>3. QED
    BY <2>1, <2>2
<1>7. HadBy(N) = UNION {ToSet(p.models) : p \in ToSet(s)}
  <2>1. HadBy(N) = UNION {ToSet(s[i].models) : i \in 1 .. N}
    BY <1>4 DEF HadBy
  <2>2. ToSet(s) = {s[i] : i \in 1 .. N}
    BY <1>1 DEF ToSet
  <2>3. {ToSet(p.models) : p \in ToSet(s)} = {ToSet(s[i].models) : i \in 1 .. N}
    BY <2>2
  <2>4. QED
    BY <2>1, <2>3
<1>8. ASSUME Models.ok, NEW m \in DOMAIN Models.models, NEW p \in ToSet(s)
      PROVE  p.id = Resolve(m) <=> m \in ToSet(p.models)
  <2>1. PICK i \in 1 .. N : p = s[i]
    BY <1>1 DEF ToSet
  <2>2. PICK j \in 1 .. N : m \in Has(s[j])
    BY <1>3, <1>8 DEF Provided, HadBy
  <2>3. Resolve(m) = s[j].id
    BY <1>3, <1>8, <2>2 DEF Provided, Resolve
  <2>4. ASSUME p.id = Resolve(m) PROVE m \in ToSet(p.models)
    <3>1. i = j
      BY <1>3, <1>8, <2>1, <2>3, <2>4 DEF Provided, IdsDiffer
    <3>2. QED
      BY <1>4, <2>1, <2>2, <3>1
  <2>5. ASSUME m \in ToSet(p.models) PROVE p.id = Resolve(m)
    <3>1. m \in Has(s[i]) \cap Has(s[j])
      BY <1>4, <2>1, <2>2, <2>5
    <3>2. i = j
      BY <1>3, <1>8, <3>1 DEF Provided, EachOnce
    <3>3. QED
      BY <2>1, <2>3, <3>2
  <2>6. QED
    BY <2>4, <2>5
<1>9. QED
  BY <1>3, <1>5, <1>6, <1>7, <1>8 DEF Provided

\* The checks of build, one after the other, accept exactly the well-formed.
LEMMA ValidatedIsWellFormed ==
  ASSUME providers \in Seq(Providers), tools \in Seq(Tools), skills \in Seq(Skills),
         plugins \in Seq(Plugins)
  PROVE  Validated <=> WellFormed
<1>1. Models.ok => (ModelsConfigured <=>
        {config.default, config.compact, config.memory}
          \subseteq {"none"} \cup UNION {ToSet(p.models) : p \in ToSet(providers)})
  BY ProvidersAre DEF ModelsConfigured
<1>2. Models.ok <=> AllDiffer(providers, LAMBDA p : p.id) /\ OnceByPlace
  BY ProvidersAre
<1>3. ToolNames.ok <=> AllDiffer(tools, LAMBDA t : t)
  BY ToolsAre
<1>4. SkillNames.ok <=> /\ AllDiffer(skills, LAMBDA s : s.name)
                        /\ \A s \in ToSet(skills) : s.requires \subseteq ToSet(tools)
  BY SkillsAre
<1>5. Descriptors.ok <=> AllDiffer(plugins, LAMBDA p : p.id)
  BY DescriptorsAre
<1>6. QED
  BY <1>1, <1>2, <1>3, <1>4, <1>5 DEF Validated, WellFormed, OnceByPlace

\* Whether the registrations are well-formed depends on nothing else.
LEMMA StaysWellFormed ==
  ASSUME UNCHANGED registered
  PROVE  WellFormed' <=> WellFormed
BY DEF registered, WellFormed, AllDiffer

\* What a step leaves of the registrations.
LEMMA ListsStep ==
  ASSUME ValidInv, [Next]_vars
  PROVE  /\ providers' \in Seq(Providers) /\ tools' \in Seq(Tools)
         /\ skills' \in Seq(Skills) /\ plugins' \in Seq(Plugins)
<1>1. /\ providers \in Seq(Providers) /\ tools \in Seq(Tools)
      /\ skills \in Seq(Skills) /\ plugins \in Seq(Plugins)
  BY DEF ValidInv
<1>2. CASE RegisterModelProvider
  BY <1>1, <1>2 DEF RegisterModelProvider
<1>3. CASE RegisterTool
  BY <1>1, <1>3 DEF RegisterTool
<1>4. CASE RegisterSkill
  BY <1>1, <1>4 DEF RegisterSkill
<1>5. CASE RegisterPlugin
  BY <1>1, <1>5 DEF RegisterPlugin
<1>6. CASE RegisterStorage
  BY <1>1, <1>6 DEF RegisterStorage
<1>7. CASE UNCHANGED registered
  BY <1>1, <1>7 DEF registered
<1>8. QED
  BY <1>2, <1>3, <1>4, <1>5, <1>6, <1>7 DEF Next, Build, InitializePlugin, ApplyPlugins,
     DropBuild, BeginShutdown, ShutdownPlugin, EndShutdown, Over, vars

\* Every step keeps what is known of the validation.
LEMMA ValidInvStep == ValidInv /\ [Next]_vars => ValidInv'
<1> SUFFICES ASSUME ValidInv, [Next]_vars PROVE ValidInv'
  OBVIOUS
<1>1. /\ providers' \in Seq(Providers) /\ tools' \in Seq(Tools)
      /\ skills' \in Seq(Skills) /\ plugins' \in Seq(Plugins)
  BY ListsStep
<1>2. /\ phase \notin {"registering", "failed"} => WellFormed
      /\ phase = "rollback" => Len(plugins) > 0
      /\ phase = "failed" /\ WellFormed => Len(plugins) > 0
      /\ plugins \in Seq(Plugins)
  BY DEF ValidInv
<1>3. CASE Registering
  BY <1>1, <1>3 DEF Registering, ValidInv
<1>4. CASE Build
  <2>1. phase' = IF Validated THEN "initialize" ELSE "failed"
    BY <1>4 DEF Build
  <2>2. Validated <=> WellFormed
    BY ValidatedIsWellFormed DEF ValidInv
  <2>3. WellFormed' <=> WellFormed
    BY <1>4, StaysWellFormed DEF Build
  <2>4. QED
    BY <1>1, <2>1, <2>2, <2>3 DEF ValidInv
<1>5. CASE UNCHANGED registered /\ ~Build
  <2>1. WellFormed' <=> WellFormed
    BY <1>5, StaysWellFormed
  <2>2. plugins' = plugins
    BY <1>5 DEF registered
  <2>3. CASE InitializePlugin
    <3>1. phase = "initialize" /\ Len(ups) + 1 <= Len(plugins)
          /\ (phase' = "initialize" \/ phase' = "rollback")
      BY <2>3 DEF InitializePlugin
    <3>2. QED
      BY <1>1, <1>2, <2>1, <2>2, <3>1 DEF ValidInv
  <2>4. CASE ApplyPlugins
    <3>1. /\ phase = "initialize"
          /\ phase' = "running" \/ (phase' = "rollback" /\ ~AppliesAll)
      BY <2>4 DEF ApplyPlugins
    <3>2. ~AppliesAll => Len(plugins) > 0
      <4> SUFFICES ASSUME ~AppliesAll PROVE Len(plugins) > 0
        OBVIOUS
      <4>1. DOMAIN plugins = 1 .. Len(plugins) /\ Len(plugins) \in Nat
        BY <1>2
      <4>2. PICK i \in 1 .. Len(plugins) : TRUE
        BY <4>1 DEF AppliesAll
      <4>3. QED
        BY <4>1, <4>2
    <3>3. WellFormed' /\ (phase' = "running" \/ (phase' = "rollback" /\ Len(plugins') > 0))
      BY <1>2, <2>1, <2>2, <3>1, <3>2, Zenon
    <3>4. QED
      BY <1>1, <3>3 DEF ValidInv
  <2>5. CASE EndShutdown
    BY <1>1, <1>2, <2>1, <2>2, <2>5 DEF ValidInv, EndShutdown
  <2>6. CASE DropBuild \/ BeginShutdown \/ ShutdownPlugin
    BY <1>1, <1>2, <2>1, <2>2, <2>6 DEF ValidInv, DropBuild, BeginShutdown, ShutdownPlugin
  <2>7. CASE phase' = phase
    BY <1>1, <1>2, <2>1, <2>2, <2>7 DEF ValidInv
  <2>8. QED
    BY <1>5, <2>3, <2>4, <2>5, <2>6, <2>7 DEF Next, RegisterModelProvider, RegisterTool,
       RegisterSkill, RegisterPlugin, RegisterStorage, Registering, Over, vars
<1>6. QED
  BY <1>3, <1>4, <1>5 DEF Next, RegisterModelProvider, RegisterTool, RegisterSkill,
     RegisterPlugin, RegisterStorage, InitializePlugin, ApplyPlugins, DropBuild,
     BeginShutdown, ShutdownPlugin, EndShutdown, Over, vars

\* Whatever is registered, in any number: what goes on after build has validated
\* it is well-formed, and what was well-formed fails only for a plugin.
THEOREM ValidInvariant == HostSpec => []ValidInv
<1>1. HostInit => ValidInv
  <2> SUFFICES ASSUME HostInit PROVE ValidInv
    OBVIOUS
  <2>1. /\ providers = << >> /\ tools = << >> /\ skills = << >> /\ plugins = << >>
        /\ phase = "registering"
    BY DEF HostInit, Init
  <2>2. << >> \in Seq(Providers) /\ << >> \in Seq(Tools) /\ << >> \in Seq(Skills)
        /\ << >> \in Seq(Plugins)
    OBVIOUS
  <2>3. QED
    BY <2>1, <2>2 DEF ValidInv
<1>2. ASSUME ValidInv, [HostNext]_hostVars PROVE ValidInv'
  <2>1. [Next]_vars
    BY <1>2 DEF HostNext, BuilderStep, Dispatch, CallHandler, hostVars
  <2>2. QED
    BY <1>2, <2>1, ValidInvStep
<1>3. QED
  BY <1>1, <1>2, PTL DEF HostSpec

\* AgentBuilder::build and resolve_model: no plugin is touched before all checks
\* have passed, these accept exactly the well-formed builders, and every model
\* of a built agent resolves to the one provider that offers it.
THEOREM OnlyTheWellFormedStart == HostSpec => []OnlyWellFormedStarts
<1>1. ValidInv => OnlyWellFormedStarts
  <2> SUFFICES ASSUME ValidInv PROVE OnlyWellFormedStarts
    OBVIOUS
  <2>1. ASSUME phase = "running"
        PROVE  \A model \in DOMAIN Models.models, p \in ToSet(providers) :
                 p.id = Resolve(model) <=> model \in ToSet(p.models)
    <3>1. WellFormed
      BY <2>1 DEF ValidInv
    <3>2. Models.ok
      BY <3>1, ValidatedIsWellFormed DEF ValidInv, Validated
    <3>3. QED
      BY <3>2, ProvidersAre DEF ValidInv
  <2>2. QED
    BY <2>1 DEF ValidInv, OnlyWellFormedStarts
<1>2. QED
  BY <1>1, ValidInvariant, PTL
=============================================================================
