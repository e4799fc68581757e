--------------------------- MODULE OpApiLookupProofs ---------------------------
(***************************************************************************)
(* The static addresses of EXEC_NPU_CMD, for any number of threads and     *)
(* functions, any contents of the two libraries, and libraries that are    *)
(* installed at any time.                                                  *)
(***************************************************************************)
EXTENDS OpApiLookup, TLAPS

-----------------------------------------------------------------------------
(* The invariant.                                                          *)

Site      == Api \X Fn
Searching == {"cust", "opapi", "dlopen cust", "dlopen opapi"}

Typed ==
    /\ handler \in [Lib -> {"unopened", "opening", "open", "absent"}]
    /\ addr \in [Site -> {"unset", "busy", "cust", "opapi", "null"}]
    /\ pc \in [Thread -> {"idle", "reach"} \cup Searching]
    /\ site \in [Thread -> {NoSite} \cup Site]
    /\ \A th \in Thread : pc[th] # "idle" => site[th] \in Site

\* A library was asked for a function, and does not have it.
Lacks(lib, s) == SettledHandle(lib) /\ ~ Found(lib, s)

\* What an address says of the libraries: those that were passed over cannot
\* come back, since their handles are settled too.
Justified ==
    \A s \in Site :
        /\ addr[s] = "cust"  => Found("cust", s)
        /\ addr[s] = "opapi" => Lacks("cust", s) /\ Found("opapi", s)
        /\ addr[s] = "null"  => Lacks("cust", s) /\ Lacks("opapi", s)

\* A thread in the second half has found the custom library wanting.
PassedOver ==
    \A th \in Thread : pc[th] \in {"opapi", "dlopen opapi"} => Lacks("cust", site[th])

\* Who initialises something is at it: an address has its search, a handle its
\* call of dlopen.
AddressHasSearch ==
    \A s \in Site : addr[s] = "busy" =>
        \E th \in Thread : pc[th] \in Searching /\ site[th] = s
HandleHasOpener ==
    \A lib \in Lib : handler[lib] = "opening" => \E th \in Thread : pc[th] = Dlopen[lib]

\* One thread is in dlopen for a library, and the handle waits for it.
OpenersOpen ==
    \A th \in Thread, lib \in Lib : pc[th] = Dlopen[lib] => handler[lib] = "opening"
OneOpener ==
    \A a, b \in Thread, lib \in Lib : pc[a] = Dlopen[lib] /\ pc[b] = Dlopen[lib] => a = b

Looked == Typed /\ Justified /\ PassedOver /\ OpenersOpen /\ OneOpener
Served == AddressHasSearch /\ HandleHasOpener

-----------------------------------------------------------------------------
(* The steps.                                                              *)

LEMMA DlopenFact ==
    /\ Dlopen["cust"] = "dlopen cust" /\ Dlopen["opapi"] = "dlopen opapi"
    /\ \A lib \in Lib : Dlopen[lib] \in Searching /\ Dlopen[lib] \notin Lib \cup {"idle", "reach"}
    /\ \A lib, other \in Lib : Dlopen[lib] = Dlopen[other] => lib = other
    BY DEF Dlopen, Lib, Searching

LEMMA InitLooked == Init => Looked /\ Served
<1> SUFFICES ASSUME Init PROVE Looked /\ Served
    OBVIOUS
<1>1. Typed
    BY DEF Init, Typed, Site
<1>2. Justified /\ PassedOver
    BY DEF Init, Justified, PassedOver, Site
<1>3. \A th \in Thread, lib \in Lib : pc[th] # Dlopen[lib]
    BY DlopenFact DEF Init
<1>4. \A lib \in Lib : handler[lib] = "unopened"
    BY DEF Init
<1>5. \A s \in Site : addr[s] = "unset"
    BY DEF Init, Site
<1> QED
    BY <1>1, <1>2, <1>3, <1>4, <1>5
       DEF Looked, Served, OpenersOpen, OneOpener, AddressHasSearch, HandleHasOpener

\* Where no handle changes, what is known of the libraries stays.
LEMMA SameHandles ==
    ASSUME handler' = handler
    PROVE  \A lib, s : (Found(lib, s)' <=> Found(lib, s)) /\ (Lacks(lib, s)' <=> Lacks(lib, s))
    BY DEF Found, Lacks, SettledHandle

\* A step of a thread that leaves the handles and its own part of no dlopen.
LEMMA OpenersStay ==
    ASSUME Looked, NEW th \in Thread, NEW step,
           handler' = handler, pc' = [pc EXCEPT ![th] = step],
           step \notin {"dlopen cust", "dlopen opapi"}
    PROVE  OpenersOpen' /\ OneOpener'
    BY DlopenFact DEF Looked, Typed, OpenersOpen, OneOpener, Lib

LEMMA EnterStep ==
    ASSUME Looked, NEW th \in Thread, NEW api \in Api, Enter(th, api)
    PROVE  Looked'
<1>1. /\ pc' = [pc EXCEPT ![th] = "reach"] /\ site' = [site EXCEPT ![th] = <<api, "size">>]
      /\ UNCHANGED <<handler, addr>>
    BY DEF Enter
<1>2. Typed'
    <2>1. <<api, "size">> \in Site
        BY DEF Site, Fn
    <2> QED
        BY <1>1, <2>1 DEF Looked, Typed
<1>3. Justified' /\ PassedOver'
    BY <1>1, SameHandles DEF Looked, Typed, Justified, PassedOver
<1> QED
    BY <1>1, <1>2, <1>3, OpenersStay DEF Looked

\* The steps at a static address.
LEMMA AddressStep ==
    ASSUME Looked, NEW th \in Thread, Reach(th) \/ NextStatic(th) \/ Check(th)
    PROVE  Looked'
<1>1. pc[th] = "reach" /\ site[th] \in Site /\ handler' = handler
    BY DEF Reach, NextStatic, Check, Looked, Typed
<1>2. CASE Reach(th)
    <2>1. /\ addr' = [addr EXCEPT ![site[th]] = "busy"] /\ pc' = [pc EXCEPT ![th] = "cust"]
          /\ site' = site
        BY <1>2 DEF Reach
    <2>2. Typed'
        BY <1>1, <2>1 DEF Looked, Typed, Searching
    <2>3. Justified' /\ PassedOver'
        BY <1>1, <2>1, SameHandles DEF Looked, Typed, Justified, PassedOver
    <2> QED
        BY <1>1, <2>1, <2>2, <2>3, OpenersStay DEF Looked
<1>3. CASE NextStatic(th)
    <2>1. /\ site' = [site EXCEPT ![th] = <<site[th][1], "run">>] /\ UNCHANGED <<addr, pc>>
        BY <1>3 DEF NextStatic
    <2>2. <<site[th][1], "run">> \in Site
        BY <1>1 DEF Site, Fn
    <2>3. Typed'
        BY <1>1, <2>1, <2>2 DEF Looked, Typed
    <2>4. Justified' /\ PassedOver'
        BY <1>1, <2>1, SameHandles DEF Looked, Typed, Justified, PassedOver
    <2>5. OpenersOpen' /\ OneOpener'
        BY <1>1, <2>1 DEF Looked, OpenersOpen, OneOpener
    <2> QED
        BY <2>3, <2>4, <2>5 DEF Looked
<1>4. CASE Check(th)
    <2>1. /\ pc' = [pc EXCEPT ![th] = "idle"] /\ site' = [site EXCEPT ![th] = NoSite]
          /\ addr' = addr
        BY <1>4 DEF Check
    <2>2. Typed'
        BY <1>1, <2>1 DEF Looked, Typed
    <2>3. Justified' /\ PassedOver'
        BY <1>1, <2>1, SameHandles DEF Looked, Typed, Justified, PassedOver
    <2> QED
        BY <1>1, <2>1, <2>2, <2>3, OpenersStay DEF Looked
<1> QED
    BY <1>2, <1>3, <1>4

\* A handle is settled by the one thread that opens it; what was settled before
\* stays.
LEMMA OpenStep ==
    ASSUME Looked, NEW th \in Thread, NEW lib \in Lib,
           OpenLibrary(th, lib) \/ FinishOpen(th, lib)
    PROVE  Looked'
<1>1. PICK status \in {"opening", "open", "absent"}, step \in Searching :
          /\ handler' = [handler EXCEPT ![lib] = status] /\ pc' = [pc EXCEPT ![th] = step]
          /\ status = "opening" <=> step = Dlopen[lib]
          /\ step \in {lib, Dlopen[lib]} /\ pc[th] \in {lib, Dlopen[lib]}
    BY DlopenFact DEF OpenLibrary, FinishOpen, Lib, Searching
<1>2. ~SettledHandle(lib) /\ UNCHANGED <<addr, site>>
    BY DEF OpenLibrary, FinishOpen, SettledHandle, Looked, OpenersOpen
<1>3. Typed'
    <2>1. handler' \in [Lib -> {"unopened", "opening", "open", "absent"}]
        BY <1>1 DEF Looked, Typed
    <2>2. pc' \in [Thread -> {"idle", "reach"} \cup Searching]
        BY <1>1 DEF Looked, Typed
    <2>3. pc[th] # "idle"
        BY <1>1, DlopenFact DEF Lib
    <2>4. \A a \in Thread : pc'[a] # "idle" => site'[a] \in Site
        BY <1>1, <1>2, <2>3 DEF Looked, Typed
    <2> QED
        BY <1>2, <2>1, <2>2, <2>4 DEF Looked, Typed
<1>4. \A l \in Lib : SettledHandle(l) => handler'[l] = handler[l]
    BY <1>1, <1>2 DEF Looked, Typed
<1>5. \A l \in Lib : \A s : (Found(l, s) => Found(l, s)') /\ (Lacks(l, s) => Lacks(l, s)')
    BY <1>4 DEF Found, Lacks, SettledHandle
<1>6. Justified'
    BY <1>2, <1>5 DEF Looked, Justified, Lib
<1>7. PassedOver'
    <2> SUFFICES ASSUME NEW a \in Thread, pc'[a] \in {"opapi", "dlopen opapi"}
                 PROVE  Lacks("cust", site[a])'
        BY <1>2 DEF PassedOver
    <2>1. pc[a] \in {"opapi", "dlopen opapi"}
        <3>1. CASE a = th
            <4>1. lib = "opapi"
                BY <1>1, <3>1, DlopenFact DEF Looked, Typed, Lib
            <4> QED
                BY <1>1, <3>1, <4>1, DlopenFact
        <3>2. CASE a # th
            BY <1>1, <3>2 DEF Looked, Typed
        <3> QED
            BY <3>1, <3>2
    <2> QED
        BY <1>2, <1>5, <2>1 DEF Looked, PassedOver, Lib
<1>8. OpenersOpen'
    <2> SUFFICES ASSUME NEW a \in Thread, NEW l \in Lib, pc'[a] = Dlopen[l]
                 PROVE  handler'[l] = "opening"
        BY DEF OpenersOpen, Dlopen
    <2>1. CASE a = th
        <3>1. l = lib
            BY <1>1, <2>1, DlopenFact DEF Looked, Typed
        <3> QED
            BY <1>1, <2>1, <3>1 DEF Looked, Typed
    <2>2. CASE a # th
        <3>1. pc[a] = Dlopen[l] /\ handler[l] = "opening"
            BY <1>1, <2>2 DEF Looked, Typed, OpenersOpen
        <3>2. CASE l # lib
            BY <1>1, <3>1, <3>2 DEF Looked, Typed
        <3>3. CASE l = lib
            <4>1. pc[th] # Dlopen[lib]
                BY <2>2, <3>1, <3>3 DEF Looked, OneOpener
            <4>2. OpenLibrary(th, lib)
                BY <4>1 DEF FinishOpen
            <4> QED
                BY <3>1, <3>3, <4>2 DEF OpenLibrary
        <3> QED
            BY <3>2, <3>3
    <2> QED
        BY <2>1, <2>2
<1>9. OneOpener'
    <2> SUFFICES ASSUME NEW a \in Thread, NEW b \in Thread, NEW l \in Lib,
                        pc'[a] = Dlopen[l], pc'[b] = Dlopen[l], a # b
                 PROVE  FALSE
        BY DEF OneOpener, Dlopen
    <2>1. CASE a # th /\ b # th
        BY <1>1, <2>1 DEF Looked, Typed, OneOpener
    <2>2. ASSUME NEW c \in Thread, c # th, pc'[c] = Dlopen[l], pc'[th] = Dlopen[l]
          PROVE  FALSE
        <3>1. pc[c] = Dlopen[l] /\ handler[l] = "opening"
            BY <1>1, <2>2 DEF Looked, Typed, OpenersOpen
        <3>2. l = lib /\ pc'[th] = Dlopen[lib]
            <4>1. pc'[th] \in {lib, Dlopen[lib]}
                BY <1>1 DEF Looked, Typed
            <4>2. pc'[th] # lib
                BY <2>2, DlopenFact
            <4> QED
                BY <2>2, <4>1, <4>2, DlopenFact
        <3>3. OpenLibrary(th, lib)
            <4>1. ASSUME FinishOpen(th, lib) PROVE FALSE
                <5>1. pc'[th] = lib
                    BY <4>1 DEF FinishOpen, Looked, Typed
                <5> QED
                    BY <3>2, <5>1, DlopenFact
            <4> QED
                BY <4>1
        <3> QED
            BY <3>1, <3>2, <3>3 DEF OpenLibrary
    <2> QED
        BY <2>1, <2>2
<1> QED
    BY <1>3, <1>6, <1>7, <1>8, <1>9 DEF Looked

\* The end of a search stores what it found at its own address and at no other.
LEMMA SettleStep ==
    ASSUME Looked, NEW th \in Thread, site[th] \in Site, NEW where \in {"cust", "opapi", "null"},
           Settle(th, where), UNCHANGED <<handler, site>>,
           where = "cust"  => Found("cust", site[th]),
           where = "opapi" => Lacks("cust", site[th]) /\ Found("opapi", site[th]),
           where = "null"  => Lacks("cust", site[th]) /\ Lacks("opapi", site[th])
    PROVE  Looked'
<1>1. /\ addr' = [addr EXCEPT ![site[th]] = where] /\ pc' = [pc EXCEPT ![th] = "reach"]
    BY DEF Settle
<1>2. Typed'
    BY <1>1 DEF Looked, Typed
<1>3. \A s \in Site : addr'[s] = IF s = site[th] THEN where ELSE addr[s]
    BY <1>1 DEF Looked, Typed
<1>4. Justified'
    BY <1>3, SameHandles DEF Looked, Justified
<1>5. PassedOver'
    BY <1>1, SameHandles DEF Looked, Typed, PassedOver
<1> QED
    BY <1>1, <1>2, <1>4, <1>5, OpenersStay DEF Looked

LEMMA SearchStep ==
    ASSUME Looked, NEW th \in Thread, SearchCust(th) \/ SearchOpApi(th)
    PROVE  Looked'
<1>1. pc[th] \in {"cust", "opapi"} /\ site[th] \in Site /\ UNCHANGED <<handler, site>>
    BY DEF SearchCust, SearchOpApi, Looked, Typed
<1>2. CASE SearchCust(th)
    <2>1. CASE Found("cust", site[th])
        BY <1>1, <1>2, <2>1, SettleStep DEF SearchCust
    <2>2. CASE ~ Found("cust", site[th])
        <3>1. pc' = [pc EXCEPT ![th] = "opapi"] /\ addr' = addr
            BY <1>2, <2>2 DEF SearchCust
        <3>2. Lacks("cust", site[th])
            BY <1>2, <2>2 DEF SearchCust, Lacks
        <3>3. Typed'
            BY <1>1, <3>1 DEF Looked, Typed, Searching
        <3>4. Justified' /\ PassedOver'
            BY <1>1, <3>1, <3>2, SameHandles DEF Looked, Typed, Justified, PassedOver
        <3> QED
            BY <1>1, <3>1, <3>3, <3>4, OpenersStay DEF Looked
    <2> QED
        BY <2>1, <2>2
<1>3. CASE SearchOpApi(th)
    <2> DEFINE where == IF Found("opapi", site[th]) THEN "opapi" ELSE "null"
    <2>1. SettledHandle("opapi") /\ Lacks("cust", site[th]) /\ Settle(th, where)
        BY <1>3 DEF SearchOpApi, Looked, PassedOver
    <2>2. /\ where \in {"cust", "opapi", "null"} /\ where # "cust"
          /\ where = "opapi" => Found("opapi", site[th])
          /\ where = "null" => Lacks("opapi", site[th])
        BY <2>1 DEF Lacks
    <2> HIDE DEF where
    <2> QED
        BY <1>1, <2>1, <2>2, SettleStep
<1> QED
    BY <1>2, <1>3

LEMMA NextLooked == Looked /\ [Next]_vars => Looked'
<1> SUFFICES ASSUME Looked, [Next]_vars PROVE Looked'
    OBVIOUS
<1>1. CASE UNCHANGED vars \/ \E lib \in Lib : Install(lib)
    <2>1. UNCHANGED <<handler, addr, pc, site>>
        BY <1>1 DEF vars, Install
    <2>2. Typed' /\ OpenersOpen' /\ OneOpener'
        BY <2>1 DEF Looked, Typed, OpenersOpen, OneOpener
    <2>3. Justified' /\ PassedOver'
        BY <2>1, SameHandles DEF Looked, Justified, PassedOver
    <2> QED
        BY <2>2, <2>3 DEF Looked
<1> QED
    BY <1>1, EnterStep, AddressStep, OpenStep, SearchStep DEF Next, LookupStep

LEMMA AlwaysLooked == Spec => []Looked
    BY InitLooked, NextLooked, PTL DEF Spec

-----------------------------------------------------------------------------
(* The theorems.                                                           *)

\* What an address says holds of the handles, so two settled addresses of an
\* api whose functions come together say the same.
LEMMA LookedAgrees == Looked => PairFromOneLibrary /\ AddressesAreCurrent
<1> SUFFICES ASSUME Looked PROVE PairFromOneLibrary /\ AddressesAreCurrent
    OBVIOUS
<1>1. ASSUME NEW s \in Site, Settled(s)
      PROVE  addr[s] = IF Found("cust", s) THEN "cust"
                       ELSE IF Found("opapi", s) THEN "opapi" ELSE "null"
    BY <1>1 DEF Looked, Justified, Settled, Lacks
<1>2. AddressesAreCurrent
    BY <1>1 DEF AddressesAreCurrent, Site
<1>3. ASSUME NEW api \in Api, Whole(api), Settled(<<api, "size">>), Settled(<<api, "run">>)
      PROVE  addr[<<api, "size">>] = addr[<<api, "run">>]
    <2>1. <<api, "size">> \in Site /\ <<api, "run">> \in Site
        BY DEF Site, Fn
    <2>2. \A lib \in Lib : Found(lib, <<api, "size">>) <=> Found(lib, <<api, "run">>)
        BY <1>3 DEF Whole, Found
    <2>3. /\ Found("cust", <<api, "size">>) <=> Found("cust", <<api, "run">>)
          /\ Found("opapi", <<api, "size">>) <=> Found("opapi", <<api, "run">>)
        BY <2>2 DEF Lib
    <2> QED
        BY <1>1, <1>3, <2>1, <2>3
<1> QED
    BY <1>2, <1>3 DEF PairFromOneLibrary

\* The function that makes an executor and the one that runs it come from one
\* library, whichever threads looked them up and whatever was installed between,
\* unless a library has one of them and not the other.
THEOREM PairAlwaysFromOneLibrary == Spec => []PairFromOneLibrary
    BY AlwaysLooked, LookedAgrees, PTL

\* No static address is ever outdated.
THEOREM AddressesAlwaysCurrent == Spec => []AddressesAreCurrent
    BY AlwaysLooked, LookedAgrees, PTL

-----------------------------------------------------------------------------
(* No thread waits for ever because of the others.                         *)

\* At an address another thread initialises, or at a handle another opens.
Waits(th) ==
    \/ pc[th] = "reach" /\ addr[site[th]] = "busy"
    \/ pc[th] \in Lib /\ handler[pc[th]] = "opening"

\* Whatever waits for whatever, one of the threads that look something up can
\* go on.
SomeoneGoesOn ==
    (\E th \in Thread : pc[th] # "idle") => \E th \in Thread : pc[th] # "idle" /\ ~ Waits(th)

\* An address that is being searched before a step and after it has its search,
\* where that is of a thread the step leaves alone or leaves searching.
LEMMA SearchStays ==
    ASSUME AddressHasSearch, NEW s \in Site, addr[s] = "busy",
           \A th \in Thread : pc[th] \in Searching /\ site[th] = s =>
               pc'[th] \in Searching /\ site'[th] = s
    PROVE  \E th \in Thread : pc'[th] \in Searching /\ site'[th] = s
    BY DEF AddressHasSearch

LEMMA OpenerStays ==
    ASSUME HandleHasOpener, handler' = handler,
           \A th \in Thread, lib \in Lib : pc[th] = Dlopen[lib] => pc'[th] = Dlopen[lib]
    PROVE  HandleHasOpener'
    BY DEF HandleHasOpener, Dlopen

LEMMA AddressServed ==
    ASSUME Looked, Served, NEW th \in Thread, Reach(th) \/ NextStatic(th) \/ Check(th)
    PROVE  Served'
<1>1. pc[th] = "reach" /\ site[th] \in Site /\ handler' = handler
    BY DEF Reach, NextStatic, Check, Looked, Typed
<1>2. \A other \in Thread : pc[other] \in Searching => other # th
    BY <1>1 DEF Searching
<1>3. \A other \in Thread \ {th} : pc'[other] = pc[other] /\ site'[other] = site[other]
    BY DEF Reach, NextStatic, Check, Looked, Typed
<1>4. HandleHasOpener'
    BY <1>1, <1>2, <1>3, OpenerStays, DlopenFact DEF Served
<1>5. ASSUME NEW s \in Site, addr'[s] = "busy"
      PROVE  \E a \in Thread : pc'[a] \in Searching /\ site'[a] = s
    <2>1. CASE addr[s] = "busy"
        BY <1>2, <1>3, <2>1, SearchStays DEF Served
    <2>2. CASE addr[s] # "busy"
        <3>1. Reach(th)
            BY <1>5, <2>2 DEF NextStatic, Check
        <3>2. s = site[th]
            BY <1>1, <1>5, <2>2, <3>1 DEF Reach, Looked, Typed
        <3>3. pc'[th] = "cust" /\ site'[th] = s
            BY <3>1, <3>2 DEF Reach, Looked, Typed
        <3> QED
            BY <3>3 DEF Searching
    <2> QED
        BY <2>1, <2>2
<1> QED
    BY <1>4, <1>5 DEF Served, AddressHasSearch

LEMMA OpenServed ==
    ASSUME Looked, Served, NEW th \in Thread, NEW lib \in Lib,
           OpenLibrary(th, lib) \/ FinishOpen(th, lib)
    PROVE  Served'
<1>1. /\ pc[th] \in Searching /\ pc'[th] \in Searching /\ UNCHANGED <<addr, site>>
      /\ \A other \in Thread \ {th} : pc'[other] = pc[other]
      /\ \A other \in Lib \ {lib} : handler'[other] = handler[other]
    BY DlopenFact DEF OpenLibrary, FinishOpen, Looked, Typed, Searching, Lib
<1>2. AddressHasSearch'
    BY <1>1, SearchStays DEF Served, AddressHasSearch
<1>3. ASSUME NEW l \in Lib, handler'[l] = "opening"
      PROVE  \E a \in Thread : pc'[a] = Dlopen[l]
    <2>1. CASE l = lib
        <3>1. OpenLibrary(th, lib)
            <4>1. ASSUME FinishOpen(th, lib) PROVE FALSE
                <5>1. handler'[lib] \in {"open", "absent"}
                    BY <4>1 DEF FinishOpen, Looked, Typed
                <5> QED
                    BY <1>3, <2>1, <5>1
            <4> QED
                BY <4>1
        <3>2. pc'[th] = Dlopen[l]
            BY <2>1, <3>1 DEF OpenLibrary, Looked, Typed
        <3> QED
            BY <3>2
    <2>2. CASE l # lib
        <3>1. PICK a \in Thread : pc[a] = Dlopen[l]
            BY <1>1, <1>3, <2>2 DEF Served, HandleHasOpener
        <3>2. pc[th] \in {lib, Dlopen[lib]}
            BY DEF OpenLibrary, FinishOpen
        <3>3. a # th
            BY <2>2, <3>1, <3>2, DlopenFact
        <3> QED
            BY <1>1, <3>1, <3>3
    <2> QED
        BY <2>1, <2>2
<1> QED
    BY <1>2, <1>3 DEF Served, HandleHasOpener, Dlopen

LEMMA SearchServed ==
    ASSUME Looked, Served, NEW th \in Thread, SearchCust(th) \/ SearchOpApi(th)
    PROVE  Served'
<1>1. /\ pc[th] \in {"cust", "opapi"} /\ UNCHANGED <<handler, site>>
      /\ \A other \in Thread \ {th} : pc'[other] = pc[other]
    BY DEF SearchCust, SearchOpApi, Settle, Looked, Typed
<1>2. HandleHasOpener'
    <2>1. pc[th] \in Lib
        BY <1>1 DEF Lib
    <2>2. \A lib \in Lib : pc[th] # Dlopen[lib]
        BY <2>1, DlopenFact
    <2> QED
        BY <1>1, <2>2, OpenerStays DEF Served
<1>3. ASSUME NEW s \in Site, addr'[s] = "busy"
      PROVE  \E a \in Thread : pc'[a] \in Searching /\ site'[a] = s
    <2>1. CASE pc' = [pc EXCEPT ![th] = "opapi"] /\ addr' = addr
        <3>1. pc'[th] \in Searching
            BY <2>1 DEF Looked, Typed, Searching
        <3> QED
            BY <1>1, <1>3, <2>1, <3>1, SearchStays DEF Served
    <2>2. ASSUME NEW where \in {"cust", "opapi", "null"}, Settle(th, where)
          PROVE  \E a \in Thread : pc'[a] \in Searching /\ site'[a] = s
        <3>1. addr[s] = "busy" /\ s # site[th]
            BY <1>3, <2>2 DEF Settle, Looked, Typed
        <3> QED
            BY <1>1, <3>1, SearchStays DEF Served
    <2> QED
        BY <2>1, <2>2 DEF SearchCust, SearchOpApi
<1> QED
    BY <1>2, <1>3 DEF Served, AddressHasSearch

LEMMA NextServed == Looked /\ Served /\ [Next]_vars => Served'
<1> SUFFICES ASSUME Looked, Served, [Next]_vars PROVE Served'
    OBVIOUS
<1>1. CASE UNCHANGED vars \/ \E lib \in Lib : Install(lib)
    <2>1. UNCHANGED <<handler, addr, pc, site>>
        BY <1>1 DEF vars, Install
    <2> QED
        BY <2>1 DEF Served, AddressHasSearch, HandleHasOpener
<1>2. ASSUME NEW th \in Thread, NEW api \in Api, Enter(th, api)
      PROVE  Served'
    <2>1. /\ pc[th] = "idle" /\ UNCHANGED <<handler, addr>>
          /\ \A other \in Thread \ {th} : pc'[other] = pc[other] /\ site'[other] = site[other]
        BY <1>2 DEF Enter, Looked, Typed
    <2>2. \A other \in Thread : pc[other] \in Searching => other # th
        BY <2>1 DEF Searching
    <2>3. HandleHasOpener'
        BY <2>1, <2>2, OpenerStays, DlopenFact DEF Served
    <2>4. AddressHasSearch'
        BY <2>1, <2>2, SearchStays DEF Served, AddressHasSearch
    <2> QED
        BY <2>3, <2>4 DEF Served
<1> QED
    BY <1>1, <1>2, AddressServed, OpenServed, SearchServed DEF Next, LookupStep

LEMMA SomeoneDoes == Looked /\ Served => SomeoneGoesOn
<1> SUFFICES ASSUME Looked, Served, NEW th \in Thread, pc[th] # "idle"
             PROVE  \E a \in Thread : pc[a] # "idle" /\ ~ Waits(a)
    BY DEF SomeoneGoesOn
\* A thread in dlopen waits for no other.
<1>1. ASSUME NEW a \in Thread, NEW lib \in Lib, pc[a] = Dlopen[lib]
      PROVE  pc[a] # "idle" /\ ~ Waits(a)
    <2>1. pc[a] \notin Lib /\ pc[a] \notin {"idle", "reach"}
        BY <1>1, DlopenFact
    <2> QED
        BY <2>1 DEF Waits
\* One that searches waits for one in dlopen at most.
<1>2. ASSUME NEW a \in Thread, pc[a] \in Searching
      PROVE  \E b \in Thread : pc[b] # "idle" /\ ~ Waits(b)
    <2>1. CASE pc[a] \in Lib /\ handler[pc[a]] = "opening"
        <3>1. PICK b \in Thread : pc[b] = Dlopen[pc[a]]
            BY <2>1 DEF Served, HandleHasOpener
        <3> QED
            BY <1>1, <2>1, <3>1
    <2>2. CASE ~ (pc[a] \in Lib /\ handler[pc[a]] = "opening")
        BY <1>2, <2>2 DEF Waits, Searching
    <2> QED
        BY <2>1, <2>2
\* One at an address waits for one that searches.
<1>3. CASE pc[th] = "reach"
    <2>1. CASE addr[site[th]] = "busy"
        <3>1. PICK a \in Thread : pc[a] \in Searching
            BY <1>3, <2>1 DEF Looked, Typed, Served, AddressHasSearch
        <3> QED
            BY <1>2, <3>1
    <2>2. CASE addr[site[th]] # "busy"
        BY <1>3, <2>2 DEF Waits, Lib
    <2> QED
        BY <2>1, <2>2
<1> QED
    BY <1>2, <1>3 DEF Looked, Typed

\* The waits at static addresses and static handles never go in a circle: as
\* long as a thread looks something up, one that does need not wait.
THEOREM LookupsNeverDeadlock == Spec => []SomeoneGoesOn
<1>1. Spec => [](Looked /\ Served)
    BY InitLooked, NextLooked, NextServed, PTL DEF Spec
<1> QED
    BY <1>1, SomeoneDoes, PTL
==============================================================================
