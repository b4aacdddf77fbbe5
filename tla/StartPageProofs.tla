-------------------------- MODULE StartPageProofs --------------------------
(***************************************************************************)
(* Theorems about LanguageStorage, StarterBuild and StartPage, for any     *)
(* locales, kits, edits, builds and deaths: each part alone, and then the  *)
(* page that reads what the other two leave.                               *)
(***************************************************************************)
EXTENDS StartPage, LanguageStorage, TLAPS

-----------------------------------------------------------------------------
(* Languages, on any page *)

\* The latest choice is that of the call with the latest number; the page is
\* ready once there is a text to show; what is shown is loaded.
LanguageInv ==
    /\ LanguageTypeOK /\ LanguagesAgree
    /\ \A call \in calls : /\ call.n <= latest.n
                           /\ call.n = latest.n => call.lang = latest.lang
    /\ ready = "resolved" => dictionary # "none"

CallType == [lang : Langs, load : Langs, n : 1..SwitchBound]

\* What is true of the calls under way, and stays true of those that remain.
Numbered(some, last) ==
    \A call \in some : /\ call \in CallType /\ call.n <= last.n
                       /\ call.n = last.n => call.lang = last.lang

LEMMA CallTypes ==
    /\ \A lang \in Langs, n \in 1..SwitchBound :
          /\ Call(lang, n) \in CallType
          /\ Call(lang, n).lang = lang /\ Call(lang, n).n = n
    /\ \A call \in CallType :
          LET again == [call EXCEPT !.load = English]
          IN  again \in CallType /\ again.lang = call.lang /\ again.n = call.n
BY LocalesNamed DEF Call, CallType

LEMMA InvNumbers == LanguageInv => Numbered(calls, latest)
BY DEF LanguageInv, LanguageTypeOK, Numbered, CallType

LEMMA LanguageInitInv == LanguageInit => LanguageInv
<1> SUFFICES ASSUME LanguageInit PROVE LanguageInv
  OBVIOUS
<1>1. 1 \in 1..SwitchBound
  BY SwitchBoundPositive
<1>2. /\ latest \in [lang : Langs, n : 1..SwitchBound] /\ latest.n = 1
      /\ calls = {Call(latest.lang, 1)}
  BY <1>1 DEF LanguageInit
<1>3. Numbered(calls, latest)
  BY <1>1, <1>2, CallTypes DEF Numbered
<1>4. LanguageTypeOK
  BY <1>2, <1>3, LocalesNamed DEF LanguageInit, LanguageTypeOK, Numbered, CallType
<1> QED BY <1>3, <1>4 DEF LanguageInit, LanguageInv, LanguagesAgree, Numbered

\* A choice has a number that no call under way has.
LEMMA ChoiceFacts ==
    ASSUME LanguageInv, NEW lang \in Langs, Chooses(lang)
    PROVE  /\ latest' \in [lang : Langs, n : 1..SwitchBound]
           /\ latest'.lang = lang /\ latest'.n \in 1..SwitchBound
           /\ \A call \in calls : call \in CallType /\ call.n < latest'.n
           /\ misled' = FALSE /\ ready' = ready
<1>1. latest.n \in 1..SwitchBound /\ latest.n + 1 \in 1..SwitchBound
  BY SwitchBoundPositive DEF Chooses, LanguageInv, LanguageTypeOK
<1>2. /\ latest'.lang = lang /\ latest'.n = latest.n + 1
      /\ latest' \in [lang : Langs, n : 1..SwitchBound]
  BY <1>1 DEF Chooses
<1>3. \A call \in calls : call \in CallType /\ call.n \in 1..SwitchBound /\ call.n <= latest.n
  BY InvNumbers DEF Numbered, CallType
<1> QED BY <1>1, <1>2, <1>3 DEF Chooses

LEMMA SetLangInv == LanguageInv /\ SetLang => LanguageInv'
<1> SUFFICES ASSUME LanguageInv, SetLang PROVE LanguageInv'
  OBVIOUS
<1>1. PICK lang \in Langs : Chooses(lang) /\ calls' = calls \cup {Call(lang, latest'.n)}
  BY DEF SetLang
<1>2. /\ latest' \in [lang : Langs, n : 1..SwitchBound]
      /\ latest'.lang = lang /\ latest'.n \in 1..SwitchBound
      /\ \A call \in calls : call \in CallType /\ call.n < latest'.n
      /\ misled' = FALSE /\ ready' = ready
  BY <1>1, ChoiceFacts
<1>3. Call(lang, latest'.n) \in calls' /\ Call(lang, latest'.n).n = latest'.n
  BY <1>1, <1>2, CallTypes
<1>4. Numbered(calls', latest') /\ UnderWay'
  BY <1>1, <1>2, <1>3, CallTypes DEF Numbered, UnderWay, CallType
<1>5. UNCHANGED <<cache, dictionary, current>>
  BY DEF SetLang, shown
<1> QED BY <1>2, <1>4, <1>5 DEF LanguageInv, LanguageTypeOK, LanguagesAgree, Numbered, CallType

LEMMA SetCachedInv == LanguageInv /\ SetCached => LanguageInv' /\ dictionary' # "none"
<1> SUFFICES ASSUME LanguageInv, SetCached PROVE LanguageInv' /\ dictionary' # "none"
  OBVIOUS
<1>1. PICK lang \in cache : Chooses(lang) /\ Applies(lang)
  BY DEF SetCached
<1>2. lang \in Langs
  BY DEF LanguageInv, LanguageTypeOK
<1>3. /\ latest' \in [lang : Langs, n : 1..SwitchBound]
      /\ latest'.lang = lang
      /\ \A call \in calls : call \in CallType /\ call.n < latest'.n
      /\ latest'.n \in 1..SwitchBound
      /\ misled' = FALSE /\ ready' = ready
  BY <1>1, <1>2, ChoiceFacts
<1>4. UNCHANGED <<cache, calls>> /\ dictionary' = lang /\ current' = lang
  BY <1>1 DEF SetCached, Applies
<1>5. Numbered(calls', latest')
  BY <1>3, <1>4 DEF Numbered, CallType
<1> QED BY <1>2, <1>3, <1>4, <1>5, LocalesNamed DEF LanguageInv, LanguageTypeOK, LanguagesAgree,
    Numbered, CallType

\* What a call leaves when it ends.
LEMMA EndFacts ==
    ASSUME LanguageInv, NEW call \in calls, NEW how, Ends(call, how)
    PROVE  /\ call \in CallType /\ latest' = latest /\ ready' \in {ready, how}
           /\ calls' = calls \ {call} /\ Numbered(calls', latest')
<1>1. Numbered(calls, latest) /\ latest' = latest /\ calls' = calls \ {call}
  BY InvNumbers DEF Ends
<1> QED BY <1>1 DEF Ends, Numbered

\* The last choice is under way, or came last, or came before an earlier one.
LEMMA LoadedInv ==
    ASSUME LanguageInv, NEW call \in calls, Loaded(call)
    PROVE  LanguageInv' /\ dictionary' # "none"
<1>1. /\ call \in CallType /\ latest' = latest /\ ready' \in {ready, "resolved"}
      /\ calls' = calls \ {call} /\ Numbered(calls', latest')
  BY EndFacts DEF Loaded
<1>2. /\ cache' = cache \cup {call.load} /\ dictionary' = call.load /\ current' = call.load
      /\ misled' = (misled \/ call.load # call.lang \/ (call.n # latest.n /\ ~UnderWay))
  BY DEF Loaded, Applies
<1>3. call.load \in Langs /\ dictionary' # "none"
  BY <1>1, <1>2, LocalesNamed DEF CallType
<1>4. ASSUME ~UnderWay', ~misled' PROVE call.load = latest.lang
  <2>1. call.load = call.lang /\ (call.n = latest.n \/ UnderWay)
    BY <1>2, <1>4
  <2>2. \A other \in calls : other.n = latest.n => other = call
    BY <1>1, <1>4 DEF UnderWay
  <2>3. call.n = latest.n
    BY <2>1, <2>2 DEF UnderWay
  <2> QED BY <2>1, <2>3 DEF LanguageInv
<1>5. LanguagesAgree'
  BY <1>1, <1>2, <1>4 DEF LanguagesAgree
<1>6. LanguageTypeOK'
  BY <1>1, <1>2, <1>3 DEF LanguageInv, LanguageTypeOK, Numbered, CallType
<1> QED BY <1>1, <1>3, <1>5, <1>6 DEF LanguageInv, Numbered

LEMMA FallsBackInv ==
    ASSUME LanguageInv, NEW call \in calls, FallsBack(call)
    PROVE  LanguageInv' /\ dictionary' # "none"
<1>1. /\ latest' = latest /\ ready' \in {ready, "resolved"} /\ Numbered(calls', latest')
  BY EndFacts DEF FallsBack
<1>2. /\ English \in cache /\ cache' = cache /\ misled' = TRUE
      /\ dictionary' = English /\ current' = English /\ English # "none"
  BY LocalesNamed DEF FallsBack, Applies
<1> QED BY <1>1, <1>2, LocalesNamed DEF LanguageInv, LanguageTypeOK, LanguagesAgree, Numbered,
    CallType

LEMMA LoadFailsInv ==
    ASSUME LanguageInv, NEW call \in calls, LoadFails(call)
    PROVE  LanguageInv'
<1>1. misled' = TRUE /\ UNCHANGED <<cache, dictionary, current>>
  BY DEF LoadFails, shown
<1>2. Numbered(calls', latest') /\ latest' = latest /\ ready' \in {ready, "rejected"}
  <2>1. CASE Ends(call, "rejected")
    BY <2>1, EndFacts
  <2>2. CASE /\ calls' = (calls \ {call}) \cup {[call EXCEPT !.load = English]}
             /\ UNCHANGED <<latest, ready>>
    BY <2>2, InvNumbers, CallTypes DEF Numbered
  <2> QED BY <2>1, <2>2 DEF LoadFails
<1> QED BY <1>1, <1>2 DEF LanguageInv, LanguageTypeOK, LanguagesAgree, Numbered, CallType

LEMMA SwitchesInv == LanguageInv /\ Switches => LanguageInv' /\ dictionary' # "none"
BY SetCachedInv, LoadedInv, FallsBackInv DEF Switches

LEMMA LanguageInvariance == LanguageSpec => []LanguageInv
<1>1. LanguageInv /\ [LanguageNext]_i18n => LanguageInv'
  <2> SUFFICES ASSUME LanguageInv, [LanguageNext]_i18n PROVE LanguageInv'
    OBVIOUS
  <2>1. CASE Switches
    BY <2>1, SwitchesInv
  <2>2. CASE Waits
    BY <2>2, SetLangInv, LoadFailsInv DEF Waits
  <2>3. CASE UNCHANGED i18n
    BY <2>3 DEF i18n, shown, LanguageInv, LanguageTypeOK, LanguagesAgree, UnderWay
  <2> QED BY <2>1, <2>2, <2>3 DEF LanguageNext
<1> QED BY <1>1, LanguageInitInv, PTL DEF LanguageSpec

-----------------------------------------------------------------------------
(* What the next page detects *)

\* After a switch the address names the language, unless it is English; what
\* the storage kept is the language too.
StorageInv ==
    /\ StorageTypeOK
    /\ dictionary # "none" => /\ url = (IF current = English THEN "none" ELSE current)
                              /\ kept => stored = current

LEMMA StorageInvAgrees == StorageInv => ReloadAgrees
BY LocalesNamed DEF StorageInv, ReloadAgrees, Detected, StorageTypeOK, LanguageTypeOK

LEMMA StoredInv == LanguageInv /\ StorageInv /\ Stored => StorageInv'
<1> SUFFICES ASSUME LanguageInv, StorageInv, Stored PROVE StorageInv'
  OBVIOUS
<1>1. LanguageTypeOK' /\ current' \in Langs
  BY SwitchesInv DEF Stored, LanguageInv, LanguageTypeOK
<1>2. /\ url' = IF current' = English THEN "none" ELSE current'
      /\ \/ stored' = current' /\ kept' = TRUE
         \/ kept' = FALSE /\ stored' = stored
  BY DEF Stored
<1> QED BY <1>1, <1>2 DEF StorageInv, StorageTypeOK

\* Until a call has loaded its texts, nothing is stored for it.
LEMMA NotYetInv == LanguageInv /\ StorageInv /\ NotYet => StorageInv'
<1> SUFFICES ASSUME LanguageInv, StorageInv, NotYet PROVE StorageInv'
  OBVIOUS
<1>1. LanguageInv' /\ UNCHANGED <<url, stored, kept>>
  BY SetLangInv, LoadFailsInv DEF NotYet, Waits, storage
<1>2. UNCHANGED <<dictionary, current>>
  BY DEF NotYet, Waits, SetLang, LoadFails, shown
<1> QED BY <1>1, <1>2 DEF StorageInv, StorageTypeOK, LanguageInv

LEMMA OtherTabInv == StorageInv /\ OtherTabStores => StorageInv'
BY DEF OtherTabStores, i18n, shown, StorageInv, StorageTypeOK, LanguageTypeOK

LEMMA StorageKeepsLanguages == StorageSpec => LanguageSpec
<1>1. StorageInit => LanguageInit
  BY DEF StorageInit
<1>2. [StorageNext]_<<i18n, storage>> => [LanguageNext]_i18n
  BY DEF StorageNext, Stored, NotYet, OtherTabStores, LanguageNext
<1> QED BY <1>1, <1>2, PTL DEF StorageSpec, LanguageSpec

\* i18n.js, on any page: however switches overlap, loads fail, the storage
\* refuses and other tabs write to it, a reload finds the language shown, but
\* for English that is not in the storage.
THEOREM ReloadAlwaysAgrees == StorageSpec => []ReloadAgrees
<1>1. StorageInit => StorageInv
  <2> SUFFICES ASSUME StorageInit PROVE StorageInv
    OBVIOUS
  <2>1. LanguageTypeOK /\ dictionary = "none"
    BY LanguageInitInv DEF StorageInit, LanguageInv, LanguageInit
  <2> QED BY <2>1 DEF StorageInit, StorageInv, StorageTypeOK
<1>2. LanguageInv /\ StorageInv /\ [StorageNext]_<<i18n, storage>> => StorageInv'
  <2>1. StorageInv /\ UNCHANGED <<i18n, storage>> => StorageInv'
    BY DEF i18n, shown, storage, StorageInv, StorageTypeOK, LanguageTypeOK
  <2> QED BY <2>1, StoredInv, NotYetInv, OtherTabInv DEF StorageNext
<1> QED BY <1>1, <1>2, StorageInvAgrees, StorageKeepsLanguages, LanguageInvariance, PTL DEF StorageSpec

-----------------------------------------------------------------------------
(* Builds and checks, whoever reads the artifacts *)

BuildSpec == BuildInit /\ [][BuildNext]_build

BuildArtifacts == Kits \cup {"catalog"}

\* What a run has done so far: the catalog comes last, and a file is torn only
\* while it is written.
ProgressInv ==
    /\ Copying => todo \subseteq Kits
    /\ step = "write" => "catalog" \in todo
    /\ torn # "none" => step = "write" /\ torn \in todo
    /\ torn = "catalog" => todo = {"catalog"}
    /\ step = "compare" => todo # {}

\* A --check under way, with no edit since it began, has copied the inputs
\* hashed, and found the artifacts it is through with to be made of them.
CheckInv ==
    /\ step # "idle" => verdict = "none"
    /\ step \in {"copy to write", "write"} => ~clean
    /\ step # "idle" /\ clean =>
          /\ hashed = sources
          /\ \A k \in Kits : step = "compare" \/ k \notin todo => copied[k] = sources
    /\ step = "compare" /\ clean => \A a \in BuildArtifacts \ todo : Same(a)

\* Every catalog describes one build; so does the one that is no JSON.
OneBuild(c) == \A k \in Kits : c.kits[k].sources = c.sources

BuildInv ==
    /\ BuildTypeOK /\ ProgressInv /\ CheckInv
    /\ OneBuild(catalogFile) /\ CheckedIsFaithful

LEMMA BuiltTypes ==
    ASSUME BuildTypeOK
    PROVE  /\ \A k \in Kits : Archive(k) \in Archives
           /\ Catalog \in [sources : Versions, kits : [Kits -> Archives]]
           /\ PartialCatalog.kits \in [Kits -> Archives \cup {Partial}]
           /\ OneBuild(Catalog) /\ OneBuild(PartialCatalog)
BY DEF BuildTypeOK, Archive, Archives, Catalog, PartialCatalog, Partial, OneBuild

LEMMA BuildInitInv == BuildInit => BuildInv
<1> SUFFICES ASSUME BuildInit PROVE BuildInv
  OBVIOUS
<1>1. 1 \in Versions /\ 0 \in 0..BuildBound
  BY BuildBounds DEF Versions
<1>2. copied \in [Kits -> Versions] /\ hashed \in Versions /\ sources \in Versions
  BY <1>1 DEF BuildInit
<1>3. /\ \A k \in Kits : Archive(k) \in Archives
      /\ Catalog \in [sources : Versions, kits : [Kits -> Archives]]
      /\ OneBuild(Catalog)
  BY <1>2 DEF Archive, Archives, Catalog, OneBuild
<1>4. BuildTypeOK
  BY <1>1, <1>2, <1>3 DEF BuildInit, BuildTypeOK
<1>5. ProgressInv /\ CheckInv /\ CheckedIsFaithful
  BY DEF BuildInit, ProgressInv, CheckInv, CheckedIsFaithful, Copying
<1> QED BY <1>3, <1>4, <1>5 DEF BuildInit, BuildInv

LEMMA EditInv == BuildInv /\ Edit => BuildInv'
<1> SUFFICES ASSUME BuildInv, Edit PROVE BuildInv'
  OBVIOUS
<1>1. sources' \in Versions /\ clean' = FALSE
  <2>1. sources \in Versions
    BY DEF BuildInv, BuildTypeOK
  <2>2. sources < EditBound /\ sources' = sources + 1 /\ clean' = FALSE
    BY DEF Edit
  <2> QED BY <2>1, <2>2, BuildBounds DEF Versions
<1>2. UNCHANGED <<zip, catalogFile, step, hashed, copied, todo, torn, runs, verdict>>
  BY DEF Edit
<1>3. BuildTypeOK'
  BY <1>1, <1>2 DEF BuildInv, BuildTypeOK
<1>4. ProgressInv' /\ CheckInv' /\ OneBuild(catalogFile)' /\ CheckedIsFaithful'
  BY <1>1, <1>2 DEF BuildInv, ProgressInv, CheckInv, CheckedIsFaithful, Copying, OneBuild
<1> QED BY <1>3, <1>4 DEF BuildInv

LEMMA StartRunInv == BuildInv /\ StartRun => BuildInv'
<1> SUFFICES ASSUME BuildInv, StartRun PROVE BuildInv'
  OBVIOUS
<1>1. /\ step' \in {"copy to write", "copy to compare"} /\ todo' = Kits /\ hashed' = sources
      /\ verdict' = "none" /\ clean' = (step' = "copy to compare") /\ torn' = "none"
      /\ UNCHANGED <<sources, zip, catalogFile, copied>>
  BY DEF StartRun, BuildInv, BuildTypeOK
<1>2. runs' \in 0..BuildBound
  <2>1. runs \in 0..BuildBound
    BY DEF BuildInv, BuildTypeOK
  <2>2. runs < BuildBound /\ runs' = runs + 1
    BY DEF StartRun
  <2> QED BY <2>1, <2>2, BuildBounds
<1>3. BuildTypeOK'
  BY <1>1, <1>2 DEF BuildInv, BuildTypeOK
<1>4. ProgressInv' /\ CheckInv' /\ CheckedIsFaithful'
  BY <1>1 DEF ProgressInv, CheckInv, CheckedIsFaithful, Copying
<1> QED BY <1>1, <1>3, <1>4 DEF BuildInv, OneBuild

LEMMA CopyInv == BuildInv /\ Copy => BuildInv'
<1> SUFFICES ASSUME BuildInv, Copy PROVE BuildInv'
  OBVIOUS
<1>1. PICK k \in todo : copied' = [copied EXCEPT ![k] = sources] /\ todo' = todo \ {k}
  BY DEF Copy
<1>2. /\ Copying /\ torn = "none"
      /\ UNCHANGED <<sources, zip, catalogFile, step, hashed, torn, runs, verdict, clean>>
  BY DEF Copy, BuildInv, ProgressInv, Copying
<1>3. k \in Kits
  BY <1>1, <1>2 DEF BuildInv, ProgressInv
<1>4. BuildTypeOK'
  BY <1>1, <1>2 DEF BuildInv, BuildTypeOK, Copying
<1>5. ProgressInv'
  BY <1>1, <1>2 DEF BuildInv, ProgressInv, Copying
<1>6. CheckInv' /\ CheckedIsFaithful'
  BY <1>1, <1>2 DEF BuildInv, BuildTypeOK, CheckInv, CheckedIsFaithful, Copying
<1> QED BY <1>2, <1>4, <1>5, <1>6 DEF BuildInv, OneBuild

LEMMA BuiltInv == BuildInv /\ Built => BuildInv'
<1> SUFFICES ASSUME BuildInv, Built PROVE BuildInv'
  OBVIOUS
<1>1. /\ Copying /\ todo = {} /\ todo' = BuildArtifacts /\ torn = "none"
      /\ step' = IF step = "copy to write" THEN "write" ELSE "compare"
      /\ UNCHANGED <<sources, zip, catalogFile, hashed, copied, torn, runs, verdict, clean>>
  BY DEF Built, BuildInv, ProgressInv, Copying, BuildArtifacts
<1>2. BuildTypeOK'
  BY <1>1 DEF BuildInv, BuildTypeOK, BuildArtifacts
<1>3. ProgressInv'
  BY <1>1 DEF ProgressInv, Copying, BuildArtifacts
<1>4. CheckInv' /\ CheckedIsFaithful'
  BY <1>1 DEF BuildInv, CheckInv, CheckedIsFaithful, Copying, BuildArtifacts
<1> QED BY <1>1, <1>2, <1>3, <1>4 DEF BuildInv, OneBuild

\* Writing is never part of a --check.
LEMMA WritingInv ==
    ASSUME BuildInv, step = "write", BuildTypeOK', ProgressInv', OneBuild(catalogFile)',
           step' \in {"idle", "write"}, UNCHANGED <<verdict, clean>>
    PROVE  BuildInv'
BY DEF BuildInv, CheckInv, CheckedIsFaithful

LEMMA TruncateInv == BuildInv /\ Truncate => BuildInv'
<1> SUFFICES ASSUME BuildInv, Truncate PROVE BuildInv'
  OBVIOUS
<1>1. PICK a \in todo :
         /\ NextArtifact(a) /\ torn' = a
         /\ IF a = "catalog" THEN catalogFile' = PartialCatalog /\ UNCHANGED zip
            ELSE zip' = [zip EXCEPT ![a] = Partial] /\ UNCHANGED catalogFile
  BY DEF Truncate
<1>2. step = "write" /\ UNCHANGED <<sources, step, hashed, copied, todo, runs, verdict, clean>>
  BY DEF Truncate
<1>3. a \in BuildArtifacts /\ (a # "catalog" => a \in Kits)
  BY DEF BuildInv, BuildTypeOK, BuildArtifacts
<1>4. BuildTypeOK'
  BY <1>1, <1>2, <1>3 DEF BuildInv, BuildTypeOK
<1>5. ProgressInv'
  BY <1>1, <1>2, <1>3 DEF BuildInv, ProgressInv, NextArtifact, Copying
<1>6. OneBuild(catalogFile)'
  BY <1>1, BuiltTypes DEF BuildInv, OneBuild
<1> QED BY <1>2, <1>4, <1>5, <1>6, WritingInv

LEMMA FillInv == BuildInv /\ Fill => BuildInv'
<1> SUFFICES ASSUME BuildInv, Fill PROVE BuildInv'
  OBVIOUS
<1>1. /\ step = "write" /\ torn # "none" /\ torn \in todo /\ "catalog" \in todo
      /\ torn = "catalog" => todo = {"catalog"}
      /\ torn # "catalog" => torn \in Kits
  BY DEF Fill, BuildInv, ProgressInv, BuildTypeOK
<1>2. /\ IF torn = "catalog" THEN catalogFile' = Catalog /\ UNCHANGED zip
         ELSE zip' = [zip EXCEPT ![torn] = Archive(torn)] /\ UNCHANGED catalogFile
      /\ todo' = todo \ {torn} /\ torn' = "none"
      /\ step' = IF torn = "catalog" THEN "idle" ELSE "write"
      /\ UNCHANGED <<sources, hashed, copied, runs, verdict, clean>>
  BY DEF Fill
<1>3. BuildTypeOK'
  BY <1>1, <1>2, BuiltTypes DEF BuildInv, BuildTypeOK
<1>4. ProgressInv'
  BY <1>1, <1>2 DEF BuildInv, ProgressInv, Copying
<1>5. OneBuild(catalogFile)'
  BY <1>2, BuiltTypes DEF BuildInv, OneBuild
<1> QED BY <1>1, <1>2, <1>3, <1>4, <1>5, WritingInv

\* The catalog is compared last, so a check that passes compared everything.
LEMMA CompareInv == BuildInv /\ Compare => BuildInv'
<1> SUFFICES ASSUME BuildInv, Compare PROVE BuildInv'
  OBVIOUS
<1>1. PICK a \in todo :
         /\ NextArtifact(a)
         /\ IF Same(a) THEN todo' = todo \ {a} ELSE todo' = {}
         /\ step' = IF todo' = {} THEN "idle" ELSE step
         /\ verdict' = IF ~Same(a) THEN "stale" ELSE IF todo' = {} THEN "current" ELSE verdict
  BY DEF Compare
<1>2. /\ step = "compare" /\ torn = "none"
      /\ UNCHANGED <<sources, zip, catalogFile, hashed, copied, torn, runs, clean>>
  BY DEF Compare, BuildInv, ProgressInv
<1>3. BuildTypeOK'
  BY <1>1, <1>2 DEF BuildInv, BuildTypeOK
<1>4. ProgressInv'
  BY <1>1, <1>2 DEF ProgressInv, Copying
<1>5. UNCHANGED <<Catalog, zip>> /\ \A b \in BuildArtifacts : Same(b)' <=> Same(b)
  BY <1>2 DEF Same, Catalog, Archive
<1>6. CheckInv'
  BY <1>1, <1>2, <1>5 DEF BuildInv, CheckInv, BuildArtifacts
<1>7. CheckedIsFaithful'
  <2> SUFFICES ASSUME verdict' = "current", clean
               PROVE  /\ \A k \in Kits : zip[k] = [sources |-> sources, content |-> sources]
                      /\ catalogFile = [sources |-> sources, kits |-> zip]
    BY <1>2 DEF CheckedIsFaithful
  <2>1. Same(a) /\ todo \subseteq {a} /\ verdict = "none"
    BY <1>1, <1>2 DEF BuildInv, CheckInv
  <2>2. \A b \in BuildArtifacts : Same(b)
    BY <1>2, <2>1 DEF BuildInv, CheckInv
  <2>3. hashed = sources /\ \A k \in Kits : copied[k] = sources
    BY <1>2 DEF BuildInv, CheckInv
  <2>4. \A k \in Kits : zip[k] = Archive(k)
    BY <2>2, KitsNamed DEF Same, BuildArtifacts
  <2>5. zip = [k \in Kits |-> Archive(k)]
    BY <2>4 DEF BuildInv, BuildTypeOK
  <2>6. catalogFile = Catalog
    BY <2>2 DEF Same, BuildArtifacts
  <2> QED BY <2>3, <2>4, <2>5, <2>6 DEF Archive, Catalog
<1> QED BY <1>2, <1>3, <1>4, <1>6, <1>7 DEF BuildInv, OneBuild

LEMMA DieInv == BuildInv /\ Die => BuildInv'
<1> SUFFICES ASSUME BuildInv, Die PROVE BuildInv'
  OBVIOUS
<1>1. /\ step' = "idle" /\ todo' = {} /\ torn' = "none" /\ verdict = "none"
      /\ UNCHANGED <<sources, zip, catalogFile, hashed, copied, runs, verdict, clean>>
  BY DEF Die, BuildInv, CheckInv
<1>2. BuildTypeOK'
  BY <1>1 DEF BuildInv, BuildTypeOK
<1> QED BY <1>1, <1>2 DEF BuildInv, ProgressInv, CheckInv, CheckedIsFaithful, OneBuild, Copying

LEMMA BuildInvariance == BuildSpec => []BuildInv
<1>1. BuildInv /\ [BuildNext]_build => BuildInv'
  <2> SUFFICES ASSUME BuildInv, [BuildNext]_build PROVE BuildInv'
    OBVIOUS
  <2>1. CASE UNCHANGED build
    BY <2>1 DEF build, BuildInv, BuildTypeOK, ProgressInv, CheckInv, CheckedIsFaithful, OneBuild,
       Copying, Same, Catalog, Archive
  <2> QED BY <2>1, EditInv, StartRunInv, CopyInv, BuiltInv, TruncateInv, FillInv, CompareInv,
     DieInv DEF BuildNext
<1> QED BY <1>1, BuildInitInv, PTL DEF BuildSpec

-----------------------------------------------------------------------------
(* The page between them *)

\* Each of the page's steps is one of i18n.js or leaves it alone, and so for
\* the build: what holds of the two alone holds under the page.
LEMMA StartKeepsLanguages == StartSpec => LanguageSpec
<1>1. StartInit => LanguageInit
  BY DEF StartInit
<1>2. [StartNext]_<<i18n, build, start>> => [LanguageNext]_i18n
  BY DEF StartNext, Switch, SwitchArrives, Build, AskCatalog, CatalogArrives, CatalogFails,
     Select, Download, ArchiveArrives, DownloadFails, LanguageNext, i18n
<1> QED BY <1>1, <1>2, PTL DEF StartSpec, LanguageSpec

LEMMA StartKeepsBuilds == StartSpec => BuildSpec
<1>1. StartInit => BuildInit
  BY DEF StartInit
<1>2. [StartNext]_<<i18n, build, start>> => [BuildNext]_build
  BY DEF StartNext, Switch, SwitchArrives, Build, AskCatalog, CatalogArrives, CatalogFails,
     Select, Download, ArchiveArrives, DownloadFails, build
<1> QED BY <1>1, <1>2, PTL DEF StartSpec, BuildSpec

PageTypeOK ==
    /\ rendered \in Langs \cup {"none"} /\ selected \in Kits
    /\ loading \in {"not asked", "asked", "failed", "loaded"}
    /\ catalog \in [sources : Versions, kits : [Kits -> Archives]] \cup {PartialCatalog}
    /\ loading = "loaded" <=> catalog # PartialCatalog
    /\ download \in [kit : Kits, entry : Archives] \cup {NoDownload}
    /\ notice \in {"none", "busy", "downloaded", "failed"}
    /\ saved \subseteq [kit : Kits, body : Archives, shown : Archives]

\* All that is downloaded and saved is of the one catalog the page has read.
OfCatalog ==
    /\ OneBuild(catalog)
    /\ Downloading => loading = "loaded" /\ download.entry = catalog.kits[download.kit]
    /\ saved # {} => loading = "loaded"
    /\ \A s \in saved : s.body = s.shown /\ s.shown = catalog.kits[s.kit]

NoticeInv ==
    /\ notice = "busy" => Downloading /\ download.kit = selected
    /\ notice = "downloaded" => \E s \in saved : s.kit = selected

RenderedInv == loading # "not asked" => rendered = current /\ dictionary # "none"

StartInv == PageTypeOK /\ OfCatalog /\ NoticeInv /\ RenderedInv

LEMMA DownloadFacts ==
    ASSUME PageTypeOK, Downloading
    PROVE  /\ download.kit \in Kits /\ download.entry \in Archives
           /\ download = [kit |-> download.kit, entry |-> download.entry]
BY DEF PageTypeOK, Downloading

LEMMA EntryDownloads ==
    ASSUME NEW k \in Kits, NEW entry
    PROVE  [kit |-> k, entry |-> entry] # NoDownload
<1>1. k # "none"
  BY KitsNamed
<1>2. [kit |-> k, entry |-> entry].kit = k /\ NoDownload.kit = "none"
  BY DEF NoDownload
<1> QED BY <1>1, <1>2

LEMMA StartInitInv == StartInit => StartInv
<1> SUFFICES ASSUME StartInit PROVE StartInv
  OBVIOUS
<1>1. PageTypeOK /\ NoticeInv /\ RenderedInv
  BY DEF StartInit, PageTypeOK, NoticeInv, RenderedInv
<1>2. OneBuild(PartialCatalog)
  BY DEF OneBuild, PartialCatalog, Partial
<1> QED BY <1>1, <1>2 DEF StartInit, StartInv, OfCatalog, Downloading

LEMMA SwitchInv == StartInv /\ Switch => StartInv'
BY DEF Switch, Waits, SetLang, LoadFails, shown, start, StartInv, PageTypeOK, OfCatalog, NoticeInv,
   RenderedInv, Downloading, OneBuild

LEMMA BuildStepInv == StartInv /\ Build => StartInv'
BY DEF Build, i18n, shown, start, StartInv, PageTypeOK, OfCatalog, NoticeInv, RenderedInv,
   Downloading, OneBuild

LEMMA SwitchArrivesInv == StartInv /\ LanguageInv /\ SwitchArrives => StartInv'
<1> SUFFICES ASSUME StartInv, LanguageInv, SwitchArrives PROVE StartInv'
  OBVIOUS
<1>1. LanguageInv' /\ dictionary' # "none"
  BY SwitchesInv DEF SwitchArrives
<1>2. rendered' = current' /\ current' \in Langs
  BY <1>1 DEF SwitchArrives, LanguageInv, LanguageTypeOK
<1>3. UNCHANGED <<selected, loading, catalog, download, notice, saved>>
  BY DEF SwitchArrives
<1> QED BY <1>1, <1>2, <1>3 DEF StartInv, PageTypeOK, OfCatalog, NoticeInv, RenderedInv,
    Downloading, OneBuild

\* Every step of the page's own renders it in the current language.
LEMMA PageSteps ==
    ASSUME StartInv, LanguageInv,
           AskCatalog \/ CatalogArrives \/ CatalogFails \/ Select \/ Download
               \/ ArchiveArrives \/ DownloadFails
    PROVE  /\ rendered' = current /\ UNCHANGED <<i18n, build>>
           /\ rendered' \in Langs
           /\ RenderedInv'
<1>1. rendered' = current /\ UNCHANGED <<i18n, build>>
  BY DEF AskCatalog, CatalogArrives, CatalogFails, Select, Download, ArchiveArrives,
     DownloadFails, Render
<1>2. current' = current /\ dictionary' = dictionary /\ current \in Langs
  BY <1>1 DEF i18n, shown, LanguageInv, LanguageTypeOK
<1>3. CASE AskCatalog
  BY <1>1, <1>2, <1>3 DEF AskCatalog, LanguageReady, LanguageInv, RenderedInv
<1>4. CASE CatalogArrives \/ CatalogFails \/ Download
  BY <1>1, <1>2, <1>4 DEF CatalogArrives, CatalogFails, Download, StartInv, RenderedInv
<1>5. CASE Select \/ ArchiveArrives \/ DownloadFails
  <2>1. loading' = loading
    BY <1>5 DEF Select, ArchiveArrives, DownloadFails
  <2> QED BY <1>1, <1>2, <2>1 DEF StartInv, RenderedInv
<1> QED BY <1>1, <1>2, <1>3, <1>4, <1>5

LEMMA CatalogInv ==
    ASSUME StartInv, BuildInv, LanguageInv, AskCatalog \/ CatalogArrives \/ CatalogFails
    PROVE  StartInv'
<1>1. /\ rendered' \in Langs /\ RenderedInv'
      /\ UNCHANGED <<selected, download, notice, saved>>
  BY PageSteps DEF AskCatalog, CatalogArrives, CatalogFails
<1>2. loading # "loaded" /\ ~Downloading /\ saved = {} /\ catalog = PartialCatalog
  BY DEF AskCatalog, CatalogArrives, CatalogFails, StartInv, PageTypeOK, OfCatalog
<1>3. /\ loading' \in {"asked", "failed", "loaded"}
      /\ catalog' \in [sources : Versions, kits : [Kits -> Archives]] \cup {PartialCatalog}
      /\ loading' = "loaded" <=> catalog' # PartialCatalog
      /\ OneBuild(catalog)'
  BY <1>2 DEF AskCatalog, CatalogArrives, CatalogFails, BuildInv, BuildTypeOK, StartInv,
     OfCatalog, OneBuild
<1>4. PageTypeOK'
  BY <1>1, <1>3 DEF StartInv, PageTypeOK
<1>5. OfCatalog' /\ NoticeInv'
  BY <1>1, <1>2, <1>3 DEF StartInv, OfCatalog, NoticeInv, Downloading
<1> QED BY <1>1, <1>4, <1>5 DEF StartInv

LEMMA SelectInv == StartInv /\ LanguageInv /\ Select => StartInv'
<1> SUFFICES ASSUME StartInv, LanguageInv, Select PROVE StartInv'
  OBVIOUS
<1>1. /\ rendered' \in Langs /\ RenderedInv' /\ selected' \in Kits /\ notice' = "none"
      /\ UNCHANGED <<loading, catalog, download, saved>>
  BY PageSteps DEF Select
<1>2. PageTypeOK'
  BY <1>1 DEF StartInv, PageTypeOK
<1>3. OfCatalog' /\ NoticeInv'
  BY <1>1 DEF StartInv, OfCatalog, NoticeInv, Downloading, OneBuild
<1> QED BY <1>1, <1>2, <1>3 DEF StartInv

LEMMA DownloadInv == StartInv /\ LanguageInv /\ Download => StartInv'
<1> SUFFICES ASSUME StartInv, LanguageInv, Download PROVE StartInv'
  OBVIOUS
<1>1. /\ rendered' \in Langs /\ RenderedInv' /\ notice' = "busy"
      /\ loading = "loaded" /\ UNCHANGED <<selected, loading, catalog, saved>>
      /\ download' = [kit |-> selected, entry |-> catalog.kits[selected]]
  BY PageSteps DEF Download
<1>2. selected \in Kits /\ catalog.kits[selected] \in Archives
  BY <1>1 DEF StartInv, PageTypeOK
<1>3. /\ download' \in [kit : Kits, entry : Archives]
      /\ download'.kit = selected /\ download'.entry = catalog.kits[selected]
      /\ download' # NoDownload
  BY <1>1, <1>2, EntryDownloads
<1>4. PageTypeOK'
  BY <1>1, <1>3 DEF StartInv, PageTypeOK
<1>5. OfCatalog' /\ NoticeInv'
  BY <1>1, <1>3 DEF StartInv, OfCatalog, NoticeInv, Downloading, OneBuild
<1> QED BY <1>1, <1>4, <1>5 DEF StartInv

LEMMA DownloadEndsInv ==
    ASSUME StartInv, LanguageInv, ArchiveArrives \/ DownloadFails
    PROVE  StartInv'
<1>1. /\ Downloading /\ download' = NoDownload
      /\ rendered' \in Langs /\ RenderedInv'
      /\ UNCHANGED <<selected, loading, catalog>>
  BY PageSteps DEF ArchiveArrives, DownloadFails
<1>2. /\ download.kit \in Kits /\ download.entry \in Archives
      /\ loading = "loaded" /\ download.entry = catalog.kits[download.kit]
  BY <1>1, DownloadFacts DEF StartInv, OfCatalog
<1> DEFINE done == [kit |-> download.kit, body |-> download.entry, shown |-> download.entry]
<1>3. \/ saved' = saved /\ Notice("failed")
      \/ saved' = saved \cup {done} /\ Notice("downloaded")
  BY DEF ArchiveArrives, DownloadFails, Matches
<1>4. /\ done \in [kit : Kits, body : Archives, shown : Archives]
      /\ done.kit = download.kit /\ done.body = done.shown
      /\ done.shown = catalog.kits[done.kit]
  BY <1>2
<1> HIDE DEF done
<1>5. saved' \subseteq saved \cup {done} /\ saved \subseteq saved'
  BY <1>3
<1>6. PageTypeOK'
  <2>1. notice' \in {"none", "busy", "downloaded", "failed"}
    BY <1>3 DEF Notice, StartInv, PageTypeOK
  <2> QED BY <1>1, <1>4, <1>5, <2>1 DEF StartInv, PageTypeOK
<1>7. OfCatalog'
  BY <1>1, <1>2, <1>4, <1>5 DEF StartInv, OfCatalog, Downloading, OneBuild
<1>8. NoticeInv'
  <2>1. notice' # "busy"
    BY <1>3 DEF Notice, StartInv, NoticeInv
  <2>2. notice' = "downloaded" => \E s \in saved' : s.kit = selected
    BY <1>3, <1>4, <1>5 DEF Notice, StartInv, NoticeInv
  <2> QED BY <1>1, <2>1, <2>2 DEF NoticeInv
<1> QED BY <1>1, <1>6, <1>7, <1>8 DEF StartInv

LEMMA StartInvariance == StartSpec => []StartInv
<1>1. StartInv /\ LanguageInv /\ BuildInv /\ [StartNext]_<<i18n, build, start>> => StartInv'
  <2> SUFFICES ASSUME StartInv, LanguageInv, BuildInv, [StartNext]_<<i18n, build, start>>
               PROVE  StartInv'
    OBVIOUS
  <2>1. CASE UNCHANGED <<i18n, build, start>>
    BY <2>1 DEF i18n, shown, start, StartInv, PageTypeOK, OfCatalog, NoticeInv, RenderedInv,
       Downloading, OneBuild
  <2> QED BY <2>1, SwitchInv, SwitchArrivesInv, BuildStepInv, CatalogInv, SelectInv,
     DownloadInv, DownloadEndsInv DEF StartNext
<1> QED BY <1>1, StartInitInv, StartKeepsLanguages, LanguageInvariance, StartKeepsBuilds,
    BuildInvariance, PTL DEF StartSpec

-----------------------------------------------------------------------------
(* The theorems *)

\* i18n.js under the start page: however switches overlap and loads fail, texts
\* and current language agree, and with the last choice unless since then a load
\* failed or an earlier choice came after it.
THEOREM LanguagesAlwaysAgree == StartSpec => []LanguagesAgree
<1>1. LanguageInv => LanguagesAgree
  BY DEF LanguageInv
<1> QED BY <1>1, StartKeepsLanguages, LanguageInvariance, PTL

\* build_starters.py: a --check that passes is true of every archive and of the
\* catalog until the next edit, for any builds, edits and deaths before it.
THEOREM CheckedIsAlwaysFaithful == StartSpec => []CheckedIsFaithful
<1>1. BuildInv => CheckedIsFaithful
  BY DEF BuildInv
<1> QED BY <1>1, StartKeepsBuilds, BuildInvariance, PTL

\* start.js: all a page saves is what it showed the checksum of, from one build.
THEOREM SavedIsAlwaysOneBuild == StartSpec => []SavedIsOneBuild
<1>1. StartInv => SavedIsOneBuild
  <2> SUFFICES ASSUME StartInv PROVE SavedIsOneBuild
    OBVIOUS
  <2>1. \A s \in saved : s.body = s.shown /\ s.shown = catalog.kits[s.kit] /\ s.kit \in Kits
    BY DEF StartInv, PageTypeOK, OfCatalog
  <2>2. \A s \in saved : s.body.sources = catalog.sources
    BY <2>1 DEF StartInv, OfCatalog, OneBuild
  <2> QED BY <2>1, <2>2 DEF SavedIsOneBuild
<1> QED BY <1>1, StartInvariance, PTL

\* start.js: what it says of a download is of the kit selected, and in the
\* language of the other pages; and all variables keep their types.
THEOREM PageAlwaysAgrees == StartSpec => []PageAgrees
<1>1. StartInv /\ LanguageInv /\ BuildInv => PageAgrees
  BY DEF StartInv, PageTypeOK, NoticeInv, RenderedInv, LanguageInv, BuildInv, PageAgrees,
     StartTypeOK
<1> QED BY <1>1, StartInvariance, StartKeepsLanguages, LanguageInvariance, StartKeepsBuilds,
    BuildInvariance, PTL

=============================================================================
