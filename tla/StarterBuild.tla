---------------------------- MODULE StarterBuild ----------------------------
(***************************************************************************)
(* scripts/build_starters.py: one run hashes its inputs, copies them into  *)
(* the kits, and then writes the archives and the catalog one by one, or   *)
(* with --check compares them.  The inputs may be edited, and a run may    *)
(* die, at any moment.                                                     *)
(***************************************************************************)
EXTENDS Naturals

CONSTANTS
    Kits,
    EditBound, BuildBound   \* bounds of the model: versions of the inputs, runs

ASSUME KitsNamed == Kits \cap {"none", "catalog"} = {}
ASSUME BuildBounds == EditBound \in Nat \ {0} /\ BuildBound \in Nat

VARIABLES
    sources,       \* the version of the inputs
    zip,           \* the archives on disk
    catalogFile,   \* catalog.json on disk
    step,          \* of the run: idle, copy, write, compare
    hashed,        \* source_hashes: the version inputs() saw
    copied,        \* kit -> the version its files are of
    todo,          \* artifacts not yet written, or not yet compared
    torn,          \* the artifact whose write has begun: a kit, catalog, none
    runs,
    verdict,       \* of the last --check, if the last run was one
    clean          \* history: no edit since that --check began

build == <<sources, zip, catalogFile, step, hashed, copied, todo, torn, runs, verdict, clean>>

\* A file that was truncated and not filled.
Partial == [sources |-> 0, content |-> 0]
PartialCatalog == [sources |-> 0, kits |-> [k \in Kits |-> Partial]]

\* An archive is made of the kit's files and of SOURCES.json.
Archive(k) == [sources |-> hashed, content |-> copied[k]]
Catalog == [sources |-> hashed, kits |-> [k \in Kits |-> Archive(k)]]

\* A version that was built before.
BuildInit ==
    /\ sources = 1 /\ hashed = 1 /\ copied = [k \in Kits |-> 1]
    /\ zip = [k \in Kits |-> Archive(k)]
    /\ catalogFile = Catalog
    /\ step = "idle" /\ todo = {} /\ torn = "none"
    /\ runs = 0 /\ verdict = "none" /\ clean = FALSE

Edit ==
    /\ sources < EditBound
    /\ sources' = sources + 1 /\ clean' = FALSE
    /\ UNCHANGED <<zip, catalogFile, step, hashed, copied, todo, torn, runs, verdict>>

\* build() begins with inputs().  No lock keeps a second run out: that runs do
\* not overlap is assumed.
StartRun ==
    /\ step = "idle" /\ runs < BuildBound
    /\ runs' = runs + 1
    /\ step' \in {"copy to write", "copy to compare"}
    /\ hashed' = sources /\ todo' = Kits
    /\ verdict' = "none" /\ clean' = (step' = "copy to compare")
    /\ UNCHANGED <<sources, zip, catalogFile, copied, torn>>

Copying == step \in {"copy to write", "copy to compare"}

Copy ==
    /\ Copying
    /\ \E k \in todo :
          /\ copied' = [copied EXCEPT ![k] = sources]
          /\ todo' = todo \ {k}
    /\ UNCHANGED <<sources, zip, catalogFile, step, hashed, torn, runs, verdict, clean>>

Built ==
    /\ Copying /\ todo = {}
    /\ step' = IF step = "copy to write" THEN "write" ELSE "compare"
    /\ todo' = Kits \cup {"catalog"}
    /\ UNCHANGED <<sources, zip, catalogFile, hashed, copied, torn, runs, verdict, clean>>

\* The artifacts in the order of build(): catalog.json is the last.
NextArtifact(a) == a \in todo /\ (a = "catalog" => todo = {"catalog"})

\* write_bytes truncates the file and then fills it.
Truncate ==
    /\ step = "write" /\ torn = "none"
    /\ \E a \in todo :
          /\ NextArtifact(a) /\ torn' = a
          /\ IF a = "catalog" THEN catalogFile' = PartialCatalog /\ UNCHANGED zip
             ELSE zip' = [zip EXCEPT ![a] = Partial] /\ UNCHANGED catalogFile
    /\ UNCHANGED <<sources, step, hashed, copied, todo, runs, verdict, clean>>

Fill ==
    /\ step = "write" /\ torn # "none"
    /\ IF torn = "catalog" THEN catalogFile' = Catalog /\ UNCHANGED zip
       ELSE zip' = [zip EXCEPT ![torn] = Archive(torn)] /\ UNCHANGED catalogFile
    /\ todo' = todo \ {torn} /\ torn' = "none"
    /\ step' = IF torn = "catalog" THEN "idle" ELSE "write"
    /\ UNCHANGED <<sources, hashed, copied, runs, verdict, clean>>

SameCatalog(a) ==                \* mutant: the archives are not compared
    a = "catalog" => catalogFile = Catalog

Same(a) == IF a = "catalog" THEN catalogFile = Catalog ELSE zip[a] = Archive(a)

Compare ==
    /\ step = "compare"
    /\ \E a \in todo :
          /\ NextArtifact(a)
          /\ IF Same(a) THEN todo' = todo \ {a} ELSE todo' = {}
          /\ step' = IF todo' = {} THEN "idle" ELSE step
          /\ verdict' = IF ~Same(a) THEN "stale" ELSE IF todo' = {} THEN "current" ELSE verdict
    /\ UNCHANGED <<sources, zip, catalogFile, hashed, copied, torn, runs, clean>>

\* The generator fails, or the run is killed.
Die ==
    /\ step # "idle"
    /\ step' = "idle" /\ todo' = {} /\ torn' = "none"
    /\ UNCHANGED <<sources, zip, catalogFile, hashed, copied, runs, verdict, clean>>

BuildNext == Edit \/ StartRun \/ Copy \/ Built \/ Truncate \/ Fill \/ Compare \/ Die

-----------------------------------------------------------------------------
(* Properties *)

Versions == 1..EditBound
Archives == [sources : Versions, content : Versions]

BuildTypeOK ==
    /\ sources \in Versions /\ hashed \in Versions /\ copied \in [Kits -> Versions]
    /\ zip \in [Kits -> Archives \cup {Partial}]
    /\ catalogFile \in [sources : Versions, kits : [Kits -> Archives]] \cup {PartialCatalog}
    /\ step \in {"idle", "copy to write", "copy to compare", "write", "compare"}
    /\ todo \subseteq Kits \cup {"catalog"} /\ torn \in Kits \cup {"none", "catalog"}
    /\ step = "idle" => todo = {} /\ torn = "none"
    /\ runs \in 0..BuildBound /\ verdict \in {"none", "current", "stale"} /\ clean \in BOOLEAN

\* A --check that passes says that every archive is what the inputs make, and
\* that the catalog describes them: after any edit in the middle of a build,
\* which leaves archives whose SOURCES.json is not of their files, and after
\* any death between two writes.  It says so as long as nothing is edited.
CheckedIsFaithful ==
    verdict = "current" /\ clean =>
        /\ \A k \in Kits : zip[k] = [sources |-> sources, content |-> sources]
        /\ catalogFile = [sources |-> sources, kits |-> zip]

=============================================================================
