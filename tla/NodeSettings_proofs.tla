------------------------- MODULE NodeSettings_proofs -------------------------
(***************************************************************************)
(* Theorems about NodeSettings, for every set of labels and of access      *)
(* settings, whatever compose makes of a label, and every number of calls, *)
(* writes and deaths.                                                      *)
(***************************************************************************)
EXTENDS NodeSettings, TLAPS

Files == [content : Contents, owner : {"api", "root"}]

\* The two writers replace their own lines.
LEMMA PersistedContent ==
    ASSUME NEW content \in Contents, NEW l \in Labels
    PROVE  /\ Persisted(content, l) \in Contents
           /\ Persisted(content, l).label = l
           /\ Persisted(content, l).rest = content.rest
BY DEF Persisted, Contents

LEMMA EditedContent ==
    ASSUME copied \in Contents, NEW new \in Modes
    PROVE  /\ Edited(new) \in Contents
           /\ Edited(new).label = copied.label
           /\ copied.rest # Lost => Edited(new).rest = new
BY DEF Edited, Contents

\* A record of its two fields.
LEMMA ContentIsItsFields ==
    ASSUME NEW content \in Contents
    PROVE  content = [label |-> content.label, rest |-> content.rest]
BY DEF Contents

\* What a file is made of, and what is left of it when its content changes.
LEMMA FileFields ==
    /\ \A content \in Contents, owner \in {"api", "root"} :
          File(content, owner) \in Files /\ File(content, owner).content = content
    /\ \A file \in Files, content \in Contents :
          /\ [file EXCEPT !.content = content] \in Files
          /\ [file EXCEPT !.content = content].content = content
    /\ \A file \in Files : file.content \in Contents
    /\ Empty \in Contents
BY DEF File, Files, Contents, Empty

LEMMA OwnFile ==
    ASSUME host \in Files, mounted \in Files
    PROVE  Own \in Files
BY DEF Own

LEMMA OwnWritten ==
    ASSUME host \in Files, mounted \in Files, NEW content \in Contents,
           WritesOwn(content)
    PROVE  /\ host' \in Files /\ mounted' \in Files
           /\ IF attached THEN host'.content = content ELSE host' = host
<1>1. CASE attached
  <2>1. host' = [host EXCEPT !.content = content] /\ mounted' = mounted
    BY <1>1 DEF WritesOwn
  <2>2. host' \in Files /\ host'.content = content
    BY <2>1, FileFields
  <2> QED BY <1>1, <2>1, <2>2
<1>2. CASE ~attached
  BY <1>2, FileFields DEF WritesOwn
<1> QED BY <1>1, <1>2

LEMMA HostWritten ==
    ASSUME host \in Files, mounted \in Files, copied \in Contents,
           NEW new \in Modes, WriterWrites(new)
    PROVE  /\ host' \in Files /\ mounted' \in Files
           /\ host'.content = Edited(new)
<1>1. Edited(new) \in Contents
  BY EditedContent
<1>2. CASE writer = "rename"
  <2>1. host' = File(Edited(new), "root") /\ mounted' = Own
    BY <1>2 DEF WriterWrites
  <2> QED BY <1>1, <2>1, OwnFile, FileFields
<1>3. CASE writer = "copy"
  <2>1. host' = [host EXCEPT !.content = Edited(new)] /\ mounted' = mounted
    BY <1>3 DEF WriterWrites
  <2> QED BY <1>1, <2>1, FileFields
<1> QED BY <1>2, <1>3 DEF WriterWrites

\* The label of a started process is one, and is the promised one as compose
\* reads it.
LEMMA StartedLabel ==
    ASSUME NEW content \in Contents, NEW from, Starts(content, from)
    PROVE  /\ label' \in Labels
           /\ content.label # Lost => label' = AsRead[content.label]
           /\ pc' \in {"idle", "down"}
           /\ pc' # "down" => content.rest \in Modes
BY SettingsAssumption DEF Starts, EnvLabel, Contents

\* Every step keeps every variable in its type.
LEMMA TypeStep ==
    ASSUME TypeOK, [Next]_vars
    PROVE  TypeOK'
<1> USE DEF files, process, put, script, counted, noted
<1>0. host \in Files /\ mounted \in Files
  BY DEF TypeOK, Files
<1>1. ASSUME NEW l \in Labels, PutLabel(l)
      PROVE  TypeOK'
  <2>1. Own.content \in Contents
    BY <1>0, OwnFile, FileFields
  <2>2. puts' \in 0..MaxPuts
    BY <1>1, SettingsAssumption DEF PutLabel, TypeOK
  <2> QED BY <1>1, <2>1, <2>2 DEF PutLabel, TypeOK
<1>2. CASE Truncate
  <2>1. host' \in Files /\ mounted' \in Files
    BY <1>0, <1>2, OwnWritten, FileFields DEF Truncate
  <2> QED BY <1>2, <2>1 DEF Truncate, TypeOK, Files
<1>3. CASE WriteBack
  <2>1. Persisted(loaded, wanted) \in Contents
    BY PersistedContent DEF TypeOK
  <2>2. host' \in Files /\ mounted' \in Files
    BY <1>0, <1>3, <2>1, OwnWritten DEF WriteBack
  <2> QED BY <1>3, <2>2 DEF WriteBack, TypeOK, Files
<1>4. CASE ApiRestarts
  <2>1. label' \in Labels /\ pc' \in {"idle", "down"} /\ origin' = "restarted"
    BY <1>4, StartedLabel DEF ApiRestarts, Starts, TypeOK
  <2>2. deaths' \in 0..MaxDeaths
    BY <1>4, SettingsAssumption DEF ApiRestarts, TypeOK
  <2> QED BY <1>4, <2>1, <2>2 DEF ApiRestarts, TearsWrite, TypeOK
<1>5. CASE Recreate
  <2>1. host.content \in Contents
    BY <1>0, FileFields
  <2>2. label' \in Labels /\ pc' \in {"idle", "down"} /\ origin' = "created"
    BY <1>5, <2>1, StartedLabel DEF Recreate, Starts
  <2> QED BY <1>5, <2>1, <2>2 DEF Recreate, TearsWrite, TypeOK
<1>6. ASSUME NEW how \in {"rename", "copy"}, WriterReads(how)
      PROVE  TypeOK'
  <2>1. host.content \in Contents
    BY <1>0, FileFields
  <2>2. writes' \in 0..MaxWrites
    BY <1>6, SettingsAssumption DEF WriterReads, TypeOK
  <2> QED BY <1>6, <2>1, <2>2 DEF WriterReads, TypeOK
<1>7. ASSUME NEW new \in Modes, WriterWrites(new)
      PROVE  TypeOK'
  <2>1. host' \in Files /\ mounted' \in Files
    BY <1>0, <1>7, HostWritten DEF TypeOK
  <2>2. attached' \in BOOLEAN
    BY <1>7 DEF WriterWrites, TypeOK
  <2> QED BY <1>7, <2>1, <2>2 DEF WriterWrites, TypeOK, Files
<1>8. CASE UNCHANGED vars
  BY <1>8 DEF vars, TypeOK
<1> QED BY <1>1, <1>2, <1>3, <1>4, <1>5, <1>6, <1>7, <1>8 DEF Next

\* Only a whole file starts a process.
LEMMA ModeStep ==
    ASSUME IInv, [Next]_vars
    PROVE  ModeInv'
<1> USE DEF process, put, ModeInv
<1>1. CASE ApiRestarts
  BY <1>1, StartedLabel DEF ApiRestarts, IInv, TypeOK
<1>2. CASE Recreate
  BY <1>2, StartedLabel, FileFields DEF Recreate, IInv, TypeOK, Files
<1>3. CASE \E l \in Labels : PutLabel(l)
  BY <1>3 DEF PutLabel, IInv
<1>4. CASE Truncate \/ WriteBack
  BY <1>4 DEF Truncate, WriteBack, IInv
<1>5. CASE \E how \in {"rename", "copy"} : WriterReads(how)
  BY <1>5 DEF WriterReads, IInv
<1>6. CASE \E new \in Modes : WriterWrites(new)
  BY <1>6 DEF WriterWrites, IInv
<1>7. CASE UNCHANGED vars
  BY <1>7 DEF vars, IInv
<1> QED BY <1>1, <1>2, <1>3, <1>4, <1>5, <1>6, <1>7 DEF Next

\* The API and the scripts keep each other's lines.
LEMMA KeptStep ==
    ASSUME IInv, [Next]_vars
    PROVE  KeptInv'
<1> USE DEF files, process, put, script, counted, noted
<1>0. /\ host \in Files /\ mounted \in Files
      /\ host.content \in Contents /\ promised \in Labels /\ rest \in Modes
  BY FileFields DEF IInv, TypeOK, Files
<1> SUFFICES ASSUME ~raced', ~torn', ~astray'
             PROVE  KeptInv'
  BY DEF KeptInv
<1>1. ASSUME NEW l \in Labels, PutLabel(l)
      PROVE  KeptInv'
  BY <1>1 DEF PutLabel, Own, IInv, KeptInv
<1>2. CASE Truncate
  <2>1. ~attached => host' = host
    BY <1>0, <1>2, OwnWritten, FileFields DEF Truncate
  <2> QED BY <1>2, <2>1 DEF Truncate, IInv, KeptInv
<1>3. CASE WriteBack
  <2>1. CASE UNCHANGED <<host, promised, label, origin>> /\ ~attached
    BY <1>3, <2>1 DEF WriteBack, IInv, KeptInv
  <2>2. CASE /\ attached /\ WritesOwn(Persisted(loaded, wanted))
             /\ label' = wanted /\ origin' = "put" /\ promised' = wanted
    <3>1. Persisted(loaded, wanted) \in Contents
      BY PersistedContent DEF IInv, TypeOK
    <3>2. host'.content = Persisted(loaded, wanted)
      BY <1>0, <2>2, <3>1, OwnWritten
    <3>3. loaded.rest = rest
      BY <1>3, <2>2 DEF WriteBack, IInv, KeptInv
    <3>4. host'.content = [label |-> wanted, rest |-> rest]
      BY <3>1, <3>2, <3>3, PersistedContent, ContentIsItsFields DEF IInv, TypeOK
    <3> QED BY <1>3, <2>2, <3>4 DEF WriteBack, KeptInv
  <2> QED BY <1>3, <2>1, <2>2 DEF WriteBack, IInv, TypeOK
<1>4. CASE ApiRestarts
  <2>1. pc' \in {"idle", "down"} /\ origin' = "restarted"
    BY <1>4, StartedLabel DEF ApiRestarts, Starts, IInv, TypeOK
  <2> QED BY <1>4, <2>1 DEF ApiRestarts, TearsWrite, IInv, KeptInv
<1>5. CASE Recreate
  <2>1. pc' \in {"idle", "down"}
    BY <1>0, <1>5, StartedLabel DEF Recreate
  <2>2. host.content = [label |-> promised, rest |-> rest]
    BY <1>5 DEF Recreate, TearsWrite, IInv, KeptInv
  <2>3. label' = AsRead[promised]
    BY <1>0, <1>5, <2>2, StartedLabel, SettingsAssumption DEF Recreate
  <2> QED BY <1>5, <2>1, <2>2, <2>3 DEF Recreate, KeptInv
<1>6. ASSUME NEW how \in {"rename", "copy"}, WriterReads(how)
      PROVE  KeptInv'
  BY <1>6 DEF WriterReads, IInv, KeptInv
<1>7. ASSUME NEW new \in Modes, WriterWrites(new)
      PROVE  KeptInv'
  <2>1. ~(pc \in {"truncate", "write"} /\ attached) /\ copied = host.content
    BY <1>7 DEF WriterWrites, IInv, TypeOK
  <2>2. host.content = [label |-> promised, rest |-> rest]
    BY <1>7, <2>1 DEF WriterWrites, IInv, KeptInv
  <2>3. Edited(new) = [label |-> promised, rest |-> new]
    BY <1>0, <2>1, <2>2, EditedContent, ContentIsItsFields, SettingsAssumption
  <2>4. host'.content = Edited(new)
    BY <1>0, <1>7, HostWritten DEF IInv, TypeOK
  <2>5. pc \in {"truncate", "write"} => ~attached'
    BY <1>7, <2>1 DEF WriterWrites, IInv, TypeOK
  <2> QED BY <1>7, <2>3, <2>4, <2>5 DEF WriterWrites, IInv, KeptInv
<1>8. CASE UNCHANGED vars
  BY <1>8 DEF vars, IInv, KeptInv
<1> QED BY <1>1, <1>2, <1>3, <1>4, <1>5, <1>6, <1>7, <1>8 DEF Next

\* An installed node.
LEMMA InitInvariant ==
    ASSUME Init
    PROVE  IInv
<1>1. [label |-> DefaultLabel, rest |-> InstalledMode] \in Contents
  BY SettingsAssumption DEF Contents
<1>2. /\ host \in Files /\ mounted \in Files
      /\ host.content = [label |-> DefaultLabel, rest |-> InstalledMode]
  BY <1>1, FileFields DEF Init
<1>3. 0 \in 0..MaxPuts /\ 0 \in 0..MaxWrites /\ 0 \in 0..MaxDeaths
  BY SettingsAssumption
<1>4. TypeOK
  BY <1>1, <1>2, <1>3, SettingsAssumption DEF Init, TypeOK, Files
<1> QED BY <1>2, <1>4, SettingsAssumption DEF Init, IInv, ModeInv, KeptInv

\* The inductive invariant holds in every state the API, the scripts and the
\* operator reach.
THEOREM Invariance == Spec => []IInv
<1>1. Init => IInv
  BY InitInvariant
<1>2. IInv /\ [Next]_vars => IInv'
  BY TypeStep, ModeStep, KeptStep DEF IInv
<1> QED BY <1>1, <1>2, PTL DEF Spec

\* .env.local and what is made of it keep their types.
THEOREM TypeCorrect == Spec => []TypeOK
<1>1. IInv => TypeOK
  BY DEF IInv
<1> QED BY <1>1, Invariance, PTL

\* The API, which rewrites its line of .env.local for PUT /sub/settings
\* (utils/settings.py), and the scripts, which rewrite theirs, keep each
\* other's, and the process uses the label it answered for or what compose
\* makes of it, until they overlap, a write is interrupted or a label goes to a
\* file that is no longer .env.local.
THEOREM LinesAreKept == Spec => []SettingsKept
<1>1. IInv => SettingsKept
  BY DEF IInv, KeptInv, SettingsKept
<1> QED BY <1>1, Invariance, PTL

-----------------------------------------------------------------------------
(* Who may call what.                                                      *)

\* With hiding on, whoever lacks the secret gets one and the same answer.
LEMMA StrangersAreHidden ==
    ASSUME NEW mode \in AllModes, NEW route \in Routes, NEW header \in Headers,
           mode.hide, mode.secret # "set" \/ header # "secret"
    PROVE  Answer(mode, route, header) = "hidden"
BY DEF Answer, IsValid, Configured

\* With hiding off, the rest is closed to strangers.
LEMMA StrangersMayCall ==
    ASSUME NEW mode \in AllModes, NEW route \in Routes, NEW header \in Headers,
           mode.secret # "set" \/ header # "secret",
           Answer(mode, route, header) = "answer"
    PROVE  \/ route = "health"
           \/ route = "subscription" /\ mode.subscription
           \/ route = "docs" /\ mode.dev
<1>1. ~IsValid(mode, header)
  BY DEF IsValid, Configured
<1>2. Verified(mode, header) # "answer"
  BY <1>1 DEF Verified
<1>3. ~mode.hide
  BY StrangersAreHidden
<1>4. route # "status"
  BY <1>1, <1>3 DEF Answer
<1>5. RouteAnswer(mode, route, header) = "answer"
  BY <1>3, <1>4 DEF Answer
<1>6. Declared(mode, route)
  BY <1>5 DEF RouteAnswer
<1>7. route \in {"health", "docs", "subscription", "admin"}
  BY <1>4, <1>6 DEF Declared, Routes
<1> QED BY <1>2, <1>5, <1>6, <1>7 DEF RouteAnswer, Declared

\* Whoever has the secret is let in.
LEMMA OwnersMayCall ==
    ASSUME NEW mode \in AllModes, mode.secret = "set",
           NEW route \in {"health", "status", "admin"}
    PROVE  Answer(mode, route, "secret") = "answer"
BY DEF Answer, IsValid, Configured, Declared, RouteAnswer, Verified

\* With hiding on (main.py, hide_endpoints), whoever lacks the secret gets one
\* and the same answer on any route; with hiding off nothing but /health, the
\* enabled subscriptions and the documentation of development mode; whoever has
\* it is let in.  Under whatever access settings scripts and operator write.
THEOREM StrangersStayOutside == Spec => []StrangersLearnNothing
<1>1. IInv => StrangersLearnNothing
  <2> SUFFICES ASSUME IInv, pc # "down", NEW route \in Routes, NEW header \in Headers
               PROVE  LET mode     == created.rest
                          stranger == mode.secret # "set" \/ header # "secret"
                          answer   == Answer(mode, route, header)
                      IN  /\ mode.hide /\ stranger => answer = "hidden"
                          /\ stranger /\ answer = "answer" =>
                                \/ route = "health"
                                \/ route = "subscription" /\ mode.subscription
                                \/ route = "docs" /\ mode.dev
                          /\ ~stranger /\ route \in {"health", "status", "admin"}
                                => answer = "answer"
    BY DEF StrangersLearnNothing
  <2>1. created.rest \in AllModes
    BY SettingsAssumption DEF IInv, ModeInv
  <2> QED BY <2>1, StrangersAreHidden, StrangersMayCall, OwnersMayCall DEF Headers
<1> QED BY <1>1, Invariance, PTL
=============================================================================
