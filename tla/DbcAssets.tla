------------------------------- MODULE DbcAssets -------------------------------
(***************************************************************************)
(* The DBC assets of a project: the import that copies a document into the *)
(* project and registers it, the reads that prove the copy is still what   *)
(* was registered, and the cache of compiled decoders all requests share   *)
(* (dbc/project_service.py, dbc/repository.py, dbc/asset.py,               *)
(* dbc/decoder_cache.py and the workers of api/dbc.py).                    *)
(*                                                                         *)
(* Every call opens the project first (ProjectStore).  A content stands    *)
(* for the bytes, their size and their digest: two contents are equal when *)
(* those are.  A decoder is what its content means under an encoding.  The *)
(* source of an import by path, the copies and the dbc directory are files *)
(* others may touch.                                                       *)
(***************************************************************************)
EXTENDS ProjectStore

CONSTANTS
  Contents,   \* the bytes of documents
  Encodings,  \* the codecs they are read with
  Parsable,   \* the pairs of them that are a DBC document
  Owned,      \* what a project may own already: an asset, a content, an encoding
  Assets,     \* asset identities, numbered in the order uuid4 gives them
  MaxEntries, \* DEFAULT_MAX_ENTRIES of the decoder cache
  MaxTampers  \* bound on what others do to the files

ASSUME AssetAssumption ==
  /\ Assets \subseteq Nat \ {0} /\ IsFiniteSet(Assets)
  /\ Parsable \subseteq Contents \X Encodings
  /\ Owned \subseteq Assets \X Parsable
  /\ \A o, p \in Owned : o[1] = p[1] => o = p
  /\ MaxEntries \in Nat \ {0}

VARIABLES
  registry,   \* the rows of dbc_assets
  files,      \* dbc/<asset>.dbc of each identity
  source,     \* what the file an import by path names holds now
  contained,  \* whether the dbc directory is there, inside the project
  cache,      \* the entries of DECODER_CACHE, least recently used first
  task,       \* what a call of each worker works on
  used,       \* the identities given out
  tampered,   \* the identities whose copy others have touched
  tampers     \* how often they have touched something

assetVars == <<registry, files, source, contained, cache, task, used, tampered, tampers>>
vars == <<storeVars, assetVars>>

TaskOf(content, encoding, asset) ==
  [content |-> content, raw |-> content, encoding |-> encoding, asset |-> asset]
NoTask == TaskOf(None, None, 0)

Row(asset, content, encoding, id) ==
  [asset |-> asset, content |-> content, encoding |-> encoding, project |-> id]

\* DecoderKey: the project, the digest and the encoding.
KeyOfContent(row) == [project |-> row.project, content |-> row.content, encoding |-> None]
KeyOf(row) == [project |-> row.project, content |-> row.content, encoding |-> row.encoding]
DecoderOf(content, encoding) == [content |-> content, encoding |-> encoding]
NoDecoder == DecoderOf(None, None)

\* The row of an asset, if there is one.
IsRegistered(asset) == \E row \in registry : row.asset = asset
RowOf(asset) == CHOOSE row \in registry : row.asset = asset

\* The call of w fails, and leaves the rest as it is.
Refuse(w) ==
  /\ Fail(w)
  /\ task' = [task EXCEPT ![w] = NoTask]

\* It answers with a row, and a decoder if the call is for one.
Return(w, row, decoder) ==
  /\ Finish(w, [op |-> call[w].op, ok |-> TRUE, row |-> row, decoder |-> decoder])
  /\ task' = [task EXCEPT ![w] = NoTask]

\* What most steps leave alone.
environment == <<source, contained, tampered, tampers>>
project == <<diskVars, calls, crashes>>

---------------------------------------------------------------------------
(* import_asset and import_asset_bytes *)

\* A path is given by what it holds: import_file reads it at once.
Import(w, op, content, encoding) ==
  /\ Begin(w, op, "open", None)
  /\ task' = [task EXCEPT ![w] = TaskOf(content, encoding, 0)]
  /\ UNCHANGED <<diskVars, writer, crashes, registry, files, cache, used, environment>>
ImportBytes(w) ==
  \E content \in Contents, encoding \in Encodings : Import(w, "import", content, encoding)
ImportPath(w) ==
  \E encoding \in Encodings : Import(w, "import_path", None, encoding)

Importing(w) == call[w].op \in {"import", "import_path"}

\* The project is open, its identity known, its connection closed again.
Identified(w) ==
  /\ call[w].step = "verify" /\ call[w].op # "inspect"
  /\ IF Verified(w)
     THEN /\ Goto(w, IF Importing(w) THEN "parse" ELSE "lookup")
          /\ UNCHANGED <<answer, task>>
     ELSE Refuse(w)
  /\ UNCHANGED <<project, writer, registry, files, cache, used, environment>>

\* import_file, import_bytes: the document is parsed, its digest recorded.
Parse(w) ==
  /\ Importing(w) /\ call[w].step = "parse"
  /\ LET content == IF call[w].op = "import" THEN task[w].content ELSE source
     IN IF <<content, task[w].encoding>> \in Parsable
        THEN /\ task' = [task EXCEPT ![w].content = content]
             /\ Goto(w, IF call[w].op = "import" THEN "identify" ELSE "reread")
             /\ UNCHANGED answer
        ELSE Refuse(w)
  /\ UNCHANGED <<project, writer, registry, files, cache, used, environment>>

\* _reread_verified: what will be stored is what was validated.
AnySource(w) == TRUE
SameSource(w) == source = task[w].content

Reread(w) ==
  /\ At(w, "import_path", "reread")
  /\ IF SameSource(w)
     THEN /\ task' = [task EXCEPT ![w].raw = source]
          /\ Goto(w, "identify")
          /\ UNCHANGED answer
     ELSE Refuse(w)
  /\ UNCHANGED <<project, writer, registry, files, cache, used, environment>>

\* _persist_imported_document: uuid4, and the path it owns in the dbc directory.
Identify(w) ==
  /\ Importing(w) /\ call[w].step = "identify"
  /\ Assets \ used # {}
  /\ IF contained
     THEN LET asset == CHOOSE a \in Assets \ used : \A b \in Assets \ used : a =< b
          IN /\ task' = [task EXCEPT ![w].asset = asset]
             /\ used' = used \cup {asset}
             /\ Goto(w, "stage")
             /\ UNCHANGED answer
     ELSE Refuse(w) /\ UNCHANGED used
  /\ UNCHANGED <<project, writer, registry, files, cache, environment>>

\* _stage_asset: the exact bytes go to a staging file nobody reads, and then
\* take the name of the asset in one step.
Stage(w) ==
  /\ Importing(w) /\ call[w].step = "stage"
  /\ Goto(w, "promote")
  /\ UNCHANGED <<project, writer, answer, task, registry, files, cache, used, environment>>

Promote(w) ==
  /\ Importing(w) /\ call[w].step = "promote"
  /\ files' = [files EXCEPT ![task[w].asset] = task[w].raw]
  /\ Goto(w, "register")
  /\ UNCHANGED <<project, writer, answer, task, registry, cache, used, environment>>

StageFails(w) ==
  /\ Importing(w) /\ call[w].step \in {"stage", "promote"}
  /\ Refuse(w)
  /\ UNCHANGED <<project, writer, registry, files, cache, used, environment>>

\* insert_asset: one transaction of one row.
Register(w) ==
  /\ Importing(w) /\ call[w].step = "register"
  /\ writer = None
  /\ writer' = w
  /\ Goto(w, "insert")
  /\ UNCHANGED <<project, answer, task, registry, files, cache, used, environment>>

Registered(w) ==
  /\ Importing(w) /\ call[w].step = "insert"
  /\ LET row == Row(task[w].asset, task[w].content, task[w].encoding, call[w].id)
     IN /\ registry' = registry \cup {row}
        /\ Return(w, row, NoDecoder)
  /\ writer' = None
  /\ UNCHANGED <<project, files, cache, used, environment>>

\* The registry refuses: the copy is removed, if it can be.
RegisterFails(w) ==
  /\ Importing(w) /\ call[w].step \in {"register", "insert"}
  /\ Refuse(w)
  /\ files' \in {files, [files EXCEPT ![task[w].asset] = None]}
  /\ writer' = IF writer = w THEN None ELSE writer
  /\ UNCHANGED <<project, registry, cache, used, environment>>

---------------------------------------------------------------------------
(* get_asset, load_asset and load_decoder *)

Ask(w) ==
  /\ \E op \in {"get", "load", "decode"}, asset \in Assets :
        /\ Begin(w, op, "open", None)
        /\ task' = [task EXCEPT ![w] = TaskOf(None, None, asset)]
  /\ UNCHANGED <<diskVars, writer, crashes, registry, files, cache, used, environment>>

\* get_asset: a row of another project is no answer.
Lookup(w) ==
  /\ call[w].step = "lookup"
  /\ LET asset == task[w].asset
     IN IF ~IsRegistered(asset) \/ RowOf(asset).project # call[w].id
        THEN Refuse(w)
        ELSE IF call[w].op = "get"
             THEN Return(w, RowOf(asset), NoDecoder)
             ELSE Goto(w, "read") /\ UNCHANGED <<answer, task>>
  /\ UNCHANGED <<project, writer, registry, files, cache, used, environment>>

\* read_verified_asset: inside the project, of the registered size and digest.
IsInside(asset) == contained /\ files[asset] # None
IsVerified(asset) == contained /\ files[asset] = RowOf(asset).content

Read(w) ==
  /\ call[w].step = "read"
  /\ IF IsVerified(task[w].asset)
     THEN /\ task' = [task EXCEPT ![w].raw = files[task[w].asset]]
          /\ Goto(w, IF call[w].op = "load" THEN "load" ELSE "consult")
          /\ UNCHANGED answer
     ELSE Refuse(w)
  /\ UNCHANGED <<project, writer, registry, files, cache, used, environment>>

\* _parse_verified_asset.
Parses(w) == <<task[w].raw, RowOf(task[w].asset).encoding>> \in Parsable
Parsed(w) == DecoderOf(task[w].raw, RowOf(task[w].asset).encoding)

Loaded(w) ==
  /\ call[w].step = "load"
  /\ IF Parses(w)
     THEN Return(w, RowOf(task[w].asset), Parsed(w))
     ELSE Refuse(w)
  /\ UNCHANGED <<project, writer, registry, files, cache, used, environment>>

\* The cache: get moves an entry to the end, put adds one there and forgets
\* the first ones over the bound.
IsCached(key) == \E i \in DOMAIN cache : cache[i].key = key
PositionOf(key) == CHOOSE i \in DOMAIN cache : cache[i].key = key
EntryOf(key) == cache[PositionOf(key)]
Others(key) ==
  IF IsCached(key)
  THEN SubSeq(cache, 1, PositionOf(key) - 1)
         \o SubSeq(cache, PositionOf(key) + 1, Len(cache))
  ELSE cache
Last(entries) ==
  IF Len(entries) =< MaxEntries THEN entries
  ELSE SubSeq(entries, Len(entries) - MaxEntries + 1, Len(entries))

Consult(w) ==
  /\ call[w].step = "consult"
  /\ LET row == RowOf(task[w].asset)
         key == KeyOf(row)
     IN IF IsCached(key)
        THEN /\ cache' = Append(Others(key), EntryOf(key))
             /\ Return(w, row, EntryOf(key).decoder)
        ELSE Goto(w, "compile") /\ UNCHANGED <<answer, task, cache>>
  /\ UNCHANGED <<project, writer, registry, files, used, environment>>

Compile(w) ==
  /\ call[w].step = "compile"
  /\ LET row == RowOf(task[w].asset)
         key == KeyOf(row)
     IN IF Parses(w)
        THEN /\ cache' = Last(Append(Others(key), [key |-> key, decoder |-> Parsed(w)]))
             /\ Return(w, row, Parsed(w))
        ELSE Refuse(w) /\ UNCHANGED cache
  /\ UNCHANGED <<project, writer, registry, files, used, environment>>

---------------------------------------------------------------------------

\* Others edit the source, replace or delete a copy, or move the directory.
Tamper ==
  /\ tampers < MaxTampers
  /\ tampers' = tampers + 1
  /\ \/ /\ source' \in Contents \ {source}
        /\ UNCHANGED <<files, tampered, contained>>
     \/ \E asset \in Assets :
          /\ files[asset] # None
          /\ \E content \in (Contents \cup {None}) \ {files[asset]} :
                files' = [files EXCEPT ![asset] = content]
          /\ tampered' = tampered \cup {asset}
          /\ UNCHANGED <<source, contained>>
     \/ /\ contained' = ~contained
        /\ UNCHANGED <<source, files, tampered>>
  /\ UNCHANGED <<storeVars, registry, cache, task, used>>

\* With the process goes the cache.
Crash ==
  /\ Killed
  /\ cache' = <<>>
  /\ task' = [w \in Workers |-> NoTask]
  /\ UNCHANGED <<registry, files, used, environment>>

StoreStep(w) ==
  /\ CreateStep(w) \/ Inspect(w) \/ Inspected(w)
  /\ UNCHANGED assetVars

\* A call that cannot open the project is over.
Opening(w) ==
  /\ OpenStep(w)
  /\ task' = IF call'[w] = Idle THEN [task EXCEPT ![w] = NoTask] ELSE task
  /\ UNCHANGED <<registry, files, cache, used, environment>>

ImportStep(w) ==
  \/ ImportBytes(w) \/ ImportPath(w)
  \/ Parse(w) \/ Reread(w) \/ Identify(w)
  \/ Stage(w) \/ Promote(w) \/ StageFails(w)
  \/ Register(w) \/ Registered(w) \/ RegisterFails(w)

ReadStep(w) ==
  Ask(w) \/ Lookup(w) \/ Read(w) \/ Loaded(w) \/ Consult(w) \/ Compile(w)

Init ==
  /\ StoreInit
  /\ registry = IF db = WholeDatabase(Current, manifest)
                THEN {Row(o[1], o[2][1], o[2][2], manifest) : o \in Owned}
                ELSE {}
  /\ files = [asset \in Assets |->
                IF IsRegistered(asset) THEN RowOf(asset).content ELSE None]
  /\ source \in Contents
  /\ contained = TRUE
  /\ cache = <<>>
  /\ task = [w \in Workers |-> NoTask]
  /\ used = {row.asset : row \in registry}
  /\ tampered = {}
  /\ tampers = 0

Next ==
  \/ \E w \in Workers :
       StoreStep(w) \/ Opening(w) \/ Identified(w) \/ ImportStep(w) \/ ReadStep(w)
  \/ Crash
  \/ Tamper

Spec == Init /\ [][Next]_vars

---------------------------------------------------------------------------

\* A registered asset is a document whose exact bytes were in place before its
\* row was: unless others touched the copy since, it is there to be read.  An
\* import that answered is registered (_persist_imported_document,
\* _reread_verified).
RegisteredIsStored ==
  /\ \A row \in registry :
       /\ <<row.content, row.encoding>> \in Parsable
       /\ row.asset \notin tampered => files[row.asset] = row.content
       /\ RowOf(row.asset) = row
  /\ \A w \in Workers :
       answer[w].ok /\ answer[w].op \in {"import", "import_path"} =>
         answer[w].row \in registry

\* What a caller gets is what the registered bytes mean under the registered
\* encoding, whichever thread compiled it and whoever touched the file in
\* between; and the cache they share keeps to its bound (load_decoder,
\* DecoderCache).
DecodesRegistered ==
  /\ \A w \in Workers :
       answer[w].ok /\ answer[w].op \in {"load", "decode"} =>
         /\ answer[w].row \in registry
         /\ answer[w].decoder = DecoderOf(answer[w].row.content, answer[w].row.encoding)
  /\ Len(cache) =< MaxEntries
  /\ \A i, j \in DOMAIN cache : cache[i].key = cache[j].key => i = j
===============================================================================
