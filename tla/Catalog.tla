------------------------------- MODULE Catalog -------------------------------
(***************************************************************************)
(* The bundled model catalog (protocol/src/models.json) as manifest.rs     *)
(* reads it: what it asks of the catalog before anything is downloaded,    *)
(* and what it reads of it for a selected pair of models. A path is the    *)
(* sequence of its components. Names, licenses, notices, addresses and     *)
(* hashes are left out.                                                    *)
(***************************************************************************)
EXTENDS Integers, Sequences, FiniteSets

CONSTANTS
  Models,       \* CATALOG.models: a sequence of model records
  NoDirectory,  \* the directory of a model that is a single file
  Names,        \* the components a path may have
  Defaults      \* [transcription, polishing]: the default pair

Pair == {"transcription", "polishing"}

Ids == {Models[i].id : i \in DOMAIN Models}

Model(id) == Models[CHOOSE i \in DOMAIN Models : Models[i].id = id]

Downloadable(m) == m.backend # "apple_foundation_models"

\* model_path: what a backend is given to load.
Loadable(m) == m.directory # NoDirectory \/ Len(m.files) = 1
ModelPath(id) ==
  IF Model(id).directory # NoDirectory THEN Model(id).directory ELSE Model(id).files[1].path

BackendsOf(category) ==
  IF category = "transcription" THEN {"transcribe_cpp"} ELSE {"llama_cpp", "apple_foundation_models"}

RelativePath(path) == path # <<>> /\ \A i \in DOMAIN path : path[i] \in Names

\* path.starts_with("<directory>/")
Inside(path, directory) ==
  /\ Len(path) > Len(directory)
  /\ SubSeq(path, 1, Len(directory)) = directory

ValidFile(m, f) ==
  /\ RelativePath(f.path) /\ f.size > 0
  /\ m.directory # NoDirectory => Inside(f.path, m.directory)

ValidModel(m) ==
  /\ m.languages # {}
  /\ m.category \in Pair /\ m.backend \in BackendsOf(m.category)
  /\ IF Downloadable(m) THEN m.files # <<>> ELSE m.files = <<>> /\ m.directory = NoDirectory
  /\ m.directory # NoDirectory => RelativePath(m.directory)
  /\ \A k \in DOMAIN m.files : ValidFile(m, m.files[k])

\* A destination is in the catalog once.
Places == UNION {{<<i, k>> : k \in DOMAIN Models[i].files} : i \in DOMAIN Models}
PathAt(place) == Models[place[1]].files[place[2]].path

\* validate_selection: each half is a model of its category.
ValidSelection(selection) ==
  \A half \in Pair :
    selection[half] \in Ids /\ Model(selection[half]).category = half

\* validate_catalog
ValidCatalog ==
  /\ Models # <<>>
  /\ \A i, j \in DOMAIN Models : Models[i].id = Models[j].id => i = j
  /\ \A i \in DOMAIN Models : ValidModel(Models[i])
  /\ \A p, q \in Places : PathAt(p) = PathAt(q) => p = q
  /\ ValidSelection(Defaults)

ASSUME CatalogAssumption == ValidCatalog

\* ensure_selected_models: the files of both models, one after the other.
PathsOf(m) == [k \in DOMAIN m.files |-> m.files[k].path]
SelectedFiles(selection) ==
  PathsOf(Model(selection.transcription)) \o PathsOf(Model(selection.polishing))

\* download_path splits a destination at its first slash.
DirectoryOf(path) == IF Len(path) > 1 THEN Head(path) ELSE NoDirectory

=============================================================================
