---------------------------- MODULE ModelTraining ----------------------------
(***************************************************************************)
(* The programs of ml/ and scripts/train_rwf.py, and the files they leave  *)
(* to each other: footage becomes windows in data/processed, windows and   *)
(* videos become the weights of the two classifiers, and weights become    *)
(* the models that the inference loads.  Any program may be stopped in the *)
(* middle, and run again, when the footage has grown.                      *)
(***************************************************************************)
EXTENDS Naturals, Sequences, FiniteSets, FiniteSetsExt, Functions

CONSTANTS
    Footage,        \* spans of videos: records [source, video, start, label]
    RwfVal,         \* the videos that RWF-2000 has in its own val directory
    NoModel,
    Epochs,         \* --epochs
    MaxRuns         \* bound on the runs of a training program

\* A model in a file: the run and the epoch that it is of, and whether the program
\* was stopped in the middle of writing it.
Model == [run : Nat, epoch : Nat, torn : BOOLEAN]

ASSUME TrainingAssumption ==
    /\ {Epochs, MaxRuns} \subseteq Nat
    /\ NoModel \notin Model

VARIABLES
    collected,  \* the footage there is
    processed,  \* data/processed: file -> length of its feature vectors
    samples,    \* what the training of the classifier has loaded
    training,   \* the trainings that run
    best,       \* training -> best_val_f1, or how good best_val_loss is
    scores,     \* training -> run -> the results of its epochs
    saved,      \* training -> the model in its checkpoint file
    exported,   \* the model in violence_model.onnx
    finished    \* runs of the CNN that came to their end

models == <<collected, processed, samples, training, best, scores, saved, exported, finished>>

Trainings == {"classifier", "cnn"}
Classes   == {"normal", "violent"}      \* CLASS_NAMES, all that the classifier learns
ModelDim  == 34         \* FEATURE_DIM of the classifier and of its inference
Results   == 0..2       \* of an epoch; 0 is never saved: F1 of 0, loss not a number

TrainingInit ==
    /\ collected \in SUBSET Footage
    /\ processed = <<>> /\ samples = {} /\ training = {}
    /\ best = [t \in Trainings |-> 0]
    /\ scores = [t \in Trainings |-> <<>>]
    /\ saved = [t \in Trainings |-> NoModel]
    /\ exported = NoModel /\ finished = {}

-----------------------------------------------------------------------------
(* From footage to windows. *)

\* The spans for validation: those that RWF-2000 has there, none, or the last of
\* a shuffled list.  Though the shuffle has a fixed seed, they may be any: the
\* order of the list is that of a CSV or of a directory, and the share is a
\* parameter, of which two loaders take one span at least.
ValShares(source, spans) ==
    CASE source = "rwf2000" -> {{f \in spans : f.video \in RwfVal}}
      [] source = "kaggle"  -> {{}}
      [] source = "urfall"  -> SUBSET spans
      [] OTHER              -> SUBSET spans \ {{}}

AddFootage(f) ==
    /\ f \notin collected
    /\ collected' = collected \cup {f}
    /\ UNCHANGED <<processed, samples, training, best, scores, saved, exported, finished>>

\* The files of a span's windows, all alike here.
File(f, val) == [source |-> f.source, video |-> f.video, start |-> f.start, label |-> f.label,
                 split |-> IF f \in val THEN "val" ELSE "train"]

\* What every loader does, on its own or under dataset_builder, with vectors of
\* the given length.  Nothing of an earlier run is removed.  Spans that are too
\* short or cannot be read give no windows, and the loader may be stopped, or
\* fail, at any of them.
ProcessSpans(source, length) ==
    LET spans == {f \in collected : f.source = source} IN
    \E val \in ValShares(source, spans), done \in SUBSET spans :
        LET new == {File(f, val) : f \in done}
        IN  /\ processed' = [g \in DOMAIN processed \cup new |->
                                IF g \in new THEN length ELSE processed[g]]
            /\ UNCHANGED <<collected, samples, training, best, scores, saved, exported, finished>>

\* The loaders.  Only two of them are given feature_dim of the configuration.
ProcessRwf2000 == ProcessSpans("rwf2000", 55)

ProcessUcfCrime(configured) == ProcessSpans("ucfcrime", configured)

ProcessUrFall == ProcessSpans("urfall", 51)

ProcessCustom(configured) == ProcessSpans("custom", configured)

ProcessKaggle == ProcessSpans("kaggle", ModelDim)

\* dataset_builder passes the one feature_dim it has to those two.
FromConfig(configured) == ProcessUcfCrime(configured) \/ ProcessCustom(configured)

-----------------------------------------------------------------------------
(* From windows and videos to weights. *)

\* The windows of falls, distress and crowds are never opened.
FilesOf(split) == {g \in DOMAIN processed : g.split = split /\ g.label \in Classes}

\* FeatureWindowDataset: an array of another shape is replaced by zeros.
Loaded(g) == [file |-> g, zeros |-> processed[g] # ModelDim]

\* main of train_classifier, which needs a window to begin, and train_model of
\* train_rwf, which needs a data set.
TrainingBegins(t) ==
    /\ t \notin training /\ Len(scores[t]) < MaxRuns
    /\ t = "classifier" => FilesOf("train") # {}
    /\ training' = training \cup {t}
    /\ samples' = IF t = "classifier" THEN {Loaded(g) : g \in FilesOf("train")} ELSE samples
    /\ best' = [best EXCEPT ![t] = 0]
    /\ scores' = [scores EXCEPT ![t] = Append(@, <<>>)]
    /\ UNCHANGED <<collected, processed, saved, exported, finished>>

ThisRun(t) == Len(scores[t])
EpochOf(t) == Len(scores[t][ThisRun(t)])

BugImproves(t, result) == result >= best[t]

Improves(t, result) == result > best[t]

\* An epoch and its validation, which for the classifier needs a window.
EpochDone(t, result) ==
    /\ t \in training /\ EpochOf(t) < Epochs
    /\ t = "classifier" => FilesOf("val") # {}
    /\ scores' = [scores EXCEPT ![t][ThisRun(t)] = Append(@, result)]
    /\ UNCHANGED <<collected, processed, samples, exported, finished>>

\* torch.save writes over the checkpoint file of before.
Saved(t, torn) ==
    saved' = [saved EXCEPT ![t] = [run |-> ThisRun(t), epoch |-> EpochOf(t) + 1, torn |-> torn]]

Epoch(t, result) ==
    /\ EpochDone(t, result)
    /\ IF Improves(t, result) THEN best' = [best EXCEPT ![t] = result] /\ Saved(t, FALSE)
                              ELSE UNCHANGED <<best, saved>>
    /\ UNCHANGED training

StopsInSave(t, result) ==
    /\ EpochDone(t, result) /\ Improves(t, result)
    /\ Saved(t, TRUE)
    /\ training' = training \ {t}
    /\ UNCHANGED best

Whole(model) == model # NoModel /\ ~model.torn

\* The CNN is exported from the checkpoint file, whichever run wrote it; without
\* one, or when it cannot be read, the program fails.  (export_onnx never writes a
\* file: it traces the classifier with vectors of length 55.)
TrainingEnds(t) ==
    /\ t \in training /\ EpochOf(t) = Epochs
    /\ training' = training \ {t}
    /\ IF t = "cnn" /\ Whole(saved[t])
       THEN exported' = saved[t] /\ finished' = finished \cup {ThisRun(t)}
       ELSE UNCHANGED <<exported, finished>>
    /\ UNCHANGED <<collected, processed, samples, best, scores, saved>>

StopsInExport(t) ==
    /\ t = "cnn" /\ t \in training /\ EpochOf(t) = Epochs /\ Whole(saved[t])
    /\ training' = training \ {t}
    /\ exported' = [saved[t] EXCEPT !.torn = TRUE]
    /\ UNCHANGED <<collected, processed, samples, best, scores, saved, finished>>

\* Somebody stops it between these, or a validation without windows divides by
\* zero.
TrainingStops(t) ==
    /\ t \in training
    /\ training' = training \ {t}
    /\ UNCHANGED <<collected, processed, samples, best, scores, saved, exported, finished>>

FootageNext ==
    \/ \E f \in Footage : AddFootage(f)
    \/ ProcessRwf2000 \/ ProcessUrFall \/ ProcessKaggle
    \/ \E configured \in {ModelDim, 55} : FromConfig(configured)

TrainerNext(t) ==
    \/ TrainingBegins(t) \/ TrainingEnds(t) \/ TrainingStops(t) \/ StopsInExport(t)
    \/ \E result \in Results : Epoch(t, result) \/ StopsInSave(t, result)

TrainingNext == FootageNext \/ \E t \in Trainings : TrainerNext(t)

TrainingSpec == TrainingInit /\ [][TrainingNext]_models

-----------------------------------------------------------------------------
(* Properties. *)

\* The epoch is the first that did best in its run.
BestOfRun(t, m) ==
    LET s == scores[t][m.run] IN
    /\ s[m.epoch] > 0
    /\ \A n \in DOMAIN s : s[n] <= s[m.epoch] /\ (n < m.epoch => s[n] < s[m.epoch])

\* A checkpoint file is of the first best epoch of its run, and no later run had an
\* epoch worth saving, though programs are stopped and begun again; only a program
\* that was stopped leaves it torn.  What is exported for the inference is of the
\* first best epoch of its run too, and no later run that came to its end had
\* anything better than nothing to export.
BestIsKept ==
    /\ \A t \in Trainings :
         IF saved[t] = NoModel THEN \A r \in DOMAIN scores[t] : Range(scores[t][r]) \subseteq {0}
         ELSE /\ BestOfRun(t, saved[t])
              /\ \A r \in DOMAIN scores[t] : r > saved[t].run => Range(scores[t][r]) \subseteq {0}
              /\ saved[t].torn /\ t \in training => saved[t].run < ThisRun(t)
    /\ exported # NoModel =>
         /\ BestOfRun("cnn", exported)
         /\ \A r \in finished : r > exported.run => Range(scores["cnn"][r]) \subseteq {0}

\* What dataset_builder's documentation says: the data set is ready for training.
\* So nothing that the training loads has to be replaced.
ReadyForTraining == \A sample \in samples : ~sample.zeros
=============================================================================
