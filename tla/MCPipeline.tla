------------------------------ MODULE MCPipeline ------------------------------
(* The stages from a frame to a notification, the programs beside them and   *)
(* those that train the models.  They touch each other through the event bus *)
(* and through files only, so a behaviour is one of one part.                *)
EXTENDS EventAnalysis, AnalysisStores, Perception, Notifications,
        Demonstrations, ModelTraining, TLC

CONSTANTS fight, fall, v1, v2

VARIABLE part

MCSituations ==
    (fight :> {[confidence |-> 95, duration |-> 30, people |-> 2, motion |-> 8, night |-> FALSE]})
    @@ (fall :> {[confidence |-> 55, duration |-> 2, people |-> 1, motion |-> 0, night |-> FALSE]})

MCSpan(source, video, start, label) ==
    [source |-> source, video |-> video, start |-> start, label |-> label]

MCFootage ==
    {MCSpan("rwf2000", v1, 0, "violent"), MCSpan("kaggle", v1, 0, "normal"),
     MCSpan("custom", v1, 0, "violent"), MCSpan("custom", v1, 16, "distress"),
     MCSpan("urfall", v1, 0, "fall"), MCSpan("urfall", v2, 0, "normal")}

MCTwo == <<"first", "second">>

MCOne == <<"only">>

rest == <<stores, perception, notifications, ingest, live_demo, models>>

MCInit ==
    /\ Init /\ StoresInit /\ PerceptionInit /\ NotificationsInit
    /\ IngestInit /\ LiveInit /\ TrainingInit
    /\ part \in {"pipeline", "merger", "tracks", "zones", "perception", "notifications",
                 "ingest", "live", "footage", "classifier", "cnn"}
    \* What another part may begin with is not told apart.
    /\ part = "perception" \/ ~cnn
    /\ part = "ingest" \/ (engine = "pose" /\ ~live)
    /\ part = "live" \/ ~onnx
    /\ part \in {"footage", "classifier"} \/ collected = {}

StoreNext ==
    /\ part \in {"merger", "tracks", "zones"}
    /\ \/ Tick
       \/ part = "merger" /\ MergerNext
       \/ part = "tracks" /\ TracksNext
       \/ part = "zones" /\ ZonesNext

ModelsNext ==
    \/ part = "footage" /\ training = {} /\ (FootageNext \/ TrainingBegins("classifier"))
    \/ part = "classifier" /\ (ProcessCustom(ModelDim) \/ TrainerNext("classifier"))
    \/ part = "cnn" /\ TrainerNext("cnn")

MCNext ==
    /\ UNCHANGED part
    /\ \/ part = "pipeline" /\ Next /\ UNCHANGED rest
       \/ StoreNext /\ UNCHANGED <<vars, perception, notifications, ingest, live_demo, models>>
       \/ /\ part = "perception" /\ PerceptionNext
          \* Falls do not depend on the classifier, and the CNN takes longer.
          /\ IF cnn THEN falls' = <<>> ELSE number' < VideoFrames
          /\ UNCHANGED <<vars, stores, notifications, ingest, live_demo, models>>
       \/ /\ part = "notifications" /\ NotificationsNext
          /\ UNCHANGED <<vars, stores, perception, ingest, live_demo, models>>
       \/ /\ part = "ingest" /\ IngestNext
          /\ UNCHANGED <<vars, stores, perception, notifications, live_demo, models>>
       \/ /\ part = "live" /\ LiveNext
          /\ UNCHANGED <<vars, stores, perception, notifications, ingest, models>>
       \/ ModelsNext /\ UNCHANGED <<vars, stores, perception, notifications, ingest, live_demo>>

MCSpec == MCInit /\ [][MCNext]_<<vars, rest, part>> /\ Fairness
=============================================================================
