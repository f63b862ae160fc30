------------------------- MODULE PredictionService -------------------------
(***************************************************************************)
(* backend/services/prediction_service.py.  The trained model is external: *)
(* Classify gives its direction and confidence for a feature vector, and   *)
(* equal features get equal predictions.                                   *)
(***************************************************************************)
EXTENDS FeatureEngine

CONSTANTS
    Classify(_)     \* the trained model

VARIABLES
    modelLoaded,        \* model is not None
    latestPrediction    \* latest_prediction

(* load_model: the bundle is missing, broken or loaded.                    *)
LoadModel == modelLoaded' \in BOOLEAN

Prediction(features) ==
    [timestamp |-> features.timestamp, price |-> features.values.price,
     signal |-> Classify(features.values)]

Predict(features) == latestPrediction' = Prediction(features)
=============================================================================
