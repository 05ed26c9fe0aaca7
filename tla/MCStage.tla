------------------------------ MODULE MCStage -------------------------------
EXTENDS Stage
CONSTANTS api, docs
MCNames == {api, docs}
MCOrder == <<api, docs>>
=============================================================================
