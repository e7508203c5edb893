---------------------------- MODULE MCVinConfig ----------------------------
\* Two queries and the passive scan; one car that answers the second query
\* only, one that answers none and is found by the passive scan.
EXTENDS VinConfig

MCQueries == <<"vin_7DF_09_02", "vin_18DB33F1_09_02">>
MCCars == {"car1", "car2"}
MCWorks == [c \in MCCars |->
    IF c = "car1" THEN {"vin_18DB33F1_09_02"} ELSE {"citroen"}]
=============================================================================
