SPECIFICATION FairSpec
CONSTANTS
    Configs <- SmallConfigs
    Listings <- SmallListings
INVARIANTS SubscribesListed LoopsMatchConfig NeverPanics ChoosesBest
PROPERTIES KrakenReturns
