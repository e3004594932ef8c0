CONSTANTS
    Platforms = {"liepin", "zhilian", "51job"}
    Codes = {1, 2}
    CityCode = 1
    MaxPage = 3
    MaxTrouble = 1
SPECIFICATION CollectFairSpec
INVARIANTS AskedListOnly ExhaustedIsTrue PageAsAsked
PROPERTIES Recovers
