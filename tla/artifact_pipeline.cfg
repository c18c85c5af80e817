\* One request from its path to the layer that is stored.
SPECIFICATION Spec
CONSTANTS
    Elements <- RoutingWords
    Archives <- OneOfThree
    Limits <- NoneOrTwo
    MaxSize = 4
    Proxy = "proxy"
    EmptyConfig = EmptyConfig
    Broken = Broken
INVARIANTS TypeOK RoutedAsMeant DownloadsAreWhole  DependenciesResolve ImageDescribesLayer Reproducible VerifiedIsPromised
